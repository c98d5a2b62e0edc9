----------------------------- MODULE BodyStream -----------------------------
(***************************************************************************)
(* One response body on its way from the origin (src/proxy.rs, origin_body *)
(* with IdleTimeout, client_response with Tee, and the end of refresh). A  *)
(* chunk is the range of the body's bytes that it carries. The streams are *)
(* polled from the outside in: the reader polls Tee, Tee polls             *)
(* IdleTimeout, and that polls hyper's body and then its own timer.        *)
(*                                                                         *)
(* The reader is actix, which polls only when the client takes data, or a  *)
(* background refresh, which collects the body without a client and        *)
(* without Tee.                                                            *)
(***************************************************************************)
EXTENDS Naturals, Sequences

CONSTANTS
  MaxBytes,             \* how many bytes an origin sends at most
  Lengths,              \* the Content-Length values an origin may send
  NoLength,             \* there is no Content-Length
  Limit,                \* the largest body to store
  Idle                  \* the idle deadline, in ticks

ASSUME SizesAssumption ==
  /\ Lengths \subseteq Nat /\ NoLength \notin Nat
  /\ MaxBytes \in Nat /\ Limit \in Nat /\ Idle \in Nat \ {0}

VARIABLES
  length,               \* Content-Length, or NoLength
  framed,               \* whether the body ends where its Content-Length says
  reader,               \* who reads the body: "client" or "refresh"
  sent, source,         \* what has arrived from the origin, and how it closed
  got, sink,            \* what the reader has, and what it takes it for
  taken,                \* the number of bytes it has counted
  ready,                \* whether the client takes more data
  body,                 \* "live" until the reader drops the stream
  waiting, expired,     \* IdleTimeout's flags
  timer,                \* ticks until its deadline
  copy,                 \* Tee's copy: "none", "open", "stored" or "dropped"
  buffer,               \* the bytes of the copy, as chunks
  held,                 \* buffer.len()
  quiet, patience       \* ticks since the origin sent, since the client took

originVars == <<length, framed, sent, source>>
readerVars == <<reader, got, taken, sink, ready, body>>
idleVars == <<waiting, expired, timer>>
copyVars == <<copy, buffer, held>>
history == <<quiet, patience>>
vars == <<originVars, readerVars, idleVars, copyVars, history>>

(* A chunk carries the bytes after the first `from`, up to `to`.             *)
Chunk == {c \in [from : 0 .. MaxBytes, to : 0 .. MaxBytes] : c.from < c.to}
Bytes(c) == c.to - c.from

(* Where a body ends of which s has arrived.                                *)
End(s) == IF s = <<>> THEN 0 ELSE s[Len(s)].to

TypeOK ==
  /\ length \in Lengths \cup {NoLength} /\ reader \in {"client", "refresh"}
  /\ sent \in Seq(Chunk) /\ got \in Seq(Chunk) /\ buffer \in Seq(Chunk)
  /\ Len(got) <= Len(sent) /\ taken \in Nat /\ held \in Nat
  /\ source \in {"open", "ended", "failed"}
  /\ sink \in {"open", "whole", "broken"}
  /\ body \in {"live", "gone"} /\ copy \in {"none", "open", "stored", "dropped"}
  /\ {framed, ready, waiting, expired} \subseteq BOOLEAN
  /\ timer \in 0 .. Idle /\ quiet \in 0 .. Idle /\ patience \in 0 .. Idle

(* hyper ends a body framed by its Content-Length at that many bytes, and   *)
(* fails it when the connection closes before. A chunked or bodyless answer *)
(* may carry a Content-Length as well, which then says nothing (external).  *)
Agrees == length = NoLength \/ framed

-----------------------------------------------------------------------------
(* client_response and Tee::new: a copy is kept of a storable response whose *)
(* length, if it has one, is within the limit. A body of length 0 is stored *)
(* at once, because actix never polls it. A refresh collects its body only  *)
(* if it is storable, whatever its length.                                  *)
WithinLimit == length = NoLength \/ length <= Limit

InitialCopy(storable) ==
  IF ~storable \/ (reader = "client" /\ ~WithinLimit) THEN "none"
  ELSE IF reader = "client" /\ length = 0 THEN "stored"
  ELSE "open"

Init ==
  /\ length \in Lengths \cup {NoLength}
  /\ framed \in {FALSE, length # NoLength}
  /\ reader \in {"client", "refresh"}
  /\ \E storable \in BOOLEAN :
       (reader = "refresh" => storable) /\ copy = InitialCopy(storable)
  /\ sent = <<>> /\ got = <<>> /\ buffer = <<>> /\ taken = 0 /\ held = 0
  /\ source = IF framed /\ length = 0 THEN "ended" ELSE "open"
  /\ sink = "open" /\ ready = TRUE /\ body = "live"
  /\ waiting = FALSE /\ expired = FALSE /\ timer = Idle
  /\ quiet = 0 /\ patience = 0

-----------------------------------------------------------------------------
(* The origin, as hyper's body shows it (external).                         *)
OriginSends ==
  /\ source = "open"
  /\ \E c \in Chunk :
       /\ c.from = End(sent)
       /\ framed => c.to <= length
       /\ sent' = Append(sent, c)
       /\ source' = IF framed /\ c.to = length THEN "ended" ELSE "open"
  /\ quiet' = 0
  /\ UNCHANGED <<length, framed, readerVars, idleVars, copyVars, patience>>

OriginCloses ==
  /\ source = "open"
  /\ source' \in IF framed THEN {"failed"} ELSE {"ended", "failed"}
  /\ quiet' = 0
  /\ UNCHANGED <<length, framed, sent, readerVars, idleVars, copyVars, patience>>

Tick ==
  /\ timer' = IF timer = 0 THEN 0 ELSE timer - 1
  /\ quiet' = IF quiet = Idle THEN Idle ELSE quiet + 1
  /\ patience' = IF patience = Idle THEN Idle ELSE patience + 1
  /\ UNCHANGED <<originVars, readerVars, waiting, expired, copyVars>>

-----------------------------------------------------------------------------
(* What a poll of hyper's body is ready with: "pending", a chunk, the end   *)
(* or an error.                                                             *)
Unread == Len(got) < Len(sent)
NextChunk == sent[Len(got) + 1]
Inner ==
  IF Unread THEN "chunk"
  ELSE IF source = "ended" THEN "end"
  ELSE IF source = "failed" THEN "error"
  ELSE "pending"

(* IdleTimeout::poll_next. Its deadline starts at the first poll after the  *)
(* last chunk; hyper's body is asked before the timer.                      *)
(* Mutant of Deadline: every poll restarts it.                              *)
DeadlineEveryPoll == Idle

Deadline == IF waiting THEN timer ELSE Idle

(* Mutant of Item: an idle body ends rather than fails.                     *)
ItemEndsIdle ==
  IF expired \/ (Inner = "pending" /\ Deadline = 0) THEN "end" ELSE Inner

Item ==
  IF expired THEN "end"
  ELSE IF Inner # "pending" THEN Inner
  ELSE IF Deadline = 0 THEN "idle"
  ELSE "pending"

(* Mutant of PollIdle: the deadline restarts when a chunk is passed on.     *)
PollIdleFromChunk(item) ==
  /\ item = Item
  /\ expired' = (expired \/ item = "idle")
  /\ waiting' = TRUE
  /\ timer' = IF item = "chunk" THEN Idle ELSE Deadline

PollIdle(item) ==
  /\ item = Item
  /\ expired' = (expired \/ item = "idle")
  /\ waiting' = IF expired THEN waiting ELSE item \in {"pending", "idle"}
  /\ timer' = IF expired THEN timer ELSE Deadline

(* Mutant of Finish: the length is not looked at.                           *)
FinishAnyLength == "stored"

(* Tee::finish.                                                             *)
Finish == IF length = NoLength \/ length = held THEN "stored" ELSE "dropped"

(* extend_from_slice.                                                       *)
Extend == buffer' = Append(buffer, NextChunk) /\ held' = held + Bytes(NextChunk)

(* Mutant of TeeCopy: only the end of the stream finishes a copy.           *)
TeeCopyAtEnd(item) ==
  IF copy # "open" THEN UNCHANGED copyVars
  ELSE \/ /\ item = "chunk"
          /\ IF held + Bytes(NextChunk) > Limit
             THEN copy' = "dropped" /\ UNCHANGED <<buffer, held>>
             ELSE Extend /\ UNCHANGED copy
       \/ item \in {"error", "idle"} /\ copy' = "dropped" /\ UNCHANGED <<buffer, held>>
       \/ item = "end" /\ copy' = Finish /\ UNCHANGED <<buffer, held>>
       \/ item = "pending" /\ UNCHANGED copyVars

(* Tee::poll_next: a chunk past the limit and an error drop the copy; the   *)
(* chunk that makes up the length, or the end, finish it.                   *)
TeeCopy(item) ==
  IF copy # "open" THEN UNCHANGED copyVars
  ELSE \/ /\ item = "chunk"
          /\ IF held + Bytes(NextChunk) > Limit
             THEN copy' = "dropped" /\ UNCHANGED <<buffer, held>>
             ELSE /\ Extend
                  /\ copy' = IF length = held' THEN "stored" ELSE "open"
       \/ item \in {"error", "idle"} /\ copy' = "dropped" /\ UNCHANGED <<buffer, held>>
       \/ item = "end" /\ copy' = Finish /\ UNCHANGED <<buffer, held>>
       \/ item = "pending" /\ UNCHANGED copyVars

(* refresh: Limited::collect fails on the chunk that passes the limit, and  *)
(* a body collected to its end is stored, whatever its length field said.   *)
CollectCopy(item) ==
  \/ /\ item = "chunk"
     /\ IF held + Bytes(NextChunk) > Limit
        THEN copy' = "dropped" /\ UNCHANGED <<buffer, held>>
        ELSE Extend /\ UNCHANGED copy
  \/ item \in {"error", "idle"} /\ copy' = "dropped" /\ UNCHANGED <<buffer, held>>
  \/ item = "end" /\ copy' = "stored" /\ UNCHANGED <<buffer, held>>
  \/ item = "pending" /\ UNCHANGED copyVars

-----------------------------------------------------------------------------
(* A reader that drops the stream drops an unfinished copy with it.         *)
Released == IF copy = "open" THEN "dropped" ELSE copy

(* actix takes a chunked body for whole at its end, and a sized one when it *)
(* has its length; a sized body that ends before is an error to it, and it  *)
(* closes the connection (external).                                        *)
Enough == length = NoLength \/ taken >= length

(* The reader counts what it takes.                                         *)
Take == got' = Append(got, NextChunk) /\ taken' = taken + Bytes(NextChunk)

(* actix polls while the client takes data, and never a body of length 0.   *)
ClientPoll ==
  /\ reader = "client" /\ body = "live" /\ ready /\ sink = "open" /\ length # 0
  /\ PollIdle(Item) /\ TeeCopy(Item)
  /\ \/ /\ Item = "chunk"
        /\ Take /\ ready' \in BOOLEAN
        /\ UNCHANGED sink
     \/ /\ Item # "chunk"
        /\ sink' = CASE Item = "pending" -> "open"
                     [] Item = "end" -> IF Enough THEN "whole" ELSE "broken"
                     [] OTHER -> "broken"
        /\ UNCHANGED <<got, taken, ready>>
  /\ UNCHANGED <<originVars, reader, body, history>>

(* A stream that has failed may be polled once more, which ends it.         *)
PollAgain ==
  /\ reader = "client" /\ body = "live" /\ sink = "broken"
  /\ TeeCopy("end")
  /\ UNCHANGED <<originVars, readerVars, idleVars, history>>

(* actix has the length of a sized body and stops polling it.               *)
SizedDone ==
  /\ reader = "client" /\ body = "live" /\ sink = "open"
  /\ length # NoLength /\ Enough
  /\ sink' = "whole"
  /\ UNCHANGED <<originVars, reader, got, taken, ready, body, idleVars, copyVars, history>>

(* The client takes data again, after any time.                             *)
ClientTakes ==
  /\ reader = "client" /\ ~ready
  /\ ready' = TRUE /\ patience' = 0
  /\ UNCHANGED <<originVars, reader, got, taken, sink, body, idleVars, copyVars, quiet>>

(* refresh polls until collect is done.                                     *)
RefreshPoll ==
  /\ reader = "refresh" /\ sink = "open"
  /\ PollIdle(Item) /\ CollectCopy(Item)
  /\ IF Item = "chunk" /\ copy' = "open" THEN Take ELSE UNCHANGED <<got, taken>>
  /\ sink' = CASE copy' = "open" -> "open"
               [] copy' = "stored" -> "whole"
               [] OTHER -> "broken"
  /\ UNCHANGED <<originVars, reader, ready, body, history>>

(* The response is done with: it ended or failed, or the client left.       *)
DropBody ==
  /\ body = "live" /\ (sink # "open" \/ reader = "client")
  /\ body' = "gone" /\ copy' = Released
  /\ sink' = IF sink = "open" THEN "broken" ELSE sink
  /\ UNCHANGED <<originVars, reader, got, taken, ready, idleVars, buffer, held, history>>

Poll == ClientPoll \/ RefreshPoll

Next ==
  \/ OriginSends \/ OriginCloses \/ Tick
  \/ Poll \/ PollAgain \/ SizedDone \/ ClientTakes \/ DropBody

(* A ready reader polls, time passes, a client goes on reading, and a body  *)
(* that is done with is dropped. Nothing is assumed of the origin.          *)
Fairness ==
  /\ WF_vars(Poll) /\ WF_vars(SizedDone) /\ WF_vars(ClientTakes) /\ WF_vars(Tick)
  /\ WF_vars(sink # "open" /\ DropBody)

Spec == Init /\ [][Next]_vars /\ Fairness

-----------------------------------------------------------------------------
(* What the reader gets of a body whose length, if it has one, is its       *)
(* framing: a prefix in order, taken for whole only when the origin ended   *)
(* it and all of it has come through. Of a body that disagrees with its     *)
(* Content-Length actix passes on as much as that says.                     *)
T == INSTANCE Transfer WITH
       got <- IF Agrees THEN got ELSE <<>>,
       sink <- IF Agrees THEN sink ELSE "open"
ImplementsTransfer == T!Spec

(* Only a whole body is stored: all the origin sent, or as much as its      *)
(* Content-Length says, within the limit. A body that failed, went idle,    *)
(* ended short or was left by its client never is, even when its stream is  *)
(* polled after its failure.                                                *)
StoredWhole ==
  copy = "stored" =>
    /\ End(buffer) <= Limit
    /\ buffer = SubSeq(sent, 1, Len(buffer))
    /\ IF length = NoLength \/ reader = "refresh"
       THEN source = "ended" /\ buffer = sent
       ELSE End(buffer) = length

(* A client that has the whole body leaves no copy unfinished, and with it  *)
(* no flight: the copy is stored already, though actix may never poll the   *)
(* stream to its end, unless the body is larger than the limit. (A body     *)
(* that disagrees with its length may leave its copy until it is dropped.)  *)
SettledWhenWhole ==
  sink = "whole" /\ Agrees =>
    /\ copy # "open"
    /\ copy = "dropped" => End(got) > Limit

(* The origin is charged with its own silence only: when a body is given up *)
(* as idle, the origin has sent nothing for the whole deadline, the client  *)
(* has been ready for as long, and nothing is left unread.                  *)
IdleIsTheOrigins ==
  [][~expired /\ expired' =>
       quiet = Idle /\ patience = Idle /\ ~Unread /\ source = "open"]_vars

(* A body whose client goes on reading comes to an end, and its copy is     *)
(* stored or given up, however the origin behaves.                          *)
BodySettles == <>(sink # "open" /\ copy # "open")

-----------------------------------------------------------------------------
(* The parts of the inductive invariant from which BodyStreamProof shows    *)
(* StoredWhole, SettledWhenWhole, IdleIsTheOrigins and ImplementsTransfer.  *)

(* The chunks follow one another, and a framed body ends where its length   *)
(* says.                                                                    *)
Arriving ==
  /\ \A i \in 1 .. Len(sent) :
       sent[i].from = IF i = 1 THEN 0 ELSE sent[i - 1].to
  /\ \A i, j \in 1 .. Len(sent) : i < j => sent[i].to <= sent[j].from
  /\ framed => /\ length # NoLength /\ End(sent) <= length
               /\ source = "ended" <=> End(sent) = length

(* The reader has a prefix, the copy is one too, and both are counted       *)
(* right; an open copy is all that the reader has, and not yet whole.       *)
Copying ==
  /\ got = SubSeq(sent, 1, Len(got)) /\ taken = End(got)
  /\ Len(buffer) <= Len(got)
  /\ buffer = SubSeq(sent, 1, Len(buffer)) /\ held = End(buffer)
  /\ copy = "open" => buffer = got /\ held <= Limit
  /\ copy = "open" /\ reader = "client" => length # held

(* What the copy and the idle flag say of a body that is still being read,  *)
(* and of one that is not. A refresh is always ready for more.              *)
Settling ==
  /\ reader = "refresh" => ready
  /\ reader = "refresh" /\ sink = "open" => copy = "open"
  /\ reader = "client" /\ sink = "open" /\ copy = "dropped" => End(got) > Limit
  /\ sink = "broken" => copy # "open"
  /\ expired => sink # "open"

(* While IdleTimeout waits, the ticks that its deadline has run have passed *)
(* without a chunk and with the client ready.                               *)
Waiting ==
  waiting => /\ ready
             /\ patience + timer >= Idle
             /\ Inner = "pending" => quiet + timer >= Idle

IInv ==
  /\ TypeOK /\ Arriving /\ Copying /\ Settling /\ Waiting
  /\ StoredWhole /\ SettledWhenWhole
=============================================================================
