--------------------------- MODULE BodyStreamProof ---------------------------
(***************************************************************************)
(* Proofs about BodyStream for any bodies, lengths, limits and deadlines.  *)
(*                                                                         *)
(* StoredWhole and SettledWhenWhole are not inductive: they say nothing of *)
(* a copy that is still open, and a state whose open copy has missed a     *)
(* chunk satisfies both.  IInv adds that the chunks lie end to end         *)
(* (Arriving), that an open copy is what the reader has and is counted     *)
(* right (Copying), what a copy given up early and the idle flag mean      *)
(* (Settling), and what the deadline has measured (Waiting).               *)
(***************************************************************************)
EXTENDS BodyStream, TLAPS

USE SizesAssumption

(* What has been taken of a body stays the same when more of it arrives.   *)
LEMMA PrefixStays ==
    ASSUME NEW S, NEW s \in Seq(S), NEW c \in S, NEW p \in Seq(S),
           Len(p) <= Len(s), p = SubSeq(s, 1, Len(p))
    PROVE  p = SubSeq(Append(s, c), 1, Len(p))
  OBVIOUS

(* A prefix and the next chunk are a prefix.                               *)
LEMMA PrefixGrows ==
    ASSUME NEW S, NEW s \in Seq(S), NEW p \in Seq(S),
           Len(p) < Len(s), p = SubSeq(s, 1, Len(p))
    PROVE  LET q == Append(p, s[Len(p) + 1])
           IN  q \in Seq(S) /\ Len(q) = Len(p) + 1 /\ q = SubSeq(s, 1, Len(q))
  OBVIOUS

(* A chunk is not empty.                                                   *)
LEMMA ChunkBytes ==
    ASSUME NEW c \in Chunk
    PROVE  c.from \in Nat /\ c.to \in Nat /\ c.from < c.to
  BY DEF Chunk

(* The last of a sequence's elements is the one appended to it.            *)
LEMMA AppendLast ==
    ASSUME NEW S, NEW s \in Seq(S), NEW c \in S
    PROVE  Append(s, c) # <<>> /\ Append(s, c)[Len(Append(s, c))] = c
  OBVIOUS

(* The chunk after a prefix starts where the prefix ends.                  *)
LEMMA NextStarts ==
    ASSUME TypeOK, Arriving, NEW p \in Seq(Chunk),
           Len(p) < Len(sent), p = SubSeq(sent, 1, Len(p))
    PROVE  /\ sent[Len(p) + 1] \in Chunk
           /\ sent[Len(p) + 1].from = End(p)
           /\ End(Append(p, sent[Len(p) + 1])) = sent[Len(p) + 1].to
           /\ End(p) + Bytes(sent[Len(p) + 1]) = sent[Len(p) + 1].to
           /\ End(p) \in Nat /\ sent[Len(p) + 1].to \in Nat
<1>1. sent[Len(p) + 1] \in Chunk
  BY DEF TypeOK
<1>2. sent[Len(p) + 1].from = End(p)
  <2>1. CASE p = <<>>
    BY <2>1 DEF Arriving, End, TypeOK
  <2>2. CASE p # <<>>
    <3>1. Len(p) \in 1 .. Len(sent) /\ p[Len(p)] = sent[Len(p)]
      BY <2>2 DEF TypeOK
    <3> QED BY <2>2, <3>1 DEF Arriving, End, TypeOK
  <2> QED BY <2>1, <2>2
<1>3. Append(p, sent[Len(p) + 1]) # <<>>
      /\ Append(p, sent[Len(p) + 1])[Len(Append(p, sent[Len(p) + 1]))]
          = sent[Len(p) + 1]
  BY <1>1, AppendLast
<1>4. sent[Len(p) + 1].from \in Nat /\ sent[Len(p) + 1].to \in Nat
  BY <1>1, ChunkBytes
<1> QED BY <1>1, <1>2, <1>3, <1>4 DEF End, Bytes

(* A prefix ends where the body does only if it is all of it.              *)
LEMMA EndIsLast ==
    ASSUME TypeOK, Arriving, NEW p \in Seq(Chunk),
           Len(p) <= Len(sent), p = SubSeq(sent, 1, Len(p))
    PROVE  /\ End(p) \in Nat /\ End(sent) \in Nat /\ End(p) <= End(sent)
           /\ End(p) = End(sent) => p = sent
<1>1. CASE Len(p) = Len(sent)
  <2>1. p = sent
    BY <1>1 DEF TypeOK
  <2>2. End(sent) \in Nat
    BY DEF TypeOK, End, Chunk
  <2> QED BY <2>1, <2>2
<1>2. CASE Len(p) < Len(sent)
  <2>1. /\ sent[Len(p) + 1] \in Chunk /\ sent[Len(p) + 1].from = End(p)
        /\ End(p) \in Nat
    BY <1>2, NextStarts
  <2>2. sent # <<>> /\ sent[Len(sent)] \in Chunk /\ End(sent) = sent[Len(sent)].to
    BY <1>2 DEF TypeOK, End
  <2>3. End(p) <= sent[Len(sent)].from
    <3>1. CASE Len(p) + 1 = Len(sent)
      BY <2>1, <3>1 DEF TypeOK
    <3>2. CASE Len(p) + 1 < Len(sent)
      <4>1. sent[Len(p) + 1].to <= sent[Len(sent)].from
        <5>1. Len(p) + 1 \in 1 .. Len(sent) /\ Len(sent) \in 1 .. Len(sent)
          BY <3>2 DEF TypeOK
        <5> QED BY <3>2, <5>1 DEF Arriving
      <4> QED BY <2>1, <2>2, <4>1, ChunkBytes
    <3> QED BY <1>2, <3>1, <3>2 DEF TypeOK
  <2> QED BY <2>1, <2>2, <2>3, ChunkBytes
<1> QED BY <1>1, <1>2 DEF TypeOK

(* Every chunk that has arrived ends no later than the body does.          *)
LEMMA EndBounds ==
    ASSUME TypeOK, Arriving, NEW i \in 1 .. Len(sent)
    PROVE  sent[i].to \in Nat /\ End(sent) \in Nat /\ sent[i].to <= End(sent)
<1>1. /\ sent # <<>> /\ End(sent) = sent[Len(sent)].to /\ sent[i] \in Chunk
      /\ sent[Len(sent)] \in Chunk /\ Len(sent) \in 1 .. Len(sent)
  BY DEF TypeOK, End
<1>2. i < Len(sent) => sent[i].to <= sent[Len(sent)].from
  BY <1>1 DEF Arriving
<1> QED BY <1>1, <1>2, ChunkBytes DEF TypeOK

(* The handler starts with nothing read, and an empty body already stored. *)
LEMMA InitIInv == Init => IInv
<1> SUFFICES ASSUME Init PROVE IInv
  OBVIOUS
<1>1. End(<<>>) = 0
  BY DEF End
<1>2. TypeOK
  <2>1. framed \in BOOLEAN
    BY Zenon DEF Init
  <2>2. copy \in {"none", "open", "stored", "dropped"}
    BY DEF Init, InitialCopy
  <2>3. length \in Lengths \cup {NoLength} /\ reader \in {"client", "refresh"}
        /\ source \in {"open", "ended", "failed"}
    BY DEF Init
  <2>4. /\ sent = <<>> /\ got = <<>> /\ buffer = <<>> /\ taken = 0 /\ held = 0
        /\ sink = "open" /\ ready = TRUE /\ body = "live"
        /\ waiting = FALSE /\ expired = FALSE /\ timer = Idle
        /\ quiet = 0 /\ patience = 0
    BY DEF Init
  <2>5. {framed, ready, waiting, expired} \subseteq BOOLEAN
    BY <2>1, <2>4, Zenon
  <2> QED BY <2>2, <2>3, <2>4, <2>5 DEF TypeOK
<1>3. Arriving
  <2>1. sent = <<>> /\ End(sent) = 0 /\ Len(sent) = 0
    BY <1>1 DEF Init
  <2>2. framed => length \in Nat /\ length # NoLength
    BY DEF Init
  <2>3. framed => (source = "ended" <=> 0 = length)
    BY DEF Init
  <2> QED BY <2>1, <2>2, <2>3 DEF Arriving
<1>4. Copying
  <2>1. sent = <<>> /\ got = <<>> /\ buffer = <<>> /\ taken = 0 /\ held = 0
    BY DEF Init
  <2>2. SubSeq(<<>>, 1, 0) = <<>> /\ Len(<<>>) = 0
    OBVIOUS
  <2>3. copy = "open" /\ reader = "client" => length # 0
    BY DEF Init, InitialCopy
  <2> QED BY <1>1, <2>1, <2>2, <2>3 DEF Copying
<1>5. Settling /\ Waiting /\ SettledWhenWhole
  BY DEF Init, Settling, Waiting, SettledWhenWhole, InitialCopy
<1>6. StoredWhole
  BY <1>1 DEF Init, StoredWhole, InitialCopy
<1> QED BY <1>2, <1>3, <1>4, <1>5, <1>6 DEF IInv

(* A chunk from the origin follows the last, and makes the body pollable.  *)
LEMMA OriginSendsIInv ==
    ASSUME IInv, OriginSends
    PROVE  IInv'
<1> USE DEF IInv
<1>0. PICK c \in Chunk :
        /\ c.from = End(sent)
        /\ framed => c.to <= length
        /\ sent' = Append(sent, c)
        /\ source' = IF framed /\ c.to = length THEN "ended" ELSE "open"
  BY DEF OriginSends
<1>1. /\ source = "open" /\ quiet' = 0
      /\ UNCHANGED <<length, framed, reader, got, taken, sink, ready, body,
                     waiting, expired, timer, copy, buffer, held, patience>>
  BY DEF OriginSends, readerVars, idleVars, copyVars
<1>2. sent \in Seq(Chunk) /\ got \in Seq(Chunk) /\ buffer \in Seq(Chunk)
      /\ Len(got) <= Len(sent)
  BY DEF TypeOK
<1>3. sent' \in Seq(Chunk) /\ Len(sent') = Len(sent) + 1 /\ sent'[Len(sent) + 1] = c
      /\ \A i \in 1 .. Len(sent) : sent'[i] = sent[i]
  BY <1>0, <1>2
<1>4. End(sent)' = c.to /\ c.to \in Nat /\ c.from \in Nat /\ c.from < c.to
  BY <1>0, <1>2, AppendLast, ChunkBytes DEF End
<1>5. TypeOK'
  BY <1>0, <1>1, <1>3 DEF TypeOK
<1>6. Arriving'
  <2>1. \A i \in 1 .. Len(sent') :
          sent'[i].from = IF i = 1 THEN 0 ELSE sent'[i - 1].to
    <3> SUFFICES ASSUME NEW i \in 1 .. Len(sent')
                 PROVE  sent'[i].from = IF i = 1 THEN 0 ELSE sent'[i - 1].to
      OBVIOUS
    <3>1. CASE i = Len(sent) + 1
      <4>1. sent'[i].from = End(sent)
        BY <1>0, <1>3, <3>1
      <4>2. CASE sent = <<>>
        BY <3>1, <4>1, <4>2 DEF End
      <4>3. CASE sent # <<>>
        <5>1. Len(sent) \in 1 .. Len(sent) /\ i # 1 /\ i - 1 = Len(sent)
          BY <1>2, <3>1, <4>3
        <5> QED BY <1>3, <4>1, <4>3, <5>1 DEF End
      <4> QED BY <4>2, <4>3
    <3>2. CASE i # Len(sent) + 1
      <4>1. i \in 1 .. Len(sent) /\ (i # 1 => i - 1 \in 1 .. Len(sent))
        BY <1>2, <1>3, <3>2
      <4>2. sent[i].from = IF i = 1 THEN 0 ELSE sent[i - 1].to
        BY <4>1 DEF Arriving
      <4> QED BY <1>3, <4>1, <4>2
    <3> QED BY <3>1, <3>2
  <2>2. ASSUME NEW i \in 1 .. Len(sent'), NEW j \in 1 .. Len(sent'), i < j
        PROVE  sent'[i].to <= sent'[j].from
    <3>1. CASE j = Len(sent) + 1
      <4>1. i \in 1 .. Len(sent)
        BY <1>2, <1>3, <2>2, <3>1
      <4>2. sent[i].to <= End(sent)
        BY <4>1, EndBounds
      <4> QED BY <1>0, <1>3, <3>1, <4>1, <4>2
    <3>2. CASE j # Len(sent) + 1
      <4>1. i \in 1 .. Len(sent) /\ j \in 1 .. Len(sent)
        BY <1>2, <1>3, <2>2, <3>2
      <4>2. sent[i].to <= sent[j].from
        BY <2>2, <4>1 DEF Arriving
      <4> QED BY <1>3, <4>1, <4>2
    <3> QED BY <3>1, <3>2
  <2>3. framed' => /\ length' # NoLength /\ End(sent)' <= length'
                   /\ source' = "ended" <=> End(sent)' = length'
    <3>1. framed => length # NoLength /\ c.to <= length
      BY <1>0 DEF Arriving
    <3>2. framed => (source' = "ended" <=> c.to = length)
      BY <1>0
    <3> QED BY <1>1, <1>4, <3>1, <3>2
  <2> QED BY <2>1, <2>2, <2>3 DEF Arriving
<1>7. got = SubSeq(sent', 1, Len(got)) /\ buffer = SubSeq(sent', 1, Len(buffer))
  BY <1>0, <1>2, PrefixStays DEF Copying
<1>8. Copying'
  BY <1>1, <1>7 DEF Copying, End
<1>9. Settling' /\ SettledWhenWhole'
  BY <1>1 DEF Settling, SettledWhenWhole, End, Agrees
<1>10. StoredWhole'
  BY <1>1, <1>7 DEF StoredWhole, End
<1>11. Waiting'
  BY <1>1, <1>2, <1>3 DEF Waiting, Inner, Unread
<1> QED BY <1>5, <1>6, <1>8, <1>9, <1>10, <1>11

(* The end of the origin's body ends the wait for it.                      *)
LEMMA OriginClosesIInv ==
    ASSUME IInv, OriginCloses
    PROVE  IInv'
<1> USE DEF IInv
<1>1. /\ source = "open" /\ quiet' = 0 /\ source' \in {"ended", "failed"}
      /\ framed => source' = "failed"
      /\ UNCHANGED <<length, framed, sent, reader, got, taken, sink, ready, body,
                     waiting, expired, timer, copy, buffer, held, patience>>
  BY DEF OriginCloses, readerVars, idleVars, copyVars
<1>2. TypeOK'
  BY <1>1 DEF TypeOK
<1>3. Arriving'
  BY <1>1 DEF Arriving, End
<1>4. Copying' /\ Settling' /\ SettledWhenWhole'
  BY <1>1 DEF Copying, Settling, SettledWhenWhole, End, Agrees
<1>5. StoredWhole'
  BY <1>1 DEF StoredWhole, End
<1>6. Waiting'
  BY <1>1 DEF Waiting, Inner, Unread
<1> QED BY <1>2, <1>3, <1>4, <1>5, <1>6

(* A tick of the deadline is a tick of silence and of patience.            *)
LEMMA TickIInv ==
    ASSUME IInv, Tick
    PROVE  IInv'
<1> USE DEF IInv
<1>1. UNCHANGED <<length, framed, sent, source, reader, got, taken, sink, ready,
                  body, waiting, expired, copy, buffer, held>>
  BY DEF Tick, originVars, readerVars, copyVars
<1>2. TypeOK'
  BY <1>1 DEF TypeOK, Tick
<1>3. Arriving' /\ Copying' /\ Settling' /\ SettledWhenWhole' /\ StoredWhole'
  BY <1>1 DEF Arriving, Copying, Settling, SettledWhenWhole, StoredWhole, End,
              Agrees
<1>4. Waiting'
  BY <1>1 DEF Waiting, Inner, Unread, Tick, TypeOK
<1> QED BY <1>2, <1>3, <1>4

(* A client that takes data again does so before the next poll.            *)
LEMMA ClientTakesIInv ==
    ASSUME IInv, ClientTakes
    PROVE  IInv'
<1> USE DEF IInv
<1>1. /\ ~ready /\ ready' = TRUE /\ patience' = 0
      /\ UNCHANGED <<length, framed, sent, source, reader, got, taken, sink, body,
                     waiting, expired, timer, copy, buffer, held, quiet>>
  BY DEF ClientTakes, originVars, idleVars, copyVars
<1>2. TypeOK'
  BY <1>1 DEF TypeOK
<1>3. Arriving' /\ Copying' /\ Settling' /\ SettledWhenWhole' /\ StoredWhole'
  BY <1>1 DEF Arriving, Copying, Settling, SettledWhenWhole, StoredWhole, End,
              Agrees
<1>4. Waiting'
  BY <1>1 DEF Waiting
<1> QED BY <1>2, <1>3, <1>4

(* A dropped stream drops a copy that is still open, and only of a body    *)
(* that is not whole.                                                      *)
LEMMA DropBodyIInv ==
    ASSUME IInv, DropBody
    PROVE  IInv'
<1> USE DEF IInv
<1>1. /\ body' = "gone" /\ copy' = Released
      /\ sink' = IF sink = "open" THEN "broken" ELSE sink
      /\ UNCHANGED <<length, framed, sent, source, reader, got, taken, ready,
                     waiting, expired, timer, buffer, held, quiet, patience>>
  BY DEF DropBody, originVars, idleVars, history
<1>2. copy' # "open" /\ (copy' = "stored" <=> copy = "stored")
  BY <1>1 DEF Released
<1>3. TypeOK'
  BY <1>1 DEF TypeOK, Released
<1>4. Arriving' /\ Copying' /\ Waiting'
  BY <1>1, <1>2 DEF Arriving, Copying, Waiting, Inner, Unread, End
<1>5. Settling' /\ StoredWhole'
  BY <1>1, <1>2 DEF Settling, StoredWhole, End
<1>6. SettledWhenWhole'
  BY <1>1, <1>2 DEF SettledWhenWhole, Released, Agrees, End
<1> QED BY <1>3, <1>4, <1>5, <1>6

(* A framed body of which the reader has counted its length has arrived    *)
(* whole.                                                                  *)
LEMMA CountedIsWhole ==
    ASSUME IInv, framed, taken >= length
    PROVE  /\ source = "ended" /\ got = sent /\ taken = length
<1>1. /\ End(got) \in Nat /\ End(sent) \in Nat /\ End(got) <= End(sent)
      /\ End(got) = End(sent) => got = sent
  BY EndIsLast DEF IInv, TypeOK, Copying
<1>2. /\ length \in Nat /\ End(sent) <= length
      /\ source = "ended" <=> End(sent) = length
  BY DEF IInv, Arriving, TypeOK
<1>3. taken = End(got)
  BY DEF IInv, Copying
<1> QED BY <1>1, <1>2, <1>3

(* actix stops at the length of a sized body, whose copy is stored by then *)
(* or past the limit.                                                      *)
LEMMA SizedDoneIInv ==
    ASSUME IInv, SizedDone
    PROVE  IInv'
<1> USE DEF IInv
<1>1. /\ reader = "client" /\ sink = "open" /\ sink' = "whole"
      /\ length # NoLength /\ taken >= length
      /\ UNCHANGED <<length, framed, sent, source, reader, got, taken, ready, body,
                     waiting, expired, timer, copy, buffer, held, quiet, patience>>
  BY DEF SizedDone, Enough, originVars, idleVars, copyVars, history
<1>2. TypeOK'
  BY <1>1 DEF TypeOK
<1>3. Arriving' /\ Copying' /\ Waiting' /\ StoredWhole'
  BY <1>1 DEF Arriving, Copying, Waiting, Inner, Unread, End, StoredWhole
<1>4. Settling'
  BY <1>1 DEF Settling
<1>5. SettledWhenWhole'
  <2> SUFFICES ASSUME framed PROVE SettledWhenWhole'
    BY <1>1 DEF SettledWhenWhole, Agrees
  <2>1. copy # "open"
    BY <1>1, CountedIsWhole DEF Copying
  <2> QED BY <1>1, <2>1 DEF SettledWhenWhole, Settling, End
<1> QED BY <1>2, <1>3, <1>4, <1>5

(* A stream that has failed has no copy left to finish.                    *)
LEMMA PollAgainIInv ==
    ASSUME IInv, PollAgain
    PROVE  IInv'
<1>1. UNCHANGED vars
  BY DEF PollAgain, TeeCopy, IInv, Settling, vars
<1> QED BY <1>1 DEF vars, originVars, readerVars, idleVars, copyVars, history,
           IInv, TypeOK, Arriving, Copying, Settling, Waiting, StoredWhole,
           SettledWhenWhole, Inner, Unread, End, Agrees

(* What IdleTimeout passes on of a body that has not gone idle.            *)
LEMMA ItemIs ==
    ASSUME IInv, ~expired
    PROVE  /\ Item \in {"chunk", "end", "error", "idle", "pending"}
           /\ Item = "chunk" => Unread
           /\ Item # "chunk" => ~Unread
           /\ Item = "end" => source = "ended" /\ got = sent
           /\ Item \in {"idle", "pending"} => Inner = "pending" /\ source = "open"
           /\ Item = "idle" => Deadline = 0
<1>1. ~Unread => got = sent
  BY DEF Unread, IInv, TypeOK, Copying
<1>2. source \in {"open", "ended", "failed"}
  BY DEF IInv, TypeOK
<1> QED BY <1>1, <1>2 DEF Item, Inner

(* The flags of IdleTimeout after a poll.                                  *)
LEMMA PollFlags ==
    ASSUME NEW item, TypeOK, ~expired, PollIdle(item)
    PROVE  /\ expired' \in BOOLEAN /\ waiting' \in BOOLEAN
           /\ expired' <=> item = "idle"
           /\ waiting' <=> item \in {"pending", "idle"}
<1>0. expired = FALSE
  BY DEF TypeOK
<1>1. CASE item = "idle"
  BY <1>1 DEF PollIdle
<1>2. CASE item = "pending"
  BY <1>2 DEF PollIdle
<1>3. CASE item \notin {"pending", "idle"}
  <2>1. expired' = FALSE
    BY <1>0, <1>3 DEF PollIdle
  <2>2. waiting' = FALSE
    <3>1. waiting' = (item \in {"pending", "idle"})
      BY <1>0 DEF PollIdle
    <3>2. (item \in {"pending", "idle"}) = FALSE
      BY <1>3
    <3> QED BY <3>1, <3>2
  <2> QED BY <1>3, <2>1, <2>2
<1> QED BY <1>1, <1>2, <1>3

(* A poll keeps what the deadline has measured: it restarts only after a   *)
(* chunk, and the client is ready when it does.                            *)
LEMMA PollWaiting ==
    ASSUME IInv, ~expired, ready, PollIdle(Item),
           Item # "chunk" => UNCHANGED <<got, ready>>,
           UNCHANGED <<sent, source, quiet, patience>>
    PROVE  Waiting' /\ timer' \in 0 .. Idle
<1>1. waiting' => Item \in {"idle", "pending"}
  BY DEF PollIdle
<1>2. waiting' => got' = got /\ ready' /\ Inner = "pending"
  BY <1>1, ItemIs
<1>3. timer' = Deadline /\ Deadline \in 0 .. Idle
  BY DEF PollIdle, Deadline, IInv, TypeOK
<1>4. /\ patience + Deadline >= Idle
      /\ Inner = "pending" => quiet + Deadline >= Idle
  BY DEF Deadline, IInv, Waiting, TypeOK
<1> QED BY <1>2, <1>3, <1>4 DEF Waiting

(* A chunk that the reader takes extends its prefix, and its count with it. *)
LEMMA TakeOne ==
    ASSUME IInv, Unread
    PROVE  LET more == Append(got, NextChunk)
           IN  /\ more \in Seq(Chunk) /\ Len(more) = Len(got) + 1
               /\ Len(more) <= Len(sent) /\ more = SubSeq(sent, 1, Len(more))
               /\ End(more) = taken + Bytes(NextChunk)
               /\ End(more) \in Nat /\ End(more) > End(got) /\ End(got) \in Nat
<1>1. /\ got \in Seq(Chunk) /\ sent \in Seq(Chunk) /\ Len(got) < Len(sent)
      /\ got = SubSeq(sent, 1, Len(got)) /\ taken = End(got)
  BY DEF IInv, TypeOK, Copying, Unread
<1>2. /\ NextChunk \in Chunk /\ NextChunk.from = End(got)
      /\ End(Append(got, NextChunk)) = NextChunk.to
      /\ End(got) + Bytes(NextChunk) = NextChunk.to
      /\ End(got) \in Nat /\ NextChunk.to \in Nat
  BY <1>1, NextStarts DEF NextChunk, IInv
<1>3. LET q == Append(got, NextChunk)
      IN  q \in Seq(Chunk) /\ Len(q) = Len(got) + 1 /\ q = SubSeq(sent, 1, Len(q))
  BY <1>1, PrefixGrows DEF NextChunk
<1>4. Len(got) \in Nat /\ Len(sent) \in Nat
  BY <1>1
<1> QED BY <1>1, <1>2, <1>3, <1>4, ChunkBytes

(* What a poll leaves alone, and that it leaves the arrival alone with it. *)
LEMMA PollLeaves ==
    ASSUME IInv, UNCHANGED originVars
    PROVE  Arriving'
  BY DEF IInv, Arriving, originVars, End

(* A chunk on its way to the client.                                       *)
LEMMA ClientChunkIInv ==
    ASSUME IInv, ClientPoll, Item = "chunk"
    PROVE  IInv'
<1> USE DEF IInv
<1>1. /\ reader = "client" /\ ready /\ sink = "open" /\ ~expired
      /\ Take /\ ready' \in BOOLEAN /\ TeeCopy("chunk") /\ PollIdle(Item)
      /\ UNCHANGED <<length, framed, sent, source, reader, body, sink, quiet,
                     patience>>
  BY DEF ClientPoll, Settling, originVars, history
<1>2. Unread
  BY <1>1, ItemIs
<1>3. /\ got' \in Seq(Chunk) /\ Len(got') = Len(got) + 1
      /\ Len(got') <= Len(sent) /\ got' = SubSeq(sent, 1, Len(got'))
      /\ End(got') = taken' /\ taken' = taken + Bytes(NextChunk)
      /\ taken' \in Nat /\ taken' > taken /\ taken \in Nat /\ taken = End(got)
  BY <1>1, <1>2, TakeOne DEF Take, Copying
<1>4. Waiting' /\ timer' \in 0 .. Idle
  BY <1>1, PollWaiting
<1>5. expired' = FALSE /\ waiting' \in BOOLEAN
  BY <1>1, PollFlags
<1>6. TypeOK' /\ Copying' /\ Settling' /\ StoredWhole' /\ SettledWhenWhole'
  <2>0. ASSUME copy' \in {"none", "open", "stored", "dropped"},
               buffer' \in Seq(Chunk), held' \in Nat
        PROVE  TypeOK'
    BY <1>1, <1>3, <1>4, <1>5, <2>0 DEF TypeOK
  <2>1. CASE copy # "open"
    <3>1. UNCHANGED <<copy, buffer, held>>
      BY <1>1, <2>1 DEF TeeCopy, copyVars
    <3>2. TypeOK'
      BY <2>0, <3>1 DEF TypeOK
    <3>3. Copying' /\ StoredWhole'
      BY <1>1, <1>3, <2>1, <3>1 DEF Copying, StoredWhole, End, TypeOK
    <3>4. Settling' /\ SettledWhenWhole'
      BY <1>1, <1>3, <1>5, <2>1, <3>1 DEF Settling, SettledWhenWhole
    <3> QED BY <3>2, <3>3, <3>4
  <2>2. CASE copy = "open" /\ held + Bytes(NextChunk) > Limit
    <3>1. copy' = "dropped" /\ UNCHANGED <<buffer, held>>
      BY <1>1, <2>2 DEF TeeCopy
    <3>2. TypeOK'
      BY <2>0, <3>1 DEF TypeOK
    <3>3. Copying' /\ StoredWhole'
      BY <1>1, <1>3, <3>1 DEF Copying, StoredWhole, End, TypeOK
    <3>4. End(got') > Limit
      BY <1>3, <2>2 DEF Copying
    <3>5. Settling' /\ SettledWhenWhole'
      BY <1>1, <1>5, <3>1, <3>4 DEF Settling, SettledWhenWhole, End
    <3> QED BY <3>2, <3>3, <3>5
  <2>3. CASE copy = "open" /\ ~(held + Bytes(NextChunk) > Limit)
    <3>1. /\ buffer' = got' /\ held' = taken' /\ taken' <= Limit
          /\ copy' = IF length = held' THEN "stored" ELSE "open"
      BY <1>1, <1>3, <2>3 DEF TeeCopy, Extend, Take, Copying
    <3>2. TypeOK'
      BY <1>3, <2>0, <3>1
    <3>3. Copying'
      BY <1>1, <1>3, <3>1 DEF Copying, End
    <3>4. StoredWhole'
      BY <1>1, <1>3, <3>1 DEF StoredWhole, End
    <3>5. Settling' /\ SettledWhenWhole'
      BY <1>1, <1>5, <3>1 DEF Settling, SettledWhenWhole
    <3> QED BY <3>2, <3>3, <3>4, <3>5
  <2> QED BY <2>1, <2>2, <2>3
<1>7. Arriving'
  BY <1>1, PollLeaves DEF originVars
<1> QED BY <1>4, <1>6, <1>7

(* A poll of the client's stream that carries no chunk: the end finishes   *)
(* the copy, a failure or an idle origin drops it.                         *)
LEMMA ClientItemIInv ==
    ASSUME IInv, ClientPoll, Item # "chunk"
    PROVE  IInv'
<1> USE DEF IInv
<1>1. /\ reader = "client" /\ ready /\ sink = "open" /\ ~expired
      /\ TeeCopy(Item) /\ PollIdle(Item)
      /\ sink' = CASE Item = "pending" -> "open"
                   [] Item = "end" -> IF Enough THEN "whole" ELSE "broken"
                   [] OTHER -> "broken"
      /\ UNCHANGED <<length, framed, sent, source, reader, got, taken, ready, body,
                     quiet, patience>>
  BY DEF ClientPoll, Settling, originVars, history
<1>2. Waiting' /\ timer' \in 0 .. Idle
  BY <1>1, PollWaiting
<1>3. /\ expired' \in BOOLEAN /\ waiting' \in BOOLEAN
      /\ expired' <=> Item = "idle"
  BY <1>1, PollFlags
<1>4. Arriving'
  BY <1>1, PollLeaves DEF originVars
<1>5. buffer' = buffer /\ held' = held
  BY <1>1 DEF TeeCopy, copyVars
<1>6. CASE Item = "pending"
  <2>1. sink' = "open" /\ copy' = copy
    BY <1>1, <1>6 DEF TeeCopy, copyVars
  <2>2. TypeOK'
    BY <1>1, <1>2, <1>3, <1>5, <2>1 DEF TypeOK
  <2>3. Copying' /\ StoredWhole'
    BY <1>1, <1>5, <2>1 DEF Copying, StoredWhole, End
  <2>4. Settling' /\ SettledWhenWhole'
    BY <1>1, <1>3, <1>6, <2>1 DEF Settling, SettledWhenWhole, End
  <2> QED BY <1>2, <1>4, <2>2, <2>3, <2>4
<1>7. CASE Item = "end"
  <2>1. /\ source = "ended" /\ got = sent
        /\ sink' = IF Enough THEN "whole" ELSE "broken"
        /\ copy' = IF copy = "open" THEN Finish ELSE copy
    BY <1>1, <1>7, ItemIs DEF TeeCopy, copyVars
  <2>2. copy' # "open" /\ copy' \in {"none", "open", "stored", "dropped"}
    BY <2>1 DEF Finish, TypeOK
  <2>3. TypeOK'
    BY <1>1, <1>2, <1>3, <1>5, <2>1, <2>2 DEF TypeOK
  <2>4. Copying'
    BY <1>1, <1>5, <2>2 DEF Copying, End
  <2>5. StoredWhole'
    BY <1>1, <1>5, <2>1 DEF StoredWhole, Copying, Finish, End
  <2>6. Settling'
    BY <1>1, <2>1, <2>2 DEF Settling
  <2>7. SettledWhenWhole'
    <3> SUFFICES ASSUME Agrees, copy' = "dropped" PROVE End(got') > Limit
      BY <1>1, <2>2 DEF SettledWhenWhole, Agrees, End
    <3>1. copy # "open"
      <4> SUFFICES ASSUME copy = "open" PROVE FALSE
        OBVIOUS
      <4>1. length # NoLength /\ length # held
        BY <2>1 DEF Finish
      <4>2. End(sent) = length
        BY <2>1, <4>1 DEF Agrees, Arriving
      <4> QED BY <2>1, <4>1, <4>2 DEF Copying
    <3> QED BY <1>1, <2>1, <3>1 DEF Settling
  <2> QED BY <1>2, <1>4, <2>3, <2>4, <2>5, <2>6, <2>7
<1>8. CASE Item \in {"error", "idle"}
  <2>1. sink' = "broken" /\ copy' = IF copy = "open" THEN "dropped" ELSE copy
    BY <1>1, <1>8 DEF TeeCopy, copyVars
  <2>2. TypeOK'
    BY <1>1, <1>2, <1>3, <1>5, <2>1 DEF TypeOK
  <2>3. Copying' /\ StoredWhole'
    BY <1>1, <1>5, <2>1 DEF Copying, StoredWhole, End
  <2>4. Settling' /\ SettledWhenWhole'
    BY <1>1, <2>1 DEF Settling, SettledWhenWhole
  <2> QED BY <1>2, <1>4, <2>2, <2>3, <2>4
<1> QED BY <1>1, <1>6, <1>7, <1>8, ItemIs

(* A poll of a background refresh, which collects until the end or the     *)
(* limit.                                                                  *)
LEMMA RefreshPollIInv ==
    ASSUME IInv, RefreshPoll
    PROVE  IInv'
<1> USE DEF IInv
<1>1. /\ reader = "refresh" /\ ready /\ sink = "open" /\ ~expired /\ copy = "open"
      /\ CollectCopy(Item) /\ PollIdle(Item)
      /\ IF Item = "chunk" /\ copy' = "open" THEN Take ELSE UNCHANGED <<got, taken>>
      /\ sink' = CASE copy' = "open" -> "open"
                   [] copy' = "stored" -> "whole"
                   [] OTHER -> "broken"
      /\ UNCHANGED <<length, framed, sent, source, reader, ready, body,
                     quiet, patience>>
  BY DEF RefreshPoll, Settling, originVars, history
<1>2. Waiting' /\ timer' \in 0 .. Idle
  BY <1>1, PollWaiting
<1>3. /\ expired' \in BOOLEAN /\ waiting' \in BOOLEAN
      /\ expired' <=> Item = "idle"
  BY <1>1, PollFlags
<1>4. Arriving'
  BY <1>1, PollLeaves DEF originVars
<1>5. buffer = got /\ held = taken /\ held <= Limit
  BY <1>1 DEF Copying
<1>6. CASE Item = "chunk" /\ copy' = "open"
  <2>1. Take /\ Extend /\ ~(held + Bytes(NextChunk) > Limit) /\ sink' = "open"
    BY <1>1, <1>6 DEF CollectCopy
  <2>2. /\ got' \in Seq(Chunk) /\ Len(got') <= Len(sent)
        /\ got' = SubSeq(sent, 1, Len(got')) /\ End(got') = taken'
        /\ taken' = taken + Bytes(NextChunk) /\ taken' \in Nat
    BY <1>1, <1>6, <2>1, ItemIs, TakeOne DEF Take, Copying
  <2>3. buffer' = got' /\ held' = taken' /\ taken' <= Limit
    BY <1>5, <2>1, <2>2 DEF Take, Extend
  <2>4. TypeOK'
    BY <1>1, <1>2, <1>3, <1>6, <2>1, <2>2, <2>3 DEF TypeOK
  <2>5. Copying'
    BY <1>1, <1>6, <2>2, <2>3 DEF Copying, End
  <2>6. Settling' /\ StoredWhole' /\ SettledWhenWhole'
    BY <1>1, <1>3, <1>6, <2>1 DEF Settling, StoredWhole, SettledWhenWhole
  <2> QED BY <1>2, <1>4, <2>4, <2>5, <2>6
<1>7. CASE ~(Item = "chunk" /\ copy' = "open")
  <2>1. UNCHANGED <<got, taken, buffer, held>>
    BY <1>1, <1>7 DEF CollectCopy, copyVars
  <2>2. /\ copy' \in {"open", "stored", "dropped"}
        /\ copy' = "open" => Item = "pending" /\ sink' = "open"
        /\ copy' = "stored" => Item = "end" /\ sink' = "whole"
        /\ copy' = "dropped" => sink' = "broken"
    BY <1>1, <1>7 DEF CollectCopy, copyVars
  <2>3. TypeOK'
    BY <1>1, <1>2, <1>3, <2>1, <2>2 DEF TypeOK
  <2>4. Copying'
    BY <1>1, <2>1 DEF Copying, End
  <2>5. StoredWhole'
    <3> SUFFICES ASSUME copy' = "stored" PROVE StoredWhole'
      BY DEF StoredWhole
    <3>1. source = "ended" /\ got = sent
      BY <1>1, <2>2, ItemIs
    <3> QED BY <1>1, <1>5, <2>1, <3>1 DEF StoredWhole, Copying, End
  <2>6. Settling' /\ SettledWhenWhole'
    BY <1>1, <1>3, <2>2 DEF Settling, SettledWhenWhole
  <2> QED BY <1>2, <1>4, <2>3, <2>4, <2>5, <2>6
<1> QED BY <1>6, <1>7

(* IInv holds in every reachable state of a response body.                 *)
THEOREM Inductive == Spec => []IInv
<1>1. IInv /\ [Next]_vars => IInv'
  <2> SUFFICES ASSUME IInv, [Next]_vars PROVE IInv'
    OBVIOUS
  <2>1. CASE Next
    BY <2>1, OriginSendsIInv, OriginClosesIInv, TickIInv, ClientChunkIInv,
       ClientItemIInv, RefreshPollIInv, PollAgainIInv, SizedDoneIInv,
       ClientTakesIInv, DropBodyIInv DEF Next, Poll
  <2>2. CASE UNCHANGED vars
    BY <2>2 DEF vars, originVars, readerVars, idleVars, copyVars, history,
         IInv, TypeOK, Arriving, Copying, Settling, Waiting, StoredWhole,
         SettledWhenWhole, Inner, Unread, End, Agrees
  <2> QED BY <2>1, <2>2
<1> QED BY InitIInv, <1>1, PTL DEF Spec

(* Only a whole body is stored, by Tee and by a background refresh.        *)
THEOREM OnlyWholeStored == Spec => []StoredWhole
<1>1. IInv => StoredWhole
  BY DEF IInv
<1> QED BY <1>1, Inductive, PTL

(* A client that has the whole body leaves no copy unfinished (Tee).       *)
THEOREM WholeIsSettled == Spec => []SettledWhenWhole
<1>1. IInv => SettledWhenWhole
  BY DEF IInv
<1> QED BY <1>1, Inductive, PTL

(* IdleTimeout gives up only an origin that was silent for the deadline,   *)
(* while the client was ready.                                             *)
THEOREM IdleOrigin == Spec => IdleIsTheOrigins
<1>1. IInv /\ [Next]_vars =>
        (~expired /\ expired' =>
           quiet = Idle /\ patience = Idle /\ ~Unread /\ source = "open")
  <2> SUFFICES ASSUME IInv, [Next]_vars, ~expired, expired'
               PROVE  quiet = Idle /\ patience = Idle /\ ~Unread /\ source = "open"
    OBVIOUS
  <2>1. PollIdle(Item)
    BY DEF Next, Poll, ClientPoll, RefreshPoll, OriginSends, OriginCloses, Tick,
           PollAgain, SizedDone, ClientTakes, DropBody, vars, idleVars
  <2>2. Item = "idle"
    BY <2>1, PollFlags DEF IInv
  <2>3. ~Unread /\ source = "open" /\ Inner = "pending" /\ Deadline = 0
    BY <2>2, ItemIs
  <2>4. waiting /\ timer = 0
    BY <2>3 DEF Deadline
  <2> QED BY <2>3, <2>4 DEF IInv, Waiting, TypeOK
<1> QED BY <1>1, Inductive, PTL DEF Spec, IdleIsTheOrigins

(* A body whose length is its framing is a transfer: every step maps to a  *)
(* step of Transfer or changes nothing of it (origin_body, client_response *)
(* and refresh).                                                           *)
THEOREM Implements == Spec => ImplementsTransfer
<1>1. Init => T!Init
  BY DEF Init, T!Init
<1>2. IInv /\ [Next]_vars => [T!Next]_(T!vars)
  <2> SUFFICES ASSUME IInv, [Next]_vars PROVE [T!Next]_(T!vars)
    OBVIOUS
  <2>1. CASE OriginSends
    BY <2>1 DEF OriginSends, readerVars, Agrees, T!Next, T!Produce
  <2>2. CASE OriginCloses
    BY <2>2 DEF OriginCloses, readerVars, Agrees, T!Next, T!Close
  <2>3. ASSUME Unread, sink = "open", Take, UNCHANGED <<originVars, sink>>
        PROVE  [T!Next]_(T!vars)
    BY <2>3 DEF Unread, Take, NextChunk, originVars, Agrees, T!Next, T!Deliver,
         T!vars
  <2>4. ASSUME sink = "open", sink' \in {"open", "broken"},
               UNCHANGED <<originVars, got>>
        PROVE  [T!Next]_(T!vars)
    BY <2>4 DEF originVars, Agrees, T!Next, T!BreakOff, T!vars
  <2>5. ASSUME sink = "open", sink' = "whole", Agrees => source = "ended" /\ got = sent,
               UNCHANGED <<originVars, got>>
        PROVE  [T!Next]_(T!vars)
    BY <2>5 DEF originVars, Agrees, T!Next, T!Complete, T!vars
  <2>6. CASE ClientPoll
    <3>1. ~expired /\ sink = "open" /\ UNCHANGED originVars
      BY <2>6 DEF ClientPoll, IInv, Settling
    <3>2. CASE Item = "chunk"
      BY <2>3, <2>6, <3>1, <3>2, ItemIs DEF ClientPoll
    <3>3. CASE Item = "end"
      BY <2>4, <2>5, <2>6, <3>1, <3>3, ItemIs DEF ClientPoll
    <3>4. CASE Item \notin {"chunk", "end"}
      BY <2>4, <2>6, <3>1, <3>4 DEF ClientPoll
    <3> QED BY <3>2, <3>3, <3>4
  <2>7. CASE RefreshPoll
    <3>1. ~expired /\ sink = "open" /\ copy = "open" /\ UNCHANGED originVars
      BY <2>7 DEF RefreshPoll, IInv, Settling
    <3>2. CASE Item = "chunk" /\ copy' = "open"
      BY <2>3, <2>7, <3>1, <3>2, ItemIs DEF RefreshPoll
    <3>3. CASE Item = "end"
      BY <2>5, <2>7, <3>1, <3>3, ItemIs DEF RefreshPoll, CollectCopy
    <3>4. CASE Item # "end" /\ ~(Item = "chunk" /\ copy' = "open")
      BY <2>4, <2>7, <3>1, <3>4 DEF RefreshPoll, CollectCopy, copyVars
    <3> QED BY <3>2, <3>3, <3>4
  <2>8. CASE SizedDone
    <3>1. Agrees => source = "ended" /\ got = sent
      BY <2>8, CountedIsWhole DEF SizedDone, Enough, Agrees
    <3> QED BY <2>5, <2>8, <3>1 DEF SizedDone
  <2>9. CASE DropBody
    <3>1. CASE sink = "open"
      BY <2>4, <2>9, <3>1 DEF DropBody
    <3>2. CASE sink # "open"
      BY <2>9, <3>2 DEF DropBody, originVars, Agrees, T!vars
    <3> QED BY <3>1, <3>2
  <2>10. CASE Tick \/ PollAgain \/ ClientTakes \/ UNCHANGED vars
    BY <2>10 DEF Tick, PollAgain, ClientTakes, vars, originVars, readerVars,
         Agrees, T!vars
  <2> QED BY <2>1, <2>2, <2>6, <2>7, <2>8, <2>9, <2>10 DEF Next, Poll
<1> QED BY <1>1, <1>2, Inductive, PTL DEF Spec, ImplementsTransfer, T!Spec
=============================================================================
