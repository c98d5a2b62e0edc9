------------------------------ MODULE Transfer ------------------------------
(***************************************************************************)
(* What a proxy promises of a body it passes on: the receiver gets a prefix *)
(* of what the source sent, in order, and takes the body for whole only if *)
(* the source ended it properly and every chunk has come through. A        *)
(* transfer may be broken off at any time, and the receiver can tell.      *)
(*                                                                         *)
(* RequestBody (client to origin) and BodyStream (origin to client)        *)
(* implement this specification.                                           *)
(***************************************************************************)
EXTENDS Sequences, Naturals

CONSTANT Chunk          \* what a body is made of

VARIABLES
  sent,                 \* the chunks the source has sent
  source,               \* "open", or how the source closed the body
  got,                  \* the chunks the receiver has
  sink                  \* "open", or what the receiver takes the body for

vars == <<sent, source, got, sink>>

TypeOK ==
  /\ sent \in Seq(Chunk) /\ got \in Seq(Chunk)
  /\ source \in {"open", "ended", "failed"}
  /\ sink \in {"open", "whole", "broken"}

Init ==
  /\ sent = <<>> /\ got = <<>>
  /\ source \in {"open", "ended"}
  /\ sink = "open"

(* The source sends a chunk; a body of known length ends with its last one. *)
Produce ==
  /\ source = "open"
  /\ \E c \in Chunk : sent' = Append(sent, c)
  /\ source' \in {"open", "ended"}
  /\ UNCHANGED <<got, sink>>

Close ==
  /\ source = "open"
  /\ source' \in {"ended", "failed"}
  /\ UNCHANGED <<sent, got, sink>>

Deliver ==
  /\ sink = "open"
  /\ Len(got) < Len(sent)
  /\ got' = Append(got, sent[Len(got) + 1])
  /\ UNCHANGED <<sent, source, sink>>

Complete ==
  /\ sink = "open"
  /\ source = "ended" /\ got = sent
  /\ sink' = "whole"
  /\ UNCHANGED <<sent, source, got>>

BreakOff ==
  /\ sink = "open"
  /\ sink' = "broken"
  /\ UNCHANGED <<sent, source, got>>

Next == Produce \/ Close \/ Deliver \/ Complete \/ BreakOff

Spec == Init /\ [][Next]_vars
=============================================================================
