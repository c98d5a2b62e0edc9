------------------------------- MODULE Assets -------------------------------
(***************************************************************************)
(* An asset file, the store's copy of it, and requests for it              *)
(* (src/assets.rs, and asset and insert_asset of src/cache.rs). load awaits *)
(* twice, for the file's metadata and for its content, and looks up the    *)
(* stored copy in between; the file may be replaced or removed at any      *)
(* moment, and requests run side by side.                                  *)
(*                                                                         *)
(* A content stands for its SHA-256 too, from which the ETag is made. A    *)
(* file is replaced and read in one step each: writing in place is a       *)
(* sequence of replacements, of which a reader sees one.                   *)
(***************************************************************************)
EXTENDS Naturals

CONSTANTS
  Request,              \* requests for the asset
  MaxVersion,           \* how many contents the file has at most
  Len,                  \* the lengths a content may have
  Time,                 \* modified times
  MaxEntry,             \* the largest asset to store; 0 disables the store
  SameTime,             \* whether two contents may have one modified time
  None                  \* no file, no stored copy, nothing read

ASSUME NumbersAssumption ==
  /\ MaxVersion \in Nat /\ MaxEntry \in Nat
  /\ Len \subseteq Nat /\ Time # {}
ASSUME SameTimeAssumption == SameTime \in BOOLEAN
ASSUME NoneAssumption ==
  /\ None \notin [content : 1 .. MaxVersion, len : Len, modified : Time]
  /\ None \notin [len : Len, modified : Time]

VARIABLES
  file,                 \* the file: its content, length and modified time
  versions,             \* the contents it has had so far
  times,                \* the modified times it has had so far
  stored,               \* the store's copy
  pc,                   \* where each request is
  metadata,             \* the length and time it has seen
  asset,                \* the asset it answers with
  answer,               \* its answer: 0 for a 404, the content otherwise
  since                 \* the newest content when it took the metadata

fileVars == <<file, versions, times>>
requestVars == <<pc, metadata, asset, answer, since>>
vars == <<fileVars, stored, requestVars>>

Asset == [content : 1 .. MaxVersion, len : Len, modified : Time]
Stat == [len : Len, modified : Time]
Maybe(S) == S \cup {None}

TypeOK ==
  /\ file \in Maybe(Asset) /\ stored \in Maybe(Asset)
  /\ versions \in 0 .. MaxVersion /\ times \subseteq Time
  /\ pc \in [Request -> {"resolve", "metadata", "check", "read", "insert", "done"}]
  /\ metadata \in [Request -> Maybe(Stat)] /\ asset \in [Request -> Maybe(Asset)]
  /\ answer \in [Request -> 0 .. MaxVersion] /\ since \in [Request -> 0 .. MaxVersion]

Init ==
  /\ file = None /\ versions = 0 /\ times = {}
  /\ stored = None
  /\ pc = [r \in Request |-> "resolve"]
  /\ metadata = [r \in Request |-> None] /\ asset = [r \in Request |-> None]
  /\ answer = [r \in Request |-> 0] /\ since = [r \in Request |-> 0]

-----------------------------------------------------------------------------
(* Somebody writes or removes the file (external). Its time need not grow.  *)
(* Unless SameTime holds no time comes back: neither another content nor a  *)
(* restored old one, put back with its old time, has a time of before.      *)
Write ==
  /\ versions < MaxVersion
  /\ versions' = versions + 1
  /\ \E l \in Len, t \in Time :
       /\ SameTime \/ t \notin times
       /\ file' = [content |-> versions', len |-> l, modified |-> t]
       /\ times' = times \cup {t}
  /\ UNCHANGED <<stored, requestVars>>

Remove ==
  /\ file # None /\ file' = None
  /\ UNCHANGED <<versions, times, stored, requestVars>>

-----------------------------------------------------------------------------
Goto(r, from, to) == pc[r] = from /\ pc' = [pc EXCEPT ![r] = to]

(* Each of the three file system calls fails when the file is gone: 404.    *)
NotFound(r) ==
  /\ file = None
  /\ pc[r] \in {"resolve", "metadata", "read"}
  /\ pc' = [pc EXCEPT ![r] = "done"]
  /\ UNCHANGED <<fileVars, stored, metadata, asset, answer, since>>

(* resolve_asset's canonicalize.                                            *)
Resolve(r) ==
  /\ file # None
  /\ Goto(r, "resolve", "metadata")
  /\ UNCHANGED <<fileVars, stored, metadata, asset, answer, since>>

(* tokio::fs::metadata: of the file, its length and its time.               *)
Metadata(r) ==
  /\ file # None
  /\ Goto(r, "metadata", "check")
  /\ metadata' = [metadata EXCEPT ![r] = [len |-> file.len, modified |-> file.modified]]
  /\ since' = [since EXCEPT ![r] = file.content]
  /\ UNCHANGED <<fileVars, stored, asset, answer>>

(* Mutant of Matches: only the length is compared.                          *)
MatchesLength(a, m) == a.len = m.len

(* Whether the stored copy counts for what the metadata says.               *)
Matches(a, m) == a.modified = m.modified /\ a.len = m.len

(* asset_response: a 304 to a client with this ETag, or a 200. Either way    *)
(* the client has the asset's content.                                      *)
Respond(r, a) ==
  /\ asset' = [asset EXCEPT ![r] = a]
  /\ answer' = [answer EXCEPT ![r] = a.content]

Hit(r) ==
  /\ Goto(r, "check", "done")
  /\ stored # None /\ Matches(stored, metadata[r])
  /\ Respond(r, stored)
  /\ UNCHANGED <<fileVars, stored, metadata, since>>

Miss(r) ==
  /\ Goto(r, "check", "read")
  /\ ~(stored # None /\ Matches(stored, metadata[r]))
  /\ UNCHANGED <<fileVars, stored, metadata, asset, answer, since>>

(* insert_asset: the content and its own length, with the metadata's time.  *)
NewAsset(m, f) == [content |-> f.content, len |-> f.len, modified |-> m.modified]

Read(r) ==
  /\ file # None
  /\ Goto(r, "read", "insert")
  /\ asset' = [asset EXCEPT ![r] = NewAsset(metadata[r], file)]
  /\ UNCHANGED <<fileVars, stored, metadata, answer, since>>

(* Mutant of Insert: the modified time is taken after the content.          *)
InsertLaterTime(r) ==
  /\ Goto(r, "insert", "done")
  /\ Respond(r, asset[r])
  /\ stored' = IF file # None THEN [asset[r] EXCEPT !.modified = file.modified] ELSE asset[r]
  /\ UNCHANGED <<fileVars, metadata, since>>

Insert(r) ==
  /\ Goto(r, "insert", "done")
  /\ Respond(r, asset[r])
  /\ stored' = IF MaxEntry > 0 /\ asset[r].len <= MaxEntry THEN asset[r] ELSE stored
  /\ UNCHANGED <<fileVars, metadata, since>>

(* moka expires the copy or evicts it for another entry.                    *)
Evict ==
  /\ stored # None /\ stored' = None
  /\ UNCHANGED <<fileVars, requestVars>>

Next ==
  \/ Write \/ Remove \/ Evict
  \/ \E r \in Request :
       Resolve(r) \/ NotFound(r) \/ Metadata(r) \/ Hit(r) \/ Miss(r) \/ Read(r) \/ Insert(r)

Spec == Init /\ [][Next]_vars

-----------------------------------------------------------------------------
(* A stored copy with the file's own length and modified time has the       *)
(* file's content, whatever edits fell between the reads of some request's  *)
(* metadata and content and whichever of several requests stored last: a    *)
(* request that finds the two equal need not read the file.                 *)
StoredCopyTrue ==
  (/\ stored # None /\ file # None
   /\ stored.len = file.len /\ stored.modified = file.modified)
    => stored.content = file.content

(* A request is never answered with a content older than the one the file   *)
(* had when the request looked at it: an edited file is read again.         *)
EditedReadAgain ==
  \A r \in Request : answer[r] > 0 => answer[r] >= since[r]

-----------------------------------------------------------------------------
(* Why they hold when no two contents have one modified time: a time stands *)
(* for a content, and what is stored under a time is that content or a      *)
(* later one.                                                               *)

FileNewest ==
  file # None => file.content = versions /\ file.modified \in times

(* A request has seen a content, which is the file's while its time is.     *)
SeenByTime ==
  \A r \in Request : metadata[r] # None =>
    /\ metadata[r].modified \in times /\ since[r] <= versions
    /\ file # None /\ file.modified = metadata[r].modified => since[r] = versions

(* Two requests that have seen one time have seen one content.              *)
SeenAlike ==
  \A r, q \in Request :
    (/\ metadata[r] # None /\ metadata[q] # None
     /\ metadata[r].modified = metadata[q].modified) => since[r] = since[q]

(* Where a request has taken the metadata, what it has read since, and that *)
(* it answers last.                                                         *)
ReadSince ==
  \A r \in Request :
    /\ pc[r] # "done" => answer[r] = 0
    /\ pc[r] \in {"check", "read", "insert"} => metadata[r] # None
    /\ pc[r] = "insert" =>
         /\ asset[r] # None
         /\ asset[r].modified = metadata[r].modified
         /\ since[r] <= asset[r].content /\ asset[r].content <= versions

StoredSince ==
  stored # None =>
    /\ stored.modified \in times
    /\ file # None /\ file.modified = stored.modified => stored.content = versions
    /\ \A r \in Request :
         metadata[r] # None /\ metadata[r].modified = stored.modified
           => since[r] <= stored.content

IInv ==
  /\ TypeOK
  /\ FileNewest /\ SeenByTime /\ SeenAlike /\ ReadSince /\ StoredSince
  /\ EditedReadAgain
=============================================================================
