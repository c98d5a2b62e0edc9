---------------------------- MODULE AssetsProof -----------------------------
(***************************************************************************)
(* Proofs about Assets for any requests, contents, lengths and times, when *)
(* every content has a modified time of its own (SameTime = FALSE).        *)
(*                                                                         *)
(* Neither StoredCopyTrue nor EditedReadAgain is inductive: both rest on   *)
(* what each request has seen and read between its awaits.  IInv says that *)
(* a time names one content (SeenByTime, SeenAlike), and that whatever a   *)
(* request holds or has stored under a time is not older than that content *)
(* (ReadSince, StoredSince).                                               *)
(***************************************************************************)
EXTENDS Assets, TLAPS

USE NumbersAssumption, SameTimeAssumption, NoneAssumption

(* Nothing is stored or asked for when the proxy starts.                   *)
LEMMA InitIInv == Init => IInv
  BY DEF Init, IInv, TypeOK, Maybe, FileNewest, SeenByTime, SeenAlike,
         ReadSince, StoredSince, EditedReadAgain

(* A new content, whose modified time is new.                              *)
LEMMA WriteIInv ==
    ASSUME SameTime = FALSE, IInv, Write
    PROVE  IInv'
<1> USE DEF IInv
<1>1. PICK l \in Len, t \in Time :
        /\ t \notin times
        /\ file' = [content |-> versions + 1, len |-> l, modified |-> t]
        /\ times' = times \cup {t}
  BY DEF Write
<1>2. versions < MaxVersion /\ versions' = versions + 1
      /\ UNCHANGED <<stored, requestVars>>
  BY DEF Write
<1>3. TypeOK'
  BY <1>1, <1>2 DEF TypeOK, Maybe, Asset, requestVars
<1>4. FileNewest'
  BY <1>1, <1>2 DEF FileNewest
<1>5. SeenByTime'
  BY <1>1, <1>2 DEF SeenByTime, TypeOK, requestVars
<1>6. SeenAlike'
  BY <1>2 DEF SeenAlike, requestVars
<1>7. ReadSince'
  BY <1>2 DEF ReadSince, TypeOK, Maybe, Asset, requestVars
<1>8. StoredSince'
  BY <1>1, <1>2 DEF StoredSince, requestVars
<1>9. EditedReadAgain'
  BY <1>2 DEF EditedReadAgain, requestVars
<1> QED BY <1>3, <1>4, <1>5, <1>6, <1>7, <1>8, <1>9

(* The file goes, or moka drops the copy.                                  *)
LEMMA GoneIInv ==
    ASSUME IInv, Remove \/ Evict
    PROVE  IInv'
  BY DEF IInv, Remove, Evict, TypeOK, Maybe, FileNewest, SeenByTime, SeenAlike,
         ReadSince, StoredSince, EditedReadAgain, fileVars, requestVars

(* resolve_asset, a file that is gone, and a stored copy that does not     *)
(* count: only the request's place changes.                                *)
LEMMA PlaceIInv ==
    ASSUME NEW r \in Request, IInv, Resolve(r) \/ NotFound(r) \/ Miss(r)
    PROVE  IInv'
<1> USE DEF IInv
<1>1. UNCHANGED <<fileVars, stored, metadata, asset, answer, since>>
  BY DEF Resolve, NotFound, Miss
<1>2. TypeOK'
  BY <1>1 DEF TypeOK, Resolve, NotFound, Miss, Goto, fileVars
<1>3. ReadSince'
  BY <1>1 DEF TypeOK, ReadSince, Resolve, NotFound, Miss, Goto, fileVars
<1>4. FileNewest' /\ SeenByTime' /\ SeenAlike' /\ StoredSince' /\ EditedReadAgain'
  BY <1>1 DEF FileNewest, SeenByTime, SeenAlike, StoredSince, EditedReadAgain, fileVars
<1> QED BY <1>2, <1>3, <1>4

(* load reads the metadata: what it sees is the file's newest content.     *)
LEMMA MetadataIInv ==
    ASSUME NEW r \in Request, IInv, Metadata(r)
    PROVE  IInv'
<1> USE DEF IInv
<1> DEFINE m == [len |-> file.len, modified |-> file.modified]
<1>1. /\ file \in Asset /\ pc[r] = "metadata"
      /\ pc' = [pc EXCEPT ![r] = "check"]
      /\ metadata' = [metadata EXCEPT ![r] = m]
      /\ since' = [since EXCEPT ![r] = file.content]
      /\ UNCHANGED <<fileVars, stored, asset, answer>>
  BY DEF Metadata, Goto, TypeOK, Maybe
<1>2. m \in Stat /\ m.modified = file.modified
  BY <1>1 DEF Stat, Asset
<1>3. file # None /\ file.content = versions /\ file.modified \in times
      /\ versions \in 0 .. MaxVersion
  BY <1>1 DEF FileNewest, Asset, TypeOK
<1>4. TypeOK'
  BY <1>1, <1>2, <1>3 DEF TypeOK, Maybe, fileVars
<1> HIDE DEF m
<1>5. FileNewest'
  BY <1>1 DEF FileNewest, fileVars
<1>6. SeenByTime'
  BY <1>1, <1>2, <1>3 DEF SeenByTime, TypeOK, fileVars
<1>7. SeenAlike'
  BY <1>1, <1>2, <1>3 DEF SeenAlike, SeenByTime, TypeOK, fileVars
<1>8. ReadSince'
  BY <1>1, <1>2 DEF ReadSince, TypeOK, Stat, fileVars
<1>9. StoredSince'
  BY <1>1, <1>2, <1>3 DEF StoredSince, TypeOK, fileVars
<1>10. EditedReadAgain'
  BY <1>1 DEF EditedReadAgain, ReadSince, TypeOK, fileVars
<1> QED BY <1>4, <1>5, <1>6, <1>7, <1>8, <1>9, <1>10

(* The content that is read, with the time seen before, is not older than  *)
(* the one of that time.                                                   *)
LEMMA ReadIInv ==
    ASSUME NEW r \in Request, IInv, Read(r)
    PROVE  IInv'
<1> USE DEF IInv
<1> DEFINE a == NewAsset(metadata[r], file)
<1>1. /\ file \in Asset /\ file # None /\ pc[r] = "read"
      /\ pc' = [pc EXCEPT ![r] = "insert"]
      /\ asset' = [asset EXCEPT ![r] = a]
      /\ UNCHANGED <<fileVars, stored, metadata, answer, since>>
  BY DEF Read, Goto, TypeOK, Maybe
<1>2. metadata[r] # None /\ metadata[r] \in Stat
  BY <1>1 DEF ReadSince, TypeOK, Maybe
<1>3. a \in Asset /\ a.modified = metadata[r].modified /\ a.content = versions
  BY <1>1, <1>2 DEF NewAsset, Asset, Stat, FileNewest
<1>4. a # None
  BY <1>3 DEF Asset
<1> HIDE DEF a
<1>5. TypeOK'
  BY <1>1, <1>3 DEF TypeOK, Maybe, fileVars
<1>6. ReadSince'
  BY <1>1, <1>2, <1>3, <1>4 DEF ReadSince, SeenByTime, TypeOK, fileVars
<1>7. FileNewest' /\ SeenByTime' /\ SeenAlike' /\ StoredSince' /\ EditedReadAgain'
  BY <1>1 DEF FileNewest, SeenByTime, SeenAlike, StoredSince, EditedReadAgain, fileVars
<1> QED BY <1>5, <1>6, <1>7

(* A copy that counts is not older than the content whose time it has.     *)
LEMMA HitIInv ==
    ASSUME NEW r \in Request, IInv, Hit(r)
    PROVE  IInv'
<1> USE DEF IInv
<1>1. /\ stored \in Asset /\ stored # None /\ pc[r] = "check"
      /\ stored.modified = metadata[r].modified
      /\ pc' = [pc EXCEPT ![r] = "done"]
      /\ asset' = [asset EXCEPT ![r] = stored]
      /\ answer' = [answer EXCEPT ![r] = stored.content]
      /\ UNCHANGED <<fileVars, stored, metadata, since>>
  BY DEF Hit, Matches, Respond, Goto, TypeOK, Maybe
<1>2. since[r] <= stored.content
  BY <1>1 DEF ReadSince, StoredSince
<1>3. stored.content \in 0 .. MaxVersion
  BY <1>1 DEF Asset
<1>4. TypeOK'
  BY <1>1, <1>3 DEF TypeOK, Maybe, fileVars
<1>5. ReadSince'
  BY <1>1 DEF ReadSince, TypeOK, fileVars
<1>6. EditedReadAgain'
  BY <1>1, <1>2, <1>3 DEF EditedReadAgain, TypeOK
<1>7. FileNewest' /\ SeenByTime' /\ SeenAlike' /\ StoredSince'
  BY <1>1 DEF FileNewest, SeenByTime, SeenAlike, StoredSince, fileVars
<1> QED BY <1>4, <1>5, <1>6, <1>7

(* insert_asset may replace a copy by one another request has read before. *)
LEMMA InsertIInv ==
    ASSUME NEW r \in Request, IInv, Insert(r)
    PROVE  IInv'
<1> USE DEF IInv
<1>1. /\ pc[r] = "insert"
      /\ pc' = [pc EXCEPT ![r] = "done"]
      /\ asset' = [asset EXCEPT ![r] = asset[r]]
      /\ answer' = [answer EXCEPT ![r] = asset[r].content]
      /\ stored' = asset[r] \/ stored' = stored
      /\ UNCHANGED <<fileVars, metadata, since>>
  BY DEF Insert, Respond, Goto
<1>2. /\ asset[r] \in Asset /\ asset[r] # None /\ metadata[r] # None
      /\ asset[r].modified = metadata[r].modified
      /\ since[r] <= asset[r].content /\ asset[r].content <= versions
  BY <1>1 DEF ReadSince, TypeOK, Maybe
<1>3. asset[r].content \in 0 .. MaxVersion /\ asset[r].content \in Nat
  BY <1>2 DEF Asset
<1>4. TypeOK'
  BY <1>1, <1>2, <1>3 DEF TypeOK, Maybe, fileVars
<1>5. ReadSince'
  BY <1>1 DEF ReadSince, TypeOK, fileVars
<1>6. EditedReadAgain'
  BY <1>1, <1>2, <1>3 DEF EditedReadAgain, TypeOK
<1>7. FileNewest' /\ SeenByTime' /\ SeenAlike'
  BY <1>1 DEF FileNewest, SeenByTime, SeenAlike, fileVars
<1>8. StoredSince'
  <2>1. CASE stored' = stored
    BY <1>1, <2>1 DEF StoredSince, fileVars
  <2>2. CASE stored' = asset[r]
    <3>1. metadata[r].modified \in times
      BY <1>2 DEF SeenByTime
    <3>2. file # None /\ file.modified = asset[r].modified
            => asset[r].content = versions
      BY <1>2, <1>3 DEF SeenByTime, TypeOK
    <3>3. \A q \in Request :
            metadata[q] # None /\ metadata[q].modified = asset[r].modified
              => since[q] <= asset[r].content
      BY <1>2 DEF SeenAlike
    <3> QED BY <1>1, <1>2, <2>2, <3>1, <3>2, <3>3 DEF StoredSince, fileVars
  <2> QED BY <1>1, <2>1, <2>2
<1> QED BY <1>4, <1>5, <1>6, <1>7, <1>8

(* What each request holds, and the store, agree on which content a        *)
(* modified time stands for.                                               *)
THEOREM Inductive == ASSUME SameTime = FALSE PROVE Spec => []IInv
<1>1. IInv /\ [Next]_vars => IInv'
  <2> SUFFICES ASSUME IInv, [Next]_vars PROVE IInv'
    OBVIOUS
  <2>1. CASE Next
    BY <2>1, WriteIInv, GoneIInv, PlaceIInv, MetadataIInv, HitIInv, ReadIInv, InsertIInv
       DEF Next
  <2>2. CASE UNCHANGED vars
    BY <2>2 DEF vars, fileVars, requestVars, IInv, TypeOK, FileNewest, SeenByTime,
                SeenAlike, ReadSince, StoredSince, EditedReadAgain
  <2> QED BY <2>1, <2>2
<1> QED BY InitIInv, <1>1, PTL DEF Spec

(* A copy that looks like the file has its content (assets.rs, load).      *)
THEOREM CopyTrue == ASSUME SameTime = FALSE PROVE Spec => []StoredCopyTrue
<1>1. IInv => StoredCopyTrue
  BY DEF IInv, FileNewest, StoredSince, StoredCopyTrue
<1> QED BY <1>1, Inductive, PTL

(* No request is answered with less than what it saw (assets.rs, load: "an *)
(* edited file is read again").                                            *)
THEOREM ReadAgain == ASSUME SameTime = FALSE PROVE Spec => []EditedReadAgain
<1>1. IInv => EditedReadAgain
  BY DEF IInv
<1> QED BY <1>1, Inductive, PTL
=============================================================================
