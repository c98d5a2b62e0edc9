----------------------------- MODULE StoreProof -----------------------------
(***************************************************************************)
(* Proofs about Store for any URIs, field names, values and Vary lists and *)
(* any number of tasks and threads.                                        *)
(*                                                                         *)
(* A key holds the values of the fields a response varies on without their *)
(* names, so HeldMatches needs to know whose names a generation stands     *)
(* for.  IInv says that the index, the entries and every task in the       *)
(* middle of an operation agree with the list the generation was issued    *)
(* for.                                                                    *)
(*                                                                         *)
(* Several threads may bring a retired generation back, or store an update *)
(* of an entry that was overwritten (the configurations                    *)
(* StoreRevivedGeneration and StoreFreshenRace).  HistoryInv says what     *)
(* they cannot do: it adds who owns a generation (GenerationsOwned), which *)
(* inserts were under way when theirs was retired (InsertsStraddle) and    *)
(* which responses are live (ResponsesLive).                               *)
(***************************************************************************)
EXTENDS Store, TLAPS

USE StoreAssumption

-----------------------------------------------------------------------------
(* Facts about the operators *)

(* The values of a Vary list are a sequence of values (vary_values).       *)
LEMMA VaryValuesType ==
    ASSUME NEW names \in VaryLists, NEW fields \in Fields
    PROVE  vary_values(names, fields) \in Seq(Value)
<1>1. names \in Seq(Header)
  OBVIOUS
<1>2. DOMAIN names = 1..Len(names) /\ Len(names) \in Nat
  BY <1>1
<1>3. \A i \in 1..Len(names) : fields[names[i]] \in Value
  BY <1>1, <1>2 DEF Fields
<1> QED BY <1>2, <1>3 DEF vary_values

(* A key made for a request is a key.                                      *)
LEMMA KeyForType ==
    ASSUME NEW q \in Request, NEW g \in Nat, NEW names \in VaryLists
    PROVE  /\ KeyFor(q.primary, g, names, q.fields) \in ResponseKey
           /\ KeyFor(q.primary, g, names, q.fields) # None
<1>1. q.fields \in Fields /\ q.primary \in Primary
  BY DEF Request
<1>2. vary_values(names, q.fields) \in Seq(Value)
  BY <1>1, VaryValuesType
<1>3. KeyFor(q.primary, g, names, q.fields) \in ResponseKey
  BY <1>1, <1>2 DEF KeyFor, ResponseKey
<1> QED BY <1>3

(* The generation of the index, or the next one, is a number, and after    *)
(* the step it stands for the names it was chosen for (insert_response).   *)
LEMMA ChosenGenerationIssued ==
    ASSUME TypeOK, IndexAsIssued, NEW p \in Primary, NEW names \in VaryLists
    PROVE  /\ ChosenGeneration(p, names) \in Nat
           /\ IssuedFor(p, names) \in Seq(VaryLists)
           /\ ChosenGeneration(p, names) \in DOMAIN IssuedFor(p, names)
           /\ IssuedFor(p, names)[ChosenGeneration(p, names)] = names
           /\ \A h \in DOMAIN issued :
                 /\ h \in DOMAIN IssuedFor(p, names)
                 /\ IssuedFor(p, names)[h] = issued[h]
<1>1. issued \in Seq(VaryLists) /\ Len(issued) \in Nat
         /\ DOMAIN issued = 1..Len(issued)
  BY DEF TypeOK
<1>2. CASE index[p] # None /\ index[p].vary = names
  <2>1. ChosenGeneration(p, names) = index[p].generation
    BY <1>2 DEF ChosenGeneration
  <2>2. index[p].generation \in DOMAIN issued /\ issued[index[p].generation] = names
    BY <1>2 DEF IndexAsIssued
  <2>3. index[p].generation \in Nat /\ index[p].generation # Len(issued) + 1
    BY <1>1, <2>2
  <2>4. IssuedFor(p, names) = issued
    BY <2>1, <2>3, Zenon DEF IssuedFor
  <2> QED BY <1>1, <2>1, <2>2, <2>3, <2>4
<1>3. CASE ~(index[p] # None /\ index[p].vary = names)
  <2>1. ChosenGeneration(p, names) = Len(issued) + 1
    BY <1>3 DEF ChosenGeneration
  <2>2. IssuedFor(p, names) = Append(issued, names)
    BY <2>1, Zenon DEF IssuedFor
  <2>3. /\ Append(issued, names) \in Seq(VaryLists)
        /\ DOMAIN Append(issued, names) = 1..(Len(issued) + 1)
        /\ Append(issued, names)[Len(issued) + 1] = names
        /\ \A h \in 1..Len(issued) : Append(issued, names)[h] = issued[h]
    BY <1>1
  <2>4. Len(issued) + 1 \in Nat /\ Len(issued) + 1 \in 1..(Len(issued) + 1)
          /\ \A h \in 1..Len(issued) : h \in 1..(Len(issued) + 1)
    BY <1>1
  <2> QED BY <1>1, <2>1, <2>2, <2>3, <2>4, Zenon
<1> QED BY <1>2, <1>3

-----------------------------------------------------------------------------
(* Each step keeps IInv *)

(* The store starts empty (Store::new).                                    *)
LEMMA InitIInv == Init => IInv
<1> SUFFICES ASSUME Init PROVE IInv
  OBVIOUS
<1>1. issued \in Seq(VaryLists)
  BY DEF Init
<1>2. TypeOK
  BY <1>1 DEF Init, TypeOK, Steps, Inside
<1>3. IndexAsIssued /\ EntriesAsIssued /\ InsertsAsIssued /\ LookupsAsIssued
         /\ TasksOpen /\ HeldMatches
  BY DEF Init, IndexAsIssued, EntriesAsIssued, InsertsAsIssued,
         LookupsAsIssued, TasksOpen, HeldMatches
<1> QED BY <1>2, <1>3 DEF IInv

(* The first read of a lookup: the key has the values of the names the     *)
(* index gave, which are those its generation stands for.                  *)
LEMMA LookupIndexIInv ==
    ASSUME IInv, NEW t \in Tasks, NEW q \in Request, LookupIndex(t, q)
    PROVE  IInv'
<1> USE DEF IInv
<1> DEFINE p == q.primary
<1>0. p \in Primary /\ q # None /\ pc[t] = "idle"
  BY DEF Request, LookupIndex
<1>1. index[p] # None =>
         /\ index[p].generation \in Nat /\ index[p].vary \in VaryLists
         /\ index[p].generation \in DOMAIN issued
         /\ issued[index[p].generation] = index[p].vary
  BY <1>0 DEF TypeOK, Index, IndexAsIssued
<1>2. TypeOK'
  <2>1. pc' \in [Tasks -> Steps] /\ request' \in [Tasks -> Request \cup {None}]
    BY DEF LookupIndex, TypeOK, Steps, Inside
  <2>2. key' \in [Tasks -> ResponseKey \cup {None}]
    <3>1. index[p] # None =>
             KeyFor(p, index[p].generation, index[p].vary, q.fields) \in ResponseKey
      BY <1>1, KeyForType
    <3> QED BY <3>1 DEF LookupIndex, TypeOK
  <2> QED BY <2>1, <2>2 DEF LookupIndex, TypeOK, tables
<1>3. IndexAsIssued' /\ EntriesAsIssued'
  BY DEF LookupIndex, tables, IndexAsIssued, EntriesAsIssued, Labels
<1>4. InsertsAsIssued'
  BY DEF LookupIndex, tables, TypeOK, InsertsAsIssued, Labels
<1>5. LookupsAsIssued'
  <2> SUFFICES ASSUME NEW u \in Tasks, pc'[u] = "lookup"
               PROVE  /\ key'[u] # None
                      /\ key'[u].generation \in DOMAIN issued
                      /\ key'[u].primary = request'[u].primary
                      /\ key'[u].vary =
                           vary_values(issued[key'[u].generation], request'[u].fields)
    BY DEF LookupsAsIssued, LookupIndex, tables
  <2>1. CASE u = t
    <3>1. index[p] # None /\ request'[t] = q
            /\ key'[t] = KeyFor(p, index[p].generation, index[p].vary, q.fields)
      BY <2>1 DEF LookupIndex, TypeOK
    <3> QED BY <1>0, <1>1, <2>1, <3>1, KeyForType DEF KeyFor
  <2>2. CASE u # t
    BY <2>2 DEF LookupIndex, TypeOK, LookupsAsIssued
  <2> QED BY <2>1, <2>2
<1>6. TasksOpen'
  BY <1>0 DEF LookupIndex, TypeOK, TasksOpen
<1>7. HeldMatches'
  BY <1>0 DEF LookupIndex, TypeOK, TasksOpen, HeldMatches
<1> QED BY <1>2, <1>3, <1>4, <1>5, <1>6, <1>7

(* The second read: what is under the key was stored for the same names.   *)
LEMMA LookupEntryIInv ==
    ASSUME IInv, NEW t \in Tasks, LookupEntry(t)
    PROVE  IInv'
<1> USE DEF IInv
<1>0. \A e \in Found(key[t]) :
         e \in Entry /\ e.response \in Response /\ e.response # None
  BY DEF Found, TypeOK, Entry
<1>1. TypeOK'
  BY <1>0 DEF LookupEntry, tables, TypeOK, Steps, Inside
<1>2. IndexAsIssued' /\ EntriesAsIssued'
  BY DEF LookupEntry, tables, IndexAsIssued, EntriesAsIssued, Labels
<1>3. InsertsAsIssued' /\ LookupsAsIssued'
  BY DEF LookupEntry, tables, TypeOK, InsertsAsIssued, LookupsAsIssued, Labels
<1>4. TasksOpen'
  BY DEF LookupEntry, TypeOK, TasksOpen, LookupsAsIssued
<1>5. HeldMatches'
  <2> SUFFICES ASSUME NEW u \in Tasks, held'[u] # None
               PROVE  /\ held'[u].request.primary = request[u].primary
                      /\ vary_values(held'[u].names, held'[u].request.fields)
                           = vary_values(held'[u].names, request[u].fields)
    BY DEF HeldMatches, LookupEntry
  <2>1. CASE held'[u] = held[u]
    BY <2>1 DEF HeldMatches
  <2>2. CASE held'[u] # held[u]
    <3>1. PICK e \in Found(key[t]) : u = t /\ held'[t] = e.response
      BY <2>2 DEF LookupEntry, TypeOK
    <3>2. e \in entries /\ e.key = key[t]
      BY <3>1 DEF Found
    <3>3. Labels(key[t], e.response)
      BY <3>2 DEF EntriesAsIssued
    <3>4. /\ key[t].primary = request[t].primary
          /\ key[t].vary = vary_values(issued[key[t].generation], request[t].fields)
      BY DEF LookupEntry, LookupsAsIssued
    <3> QED BY <3>1, <3>3, <3>4 DEF Labels
  <2> QED BY <2>1, <2>2
<1> QED BY <1>1, <1>2, <1>3, <1>4, <1>5

(* A request that is not looked up holds nothing.                          *)
LEMMA SkipLookupIInv ==
    ASSUME IInv, NEW t \in Tasks, NEW q \in Request, SkipLookup(t, q)
    PROVE  IInv'
<1> USE DEF IInv
<1>0. q # None
  OBVIOUS
<1>1. TypeOK'
  BY DEF SkipLookup, tables, TypeOK, Steps, Inside
<1>2. IndexAsIssued' /\ EntriesAsIssued' /\ InsertsAsIssued' /\ LookupsAsIssued'
  BY DEF SkipLookup, tables, TypeOK, IndexAsIssued, EntriesAsIssued,
         InsertsAsIssued, LookupsAsIssued, Labels
<1>3. TasksOpen' /\ HeldMatches'
  BY <1>0 DEF SkipLookup, TypeOK, TasksOpen, HeldMatches
<1> QED BY <1>1, <1>2, <1>3

(* The end of a task: it forgets its request and what it held.             *)
LEMMA FinishIInv ==
    ASSUME IInv, NEW t \in Tasks, Finish(t)
    PROVE  IInv'
<1> USE DEF IInv
<1>1. TypeOK'
  BY DEF Finish, TypeOK, Steps, Inside
<1>2. IndexAsIssued' /\ EntriesAsIssued' /\ InsertsAsIssued' /\ LookupsAsIssued'
  BY DEF Finish, TypeOK, IndexAsIssued, EntriesAsIssued, InsertsAsIssued,
         LookupsAsIssued, Labels
<1>3. TasksOpen' /\ HeldMatches'
  BY DEF Finish, TypeOK, TasksOpen, HeldMatches
<1> QED BY <1>1, <1>2, <1>3

(* The claim of a refresh touches neither map.                             *)
LEMMA StartRefreshIInv ==
    ASSUME IInv, NEW t \in Tasks, StartRefresh(t)
    PROVE  IInv'
<1> USE DEF IInv
<1>0. key[t] \in ResponseKey
  BY DEF StartRefresh, TasksOpen, TypeOK
<1>1. TypeOK'
  BY <1>0 DEF StartRefresh, TypeOK
<1>2. IndexAsIssued' /\ EntriesAsIssued' /\ InsertsAsIssued' /\ LookupsAsIssued'
  BY DEF StartRefresh, IndexAsIssued, EntriesAsIssued, InsertsAsIssued,
         LookupsAsIssued, Labels
<1>3. TasksOpen' /\ HeldMatches'
  BY DEF StartRefresh, TasksOpen, HeldMatches
<1> QED BY <1>1, <1>2, <1>3

(* The start of an insert, from insert_response or from freshen: a new     *)
(* generation is issued for these names, or the old one already was.       *)
LEMMA ChooseGenerationIInv ==
    ASSUME IInv, NEW t \in Tasks, NEW names \in VaryLists,
           BeginInsert(t, names) \/ FreshenInsert(t, names)
    PROVE  IInv'
<1> USE DEF IInv
<1> DEFINE q == request[t]
           g == ChosenGeneration(q.primary, names)
           r == [id |-> created, request |-> q, names |-> names]
           k == KeyFor(q.primary, g, names, q.fields)
<1>0. /\ ChooseGeneration(t, names)
      /\ UNCHANGED <<index, entries, refreshing, request, guard>>
      /\ pc[t] \in {"ready", "freshen"}
      /\ held' = held \/ held' = [held EXCEPT ![t] = None]
  BY DEF BeginInsert, FreshenInsert
<1>1. q \in Request /\ q.primary \in Primary
  BY <1>0 DEF TasksOpen, TypeOK, Request
<1>2. /\ g \in Nat
      /\ issued' \in Seq(VaryLists)
      /\ g \in DOMAIN issued' /\ issued'[g] = names
      /\ \A h \in DOMAIN issued : h \in DOMAIN issued' /\ issued'[h] = issued[h]
  <2>1. issued' = IssuedFor(q.primary, names)
    BY <1>0 DEF ChooseGeneration
  <2> HIDE DEF q
  <2> QED BY <1>1, <2>1, ChosenGenerationIssued
<1>3. k \in ResponseKey /\ k # None
  BY <1>1, <1>2, KeyForType
<1>4. r \in Response /\ r # None
  BY <1>1 DEF Response, TypeOK
<1>5. /\ key' = [key EXCEPT ![t] = k] /\ made' = [made EXCEPT ![t] = r]
      /\ pc' = [pc EXCEPT ![t] = "index"] /\ created' = created + 1
  BY <1>0 DEF ChooseGeneration
<1>6. k.generation = g /\ k.primary = q.primary /\ k.vary = vary_values(names, q.fields)
         /\ r.names = names /\ r.request = q
  BY DEF KeyFor
<1> HIDE DEF g, k, r
<1>7. TypeOK'
  <2>1. held' \in [Tasks -> Response \cup {None}]
    BY <1>0 DEF TypeOK
  <2>2. /\ key' \in [Tasks -> ResponseKey \cup {None}]
        /\ made' \in [Tasks -> Response \cup {None}]
    BY <1>3, <1>4, <1>5 DEF TypeOK
  <2>3. pc' \in [Tasks -> Steps] /\ created' \in Nat
    BY <1>5 DEF TypeOK, Steps, Inside
  <2> QED BY <1>0, <1>2, <2>1, <2>2, <2>3 DEF TypeOK
<1>8. IndexAsIssued'
  BY <1>0, <1>2 DEF IndexAsIssued
<1>9. EntriesAsIssued'
  BY <1>0, <1>2 DEF EntriesAsIssued, Labels
<1>10. InsertsAsIssued'
  <2> SUFFICES ASSUME NEW u \in Tasks, pc'[u] \in {"index", "entry"}
               PROVE  /\ key'[u] # None /\ made'[u] # None
                      /\ key'[u].generation \in DOMAIN issued'
                      /\ issued'[key'[u].generation] = made'[u].names
                      /\ key'[u].primary = made'[u].request.primary
                      /\ key'[u].vary =
                           vary_values(made'[u].names, made'[u].request.fields)
    BY DEF InsertsAsIssued, Labels
  <2>1. CASE u = t
    BY <1>2, <1>3, <1>4, <1>5, <1>6, <2>1 DEF Labels, TypeOK
  <2>2. CASE u # t
    BY <1>2, <1>5, <2>2 DEF Labels, InsertsAsIssued, TypeOK
  <2> QED BY <2>1, <2>2
<1>11. LookupsAsIssued'
  BY <1>0, <1>2, <1>5 DEF LookupsAsIssued, TypeOK
<1>12. TasksOpen'
  BY <1>0, <1>3, <1>5 DEF TasksOpen, TypeOK
<1>13. HeldMatches'
  BY <1>0 DEF HeldMatches, TypeOK
<1> QED BY <1>7, <1>8, <1>9, <1>10, <1>11, <1>12, <1>13

(* The write of the index publishes names with the generation issued for   *)
(* them, even when the index has changed since it was read.                *)
LEMMA InsertIndexIInv ==
    ASSUME IInv, NEW t \in Tasks, InsertIndex(t)
    PROVE  IInv'
<1> USE DEF IInv
<1>1. /\ key[t] \in ResponseKey /\ key[t].primary \in Primary /\ key[t].generation \in Nat
      /\ made[t] \in Response /\ made[t].names \in VaryLists
      /\ key[t].generation \in DOMAIN issued
      /\ issued[key[t].generation] = made[t].names
  BY DEF InsertIndex, InsertsAsIssued, Labels, TypeOK, ResponseKey, Response
<1>2. TypeOK'
  BY <1>1 DEF InsertIndex, TypeOK, Index, Steps, Inside
<1>3. IndexAsIssued'
  BY <1>1 DEF InsertIndex, IndexAsIssued, TypeOK
<1>4. EntriesAsIssued' /\ InsertsAsIssued' /\ LookupsAsIssued'
  BY DEF InsertIndex, TypeOK, EntriesAsIssued, InsertsAsIssued, LookupsAsIssued,
         Labels
<1>5. TasksOpen' /\ HeldMatches'
  BY DEF InsertIndex, TypeOK, TasksOpen, HeldMatches
<1> QED BY <1>2, <1>3, <1>4, <1>5

(* The write of the entry.                                                 *)
LEMMA InsertEntryIInv ==
    ASSUME IInv, NEW t \in Tasks, InsertEntry(t)
    PROVE  IInv'
<1> USE DEF IInv
<1>1. key[t] \in ResponseKey /\ made[t] \in Response /\ Labels(key[t], made[t])
  BY DEF InsertEntry, InsertsAsIssued, TypeOK
<1>2. TypeOK'
  <2>1. entries' \subseteq Entry
    BY <1>1 DEF InsertEntry, TypeOK, Entry
  <2> QED BY <2>1 DEF InsertEntry, TypeOK, Steps, Inside
<1>3. EntriesAsIssued'
  BY <1>1 DEF InsertEntry, EntriesAsIssued, Labels
<1>4. IndexAsIssued' /\ InsertsAsIssued' /\ LookupsAsIssued'
  BY DEF InsertEntry, TypeOK, IndexAsIssued, InsertsAsIssued, LookupsAsIssued,
         Labels
<1>5. TasksOpen' /\ HeldMatches'
  BY DEF InsertEntry, TypeOK, TasksOpen, HeldMatches
<1> QED BY <1>2, <1>3, <1>4, <1>5

(* The check of freshen only moves the task.                               *)
LEMMA FreshenCheckIInv ==
    ASSUME IInv, NEW t \in Tasks, NEW storable \in BOOLEAN, FreshenCheck(t, storable)
    PROVE  IInv'
<1> USE DEF IInv
<1>0. PICK s \in {"freshen", "remove", "done"} : pc' = [pc EXCEPT ![t] = s]
  BY DEF FreshenCheck
<1>1. TypeOK'
  BY <1>0 DEF FreshenCheck, tables, TypeOK, Steps, Inside
<1>2. IndexAsIssued' /\ EntriesAsIssued' /\ InsertsAsIssued' /\ LookupsAsIssued'
  BY <1>0 DEF FreshenCheck, tables, TypeOK, IndexAsIssued, EntriesAsIssued,
         InsertsAsIssued, LookupsAsIssued, Labels
<1>3. TasksOpen' /\ HeldMatches'
  BY <1>0 DEF FreshenCheck, TypeOK, TasksOpen, HeldMatches
<1> QED BY <1>1, <1>2, <1>3

(* Entries and indexes may go at any time: freshen's removal, invalidate   *)
(* and moka's own removals only take away.                                 *)
LEMMA RemovalIInv ==
    ASSUME IInv,
           \/ \E t \in Tasks : FreshenRemove(t) \/ \E p \in Primary : Invalidate(t, p)
           \/ \E p \in Primary : EvictIndex(p)
           \/ \E e \in entries : EvictEntry(e)
    PROVE  IInv'
<1> USE DEF IInv
<1>0. /\ entries' \subseteq entries
      /\ index' = index \/ \E p \in Primary : index' = [index EXCEPT ![p] = None]
      /\ pc' = pc \/ \E t \in Tasks : pc' = [pc EXCEPT ![t] = "done"] /\ pc[t] = "remove"
      /\ UNCHANGED <<issued, refreshing, request, key, held, made, guard, created>>
  BY DEF FreshenRemove, Invalidate, EvictIndex, EvictEntry, locals
<1>1. TypeOK'
  BY <1>0 DEF TypeOK, Steps, Inside
<1>2. IndexAsIssued' /\ EntriesAsIssued'
  BY <1>0 DEF TypeOK, IndexAsIssued, EntriesAsIssued, Labels
<1>3. InsertsAsIssued' /\ LookupsAsIssued'
  BY <1>0 DEF TypeOK, InsertsAsIssued, LookupsAsIssued, Labels
<1>4. TasksOpen' /\ HeldMatches'
  BY <1>0 DEF TypeOK, TasksOpen, HeldMatches
<1> QED BY <1>1, <1>2, <1>3, <1>4

(* Every step keeps IInv.                                                  *)
LEMMA NextIInv ==
    ASSUME IInv, [Next]_vars
    PROVE  IInv'
<1>1. CASE Next
  BY <1>1, LookupIndexIInv, SkipLookupIInv, LookupEntryIInv, StartRefreshIInv,
     ChooseGenerationIInv, InsertIndexIInv, InsertEntryIInv, FreshenCheckIInv,
     RemovalIInv, FinishIInv DEF Next, Step
<1>2. CASE UNCHANGED vars
  BY <1>2 DEF vars, tables, locals, history, IInv, TypeOK, IndexAsIssued,
              EntriesAsIssued, InsertsAsIssued, LookupsAsIssued, TasksOpen,
              HeldMatches, Labels
<1> QED BY <1>1, <1>2

(* IInv holds in every reachable state of the store.                       *)
THEOREM Inductive == Spec => []IInv
<1>1. IInv /\ [Next]_vars => IInv'
  BY NextIInv
<1> QED BY InitIInv, <1>1, PTL DEF Spec

(* Every variable keeps its type.                                          *)
THEOREM TypeCorrect == Spec => []TypeOK
<1>1. IInv => TypeOK
  BY DEF IInv
<1> QED BY <1>1, Inductive, PTL

(* A lookup never returns a response for another URI or for other values   *)
(* of the fields it varies on (Store::lookup).                             *)
THEOREM LookupMatches == Spec => []HeldMatches
<1>1. IInv => HeldMatches
  BY DEF IInv
<1> QED BY <1>1, Inductive, PTL


(* Two tasks never refresh one stored response, and a claimed key always   *)
(* has an owner that will drop it (start_refresh, RefreshGuard::drop).     *)
THEOREM RefreshExclusive == Spec => []RefreshClaims
<1>1. Init => RefreshClaims
  BY DEF Init, RefreshClaims
<1>2. TypeOK /\ TasksOpen /\ RefreshClaims /\ [Next]_vars => RefreshClaims'
  <2> SUFFICES ASSUME TypeOK, TasksOpen, RefreshClaims, [Next]_vars
               PROVE  RefreshClaims'
    OBVIOUS
  <2>1. CASE UNCHANGED <<guard, refreshing>>
    BY <2>1 DEF RefreshClaims
  <2>2. ASSUME NEW t \in Tasks, StartRefresh(t) PROVE RefreshClaims'
    <3>1. key[t] # None /\ guard[t] = None /\ key[t] \notin refreshing
      BY <2>2 DEF StartRefresh, TasksOpen
    <3>2. refreshing' = refreshing \cup {key[t]} /\ guard'[t] = key[t]
             /\ \A u \in Tasks \ {t} : guard'[u] = guard[u]
      BY <2>2 DEF StartRefresh, TypeOK
    <3>3. None \notin refreshing
      BY DEF TypeOK
    <3>4. \A u \in Tasks : guard'[u] # None => guard'[u] \in refreshing'
      BY <3>2 DEF RefreshClaims
    <3>5. \A u, v \in Tasks : guard'[u] # None /\ guard'[u] = guard'[v] => u = v
      BY <3>1, <3>2 DEF RefreshClaims
    <3>6. \A k \in refreshing' : \E u \in Tasks : guard'[u] = k
      <4>1. \A k \in refreshing : \E u \in Tasks \ {t} : guard[u] = k
        BY <3>1, <3>3 DEF RefreshClaims
      <4> QED BY <3>2, <4>1
    <3> QED BY <3>4, <3>5, <3>6 DEF RefreshClaims
  <2>3. ASSUME NEW t \in Tasks, Finish(t) PROVE RefreshClaims'
    <3>1. refreshing' = refreshing \ {guard[t]} /\ guard'[t] = None
             /\ \A u \in Tasks \ {t} : guard'[u] = guard[u]
      BY <2>3 DEF Finish, TypeOK
    <3>2. \A u \in Tasks : guard'[u] # None => guard'[u] \in refreshing'
      \* no other task has the key that this one gives back
      <4> SUFFICES ASSUME NEW u \in Tasks, guard'[u] # None
                   PROVE  guard'[u] \in refreshing'
        OBVIOUS
      <4>1. u # t /\ guard'[u] = guard[u]
        BY <3>1
      <4>2. guard[u] # guard[t] /\ guard[u] \in refreshing
        BY <4>1 DEF RefreshClaims
      <4> QED BY <3>1, <4>1, <4>2
    <3>3. \A u, v \in Tasks : guard'[u] # None /\ guard'[u] = guard'[v] => u = v
      BY <3>1 DEF RefreshClaims
    <3>4. \A k \in refreshing' : \E u \in Tasks : guard'[u] = k
      <4> SUFFICES ASSUME NEW k \in refreshing' PROVE \E u \in Tasks : guard'[u] = k
        OBVIOUS
      <4>1. k \in refreshing /\ k # guard[t]
        BY <3>1
      <4>2. PICK u \in Tasks : guard[u] = k
        BY <4>1 DEF RefreshClaims
      <4> QED BY <3>1, <4>1, <4>2
    <3> QED BY <3>2, <3>3, <3>4 DEF RefreshClaims
  <2>4. ASSUME Next, ~ UNCHANGED <<guard, refreshing>>
        PROVE  \E t \in Tasks : StartRefresh(t) \/ Finish(t)
    BY <2>4 DEF Next, Step, LookupIndex, SkipLookup, LookupEntry, BeginInsert,
                FreshenInsert, InsertIndex, InsertEntry, FreshenCheck,
                FreshenRemove, Invalidate, EvictIndex, EvictEntry, tables, locals
  <2> QED BY <2>1, <2>2, <2>3, <2>4 DEF vars, tables, locals
<1>3. IInv => TypeOK /\ TasksOpen
  BY DEF IInv
<1> QED BY <1>1, <1>2, <1>3, Inductive, PTL DEF Spec

-----------------------------------------------------------------------------
(* What generations and identities have behind them, on any threads *)

(* The store starts with nothing retired and nothing overwritten.          *)
LEMMA InitHistory == Init => HistoryInv
<1> SUFFICES ASSUME Init PROVE HistoryInv
  OBVIOUS
<1>1. GenerationsOwned /\ InsertsStraddle /\ RetiredUnlessStraddled
  BY DEF Init, GenerationsOwned, InsertsStraddle, RetiredUnlessStraddled
<1>2. ResponsesLive
  BY DEF Init, ResponsesLive
<1> QED BY <1>1, <1>2, InitIInv DEF HistoryInv

(* A step that publishes no generation and retires none.                   *)
LEMMA GenerationsKept ==
    ASSUME TypeOK, GenerationsOwned, InsertsStraddle, RetiredUnlessStraddled,
           UNCHANGED <<issued, retired, straddled>>,
           \A p \in Primary : index'[p] # None => index'[p] = index[p],
           \A u \in Tasks : pc'[u] = "index" => pc[u] = "index" /\ key'[u] = key[u]
    PROVE  GenerationsOwned' /\ InsertsStraddle' /\ RetiredUnlessStraddled'
  BY DEF GenerationsOwned, InsertsStraddle, RetiredUnlessStraddled

(* A step that makes no response and overwrites none.                      *)
LEMMA ResponsesKept ==
    ASSUME TypeOK, ResponsesLive,
           UNCHANGED <<created, overwritten>>, entries' \subseteq entries,
           \A u \in Tasks : pc'[u] \in {"index", "entry"} =>
             pc[u] \in {"index", "entry"} /\ made'[u] = made[u]
    PROVE  ResponsesLive'
  BY DEF ResponsesLive

(* The index gives up one generation, of one URI: an insert that is about  *)
(* to write that generation straddles it.                                  *)
LEMMA RetireStraddles ==
    ASSUME TypeOK, GenerationsOwned, IndexAsIssued, InsertsStraddle,
           NEW p \in Primary, NEW g, Retire(Outgoing(p, g))
    PROVE  /\ retired' = retired \cup Outgoing(p, g) /\ straddled \subseteq straddled'
           /\ Outgoing(p, g) \subseteq DOMAIN issued /\ g \notin Outgoing(p, g)
           /\ \A o \in Primary : o # p /\ index[o] # None
                => index[o].generation \notin Outgoing(p, g)
           /\ \A u \in Tasks : pc[u] = "index" /\ key[u].generation \in retired'
                => key[u].generation \in straddled'
  BY DEF Retire, Outgoing, IndexAsIssued, GenerationsOwned, InsertsStraddle

(* The start of an insert issues a generation that no index has, or takes  *)
(* the one of its own URI, and gives the response an identity of its own.  *)
LEMMA ChooseGenerationHistory ==
    ASSUME HistoryInv, NEW t \in Tasks, NEW names \in VaryLists,
           BeginInsert(t, names) \/ FreshenInsert(t, names)
    PROVE  GenerationsOwned' /\ InsertsStraddle' /\ RetiredUnlessStraddled' /\ ResponsesLive'
<1> USE DEF HistoryInv, IInv
<1> DEFINE q == request[t]
           g == ChosenGeneration(q.primary, names)
<1>0. /\ ChooseGeneration(t, names)
      /\ UNCHANGED <<index, entries, request, retired, straddled, overwritten>>
      /\ pc[t] \in {"ready", "freshen"}
  BY DEF BeginInsert, FreshenInsert, history
<1>1. q \in Request /\ q.primary \in Primary
  BY <1>0 DEF TasksOpen, TypeOK, Request
<1>2. /\ issued' = IssuedFor(q.primary, names) /\ issued \in Seq(VaryLists)
      /\ pc' = [pc EXCEPT ![t] = "index"]
      /\ key' = [key EXCEPT ![t] = KeyFor(q.primary, g, names, q.fields)]
      /\ made' = [made EXCEPT ![t] = [id |-> created, request |-> q, names |-> names]]
      /\ created' = created + 1 /\ created \in Nat
  BY <1>0 DEF ChooseGeneration, TypeOK
<1>3. /\ \A u \in Tasks \ {t} : pc'[u] = pc[u] /\ key'[u] = key[u] /\ made'[u] = made[u]
      /\ key'[t].generation = g /\ key'[t].primary = q.primary
      /\ made'[t].id = created
  BY <1>2 DEF TypeOK, KeyFor
<1>4. /\ g \in DOMAIN issued'
      /\ \A h \in DOMAIN issued : h \in DOMAIN issued'
  <2> HIDE DEF q
  <2> QED BY <1>1, <1>2, ChosenGenerationIssued
<1>5. /\ g \in retired => g \in straddled
      /\ \A p \in Primary : index[p] # None /\ index[p].generation = g => p = q.primary
      /\ \A u \in Tasks : pc[u] = "index" /\ key[u].generation = g
           => key[u].primary = q.primary
  <2>1. CASE index[q.primary] # None /\ index[q.primary].vary = names
    <3>1. g = index[q.primary].generation
      BY <2>1 DEF ChosenGeneration
    <3> HIDE DEF q, g
    <3> QED BY <1>1, <2>1, <3>1 DEF GenerationsOwned, RetiredUnlessStraddled
  <2>2. CASE ~(index[q.primary] # None /\ index[q.primary].vary = names)
    <3>1. g = Len(issued) + 1
      BY <2>2 DEF ChosenGeneration
    <3>2. Len(issued) + 1 \notin DOMAIN issued
      BY <1>2
    <3> HIDE DEF q, g
    <3>3. \A u \in Tasks : pc[u] = "index" => key[u].generation \in DOMAIN issued
      BY DEF InsertsAsIssued, Labels
    <3> QED BY <3>1, <3>2, <3>3 DEF GenerationsOwned, IndexAsIssued
  <2> QED BY <2>1, <2>2
<1> HIDE DEF q, g
<1>6. GenerationsOwned'
  <2>1. retired' \subseteq DOMAIN issued'
    BY <1>0, <1>4 DEF GenerationsOwned
  <2>2. ASSUME NEW u \in Tasks, pc'[u] = "index"
        PROVE  /\ \A p \in Primary : index'[p] # None
                    /\ index'[p].generation = key'[u].generation => p = key'[u].primary
               /\ \A v \in Tasks : pc'[v] = "index"
                    /\ key'[v].generation = key'[u].generation
                    => key'[v].primary = key'[u].primary
    <3>1. CASE u = t
      BY <1>0, <1>3, <1>5, <3>1
    <3>2. CASE u # t
      BY <1>0, <1>3, <1>5, <2>2, <3>2 DEF GenerationsOwned
    <3> QED BY <3>1, <3>2
  <2>3. \A p, o \in Primary :
          index'[p] # None /\ index'[o] # None /\ index'[p].generation = index'[o].generation
            => p = o
    BY <1>0 DEF GenerationsOwned
  <2> QED BY <2>1, <2>2, <2>3 DEF GenerationsOwned
<1>7. InsertsStraddle' /\ RetiredUnlessStraddled'
  BY <1>0, <1>3, <1>5 DEF InsertsStraddle, RetiredUnlessStraddled
<1>8. ResponsesLive'
  <2>1. /\ \A e \in entries : e.response.id \in Nat
        /\ \A u \in Tasks : pc[u] \in {"index", "entry"} => made[u].id \in Nat
    BY DEF TypeOK, Entry, Response, InsertsAsIssued
  <2>2. created \notin overwritten /\ overwritten \subseteq 0 .. created
    BY <1>2 DEF ResponsesLive
  <2>3. \A e \in entries : e.response.id < created' /\ e.response.id # created
    BY <1>2, <2>1 DEF ResponsesLive
  <2>4. \A u \in Tasks : pc[u] \in {"index", "entry"} =>
          made[u].id < created' /\ made[u].id # created
    BY <1>2, <2>1 DEF ResponsesLive
  <2>5. \A u \in Tasks : pc'[u] \in {"index", "entry"} =>
          made'[u].id < created' /\ made'[u].id \notin overwritten'
    BY <1>0, <1>2, <1>3, <2>2, <2>4 DEF ResponsesLive
  <2>6. \A u \in Tasks : pc'[u] \in {"index", "entry"} =>
          \A e \in entries' : e.response.id # made'[u].id
    BY <1>0, <1>3, <2>3 DEF ResponsesLive
  <2>7. \A u, v \in Tasks : pc'[u] \in {"index", "entry"} /\ pc'[v] \in {"index", "entry"}
          /\ made'[v].id = made'[u].id => v = u
    BY <1>3, <2>4 DEF ResponsesLive
  <2>8. overwritten' \subseteq 0 .. (created' - 1)
    BY <1>0, <1>2, <2>2
  <2> QED BY <1>0, <2>3, <2>5, <2>6, <2>7, <2>8 DEF ResponsesLive
<1> QED BY <1>6, <1>7, <1>8

(* The write of the index retires the generation it replaces, and no other *)
(* URI has that one.                                                       *)
LEMMA InsertIndexHistory ==
    ASSUME HistoryInv, NEW t \in Tasks, InsertIndex(t)
    PROVE  GenerationsOwned' /\ InsertsStraddle' /\ RetiredUnlessStraddled' /\ ResponsesLive'
<1> USE DEF HistoryInv, IInv
<1> DEFINE p == key[t].primary
           g == key[t].generation
<1>0. /\ pc[t] = "index"
      /\ index' = [index EXCEPT ![p] = [vary |-> made[t].names, generation |-> g]]
      /\ Retire(Outgoing(p, g))
      /\ pc' = [pc EXCEPT ![t] = "entry"]
      /\ UNCHANGED <<entries, issued, key, made, created, overwritten>>
  BY DEF InsertIndex
<1>1. p \in Primary /\ g \in DOMAIN issued
  BY <1>0 DEF InsertsAsIssued, Labels, TypeOK, ResponseKey
<1>2. /\ \A o \in Primary : index[o] # None /\ index[o].generation = g => o = p
      /\ \A u \in Tasks : pc[u] = "index" /\ key[u].generation = g => key[u].primary = p
      /\ g \in retired => g \in straddled
  BY <1>0 DEF GenerationsOwned, InsertsStraddle
<1>3. pc'[t] = "entry" /\ \A u \in Tasks \ {t} : pc'[u] = pc[u]
  BY <1>0 DEF TypeOK
<1>4. /\ index'[p] # None => index'[p].generation = g
      /\ \A o \in Primary : o # p => index'[o] = index[o]
  BY <1>0, <1>1 DEF TypeOK
<1>5. /\ retired' = retired \cup Outgoing(p, g) /\ straddled \subseteq straddled'
      /\ Outgoing(p, g) \subseteq DOMAIN issued /\ g \notin Outgoing(p, g)
      /\ \A o \in Primary : o # p /\ index[o] # None
           => index[o].generation \notin Outgoing(p, g)
      /\ \A u \in Tasks : pc[u] = "index" /\ key[u].generation \in retired'
           => key[u].generation \in straddled'
  <2> HIDE DEF p, g
  <2> QED BY <1>0, <1>1, RetireStraddles
<1> HIDE DEF p, g
<1>6. RetiredUnlessStraddled'
  BY <1>2, <1>4, <1>5 DEF RetiredUnlessStraddled
<1>7. InsertsStraddle'
  BY <1>0, <1>3, <1>5 DEF InsertsStraddle
<1>8. GenerationsOwned'
  <2>1. retired' \subseteq DOMAIN issued'
    BY <1>0, <1>5 DEF GenerationsOwned
  <2>2. ASSUME NEW a \in Primary, NEW b \in Primary,
               index'[a] # None, index'[b] # None,
               index'[a].generation = index'[b].generation
        PROVE  a = b
    BY <1>2, <1>4, <2>2 DEF GenerationsOwned
  <2>3. ASSUME NEW u \in Tasks, pc'[u] = "index"
        PROVE  /\ \A o \in Primary : index'[o] # None
                    /\ index'[o].generation = key'[u].generation => o = key'[u].primary
               /\ \A v \in Tasks : pc'[v] = "index"
                    /\ key'[v].generation = key'[u].generation
                    => key'[v].primary = key'[u].primary
    <3>1. pc[u] = "index" /\ key'[u] = key[u]
      BY <1>0, <1>3, <2>3
    <3>2. \A v \in Tasks : pc'[v] = "index" => pc[v] = "index" /\ key'[v] = key[v]
      BY <1>0, <1>3
    <3> QED BY <1>2, <1>4, <3>1, <3>2 DEF GenerationsOwned
  <2> QED BY <2>1, <2>2, <2>3 DEF GenerationsOwned
<1>9. ResponsesLive'
  BY <1>0, <1>3, ResponsesKept
<1> QED BY <1>6, <1>7, <1>8, <1>9

(* The write of the entry overwrites what is under the key, and what it    *)
(* overwrites is no longer stored.                                         *)
LEMMA InsertEntryHistory ==
    ASSUME HistoryInv, NEW t \in Tasks, InsertEntry(t)
    PROVE  GenerationsOwned' /\ InsertsStraddle' /\ RetiredUnlessStraddled' /\ ResponsesLive'
<1> USE DEF HistoryInv, IInv
<1> DEFINE new == [key |-> key[t], response |-> made[t]]
           gone == {e.response.id : e \in Found(key[t])}
<1>0. /\ pc[t] = "entry"
      /\ entries' = {e \in entries : e.key # key[t]} \cup {new}
      /\ overwritten' = overwritten \cup gone
      /\ pc' = [pc EXCEPT ![t] = "done"]
      /\ UNCHANGED <<index, issued, key, made, created, retired, straddled>>
  BY DEF InsertEntry
<1>1. pc'[t] = "done" /\ \A u \in Tasks \ {t} : pc'[u] = pc[u]
  BY <1>0 DEF TypeOK
<1>2. GenerationsOwned' /\ InsertsStraddle' /\ RetiredUnlessStraddled'
  BY <1>0, <1>1, GenerationsKept
<1>3. /\ made[t].id < created /\ made[t].id \notin overwritten
      /\ \A e \in entries : e.response.id # made[t].id
      /\ \A u \in Tasks : pc[u] \in {"index", "entry"} /\ made[u].id = made[t].id => u = t
  BY <1>0 DEF ResponsesLive
<1>4. /\ \A e \in entries : e.key # key[t] => e.response.id \notin gone
      /\ \A u \in Tasks : pc[u] \in {"index", "entry"} => made[u].id \notin gone
  BY DEF Found, ResponsesLive
<1>5. made[t].id \notin gone
  BY <1>3 DEF Found
<1>6. gone \subseteq 0 .. (created - 1)
  <2> SUFFICES ASSUME NEW e \in entries PROVE e.response.id \in 0 .. (created - 1)
    BY DEF Found
  <2>1. e.response.id \in Nat /\ created \in Nat
    BY DEF TypeOK, Entry, Response
  <2> QED BY <2>1 DEF ResponsesLive
<1>7. new.response = made[t]
  OBVIOUS
<1> HIDE DEF gone, new
<1>8. ResponsesLive'
  <2>1. \A u \in Tasks : pc'[u] \in {"index", "entry"} =>
          u # t /\ pc[u] \in {"index", "entry"} /\ made'[u] = made[u]
    BY <1>0, <1>1
  <2>2. overwritten' \subseteq 0 .. (created' - 1)
    BY <1>0, <1>6 DEF ResponsesLive
  <2>3. \A e \in entries' : e.response.id < created' /\ e.response.id \notin overwritten'
    BY <1>0, <1>3, <1>4, <1>5, <1>7 DEF ResponsesLive
  <2>4. \A e, f \in entries' : e.response.id = f.response.id => e = f
    BY <1>0, <1>3, <1>7 DEF ResponsesLive
  <2>5. \A u \in Tasks : pc'[u] \in {"index", "entry"} =>
          /\ made'[u].id < created' /\ made'[u].id \notin overwritten'
          /\ \A e \in entries' : e.response.id # made'[u].id
    BY <1>0, <1>3, <1>4, <1>7, <2>1 DEF ResponsesLive
  <2>6. \A u, v \in Tasks : pc'[u] \in {"index", "entry"} /\ pc'[v] \in {"index", "entry"}
          /\ made'[v].id = made'[u].id => v = u
    BY <2>1 DEF ResponsesLive
  <2> QED BY <2>2, <2>3, <2>4, <2>5, <2>6 DEF ResponsesLive
<1> QED BY <1>2, <1>8

(* invalidate retires the generation of its URI, which no other URI has.   *)
LEMMA InvalidateHistory ==
    ASSUME HistoryInv, NEW t \in Tasks, NEW p \in Primary, Invalidate(t, p)
    PROVE  GenerationsOwned' /\ InsertsStraddle' /\ RetiredUnlessStraddled' /\ ResponsesLive'
<1> USE DEF HistoryInv, IInv
<1>0. /\ index' = [index EXCEPT ![p] = None]
      /\ Retire(Outgoing(p, 0))
      /\ UNCHANGED <<entries, issued, pc, key, made, created, overwritten>>
  BY DEF Invalidate, locals
<1>1. /\ retired' = retired \cup Outgoing(p, 0) /\ straddled \subseteq straddled'
      /\ Outgoing(p, 0) \subseteq DOMAIN issued
      /\ \A o \in Primary : o # p /\ index[o] # None
           => index[o].generation \notin Outgoing(p, 0)
      /\ \A u \in Tasks : pc[u] = "index" /\ key[u].generation \in retired'
           => key[u].generation \in straddled'
  BY <1>0, RetireStraddles
<1>2. index'[p] = None /\ \A o \in Primary : o # p => index'[o] = index[o]
  BY <1>0 DEF TypeOK
<1>3. RetiredUnlessStraddled' /\ InsertsStraddle'
  BY <1>0, <1>1, <1>2 DEF RetiredUnlessStraddled, InsertsStraddle
<1>4. GenerationsOwned'
  BY <1>0, <1>1, <1>2 DEF GenerationsOwned
<1>5. ResponsesLive'
  BY <1>0, ResponsesKept
<1> QED BY <1>3, <1>4, <1>5

(* The steps that neither publish, retire, make nor overwrite anything:    *)
(* lookups, claims, checks, removals and the end of a task.                *)
LEMMA OthersHistory ==
    ASSUME HistoryInv,
           \/ \E t \in Tasks :
                \/ \E q \in Request : LookupIndex(t, q) \/ SkipLookup(t, q)
                \/ \E storable \in BOOLEAN : FreshenCheck(t, storable)
                \/ LookupEntry(t) \/ StartRefresh(t) \/ FreshenRemove(t) \/ Finish(t)
           \/ \E p \in Primary : EvictIndex(p)
           \/ \E e \in entries : EvictEntry(e)
    PROVE  GenerationsOwned' /\ InsertsStraddle' /\ RetiredUnlessStraddled' /\ ResponsesLive'
<1> USE DEF HistoryInv, IInv
<1>1. /\ UNCHANGED <<issued, retired, straddled, created, overwritten>>
      /\ entries' \subseteq entries
      /\ \A p \in Primary : index'[p] # None => index'[p] = index[p]
  BY DEF LookupIndex, SkipLookup, LookupEntry, StartRefresh, FreshenCheck, FreshenRemove,
         Finish, EvictIndex, EvictEntry, tables, history, TypeOK
<1>2. \A u \in Tasks : pc'[u] \in {"index", "entry"} =>
         pc'[u] = pc[u] /\ UNCHANGED <<key[u], made[u]>>
  BY DEF LookupIndex, SkipLookup, LookupEntry, StartRefresh, FreshenCheck, FreshenRemove,
         Finish, EvictIndex, EvictEntry, locals, TypeOK
<1>3. GenerationsOwned' /\ InsertsStraddle' /\ RetiredUnlessStraddled'
  BY <1>1, <1>2, GenerationsKept
<1>4. ResponsesLive'
  BY <1>1, <1>2, ResponsesKept
<1> QED BY <1>3, <1>4

(* HistoryInv holds in every reachable state, on any number of threads.    *)
THEOREM HistoryInductive == Spec => []HistoryInv
<1>1. HistoryInv /\ [Next]_vars => HistoryInv'
  <2> SUFFICES ASSUME HistoryInv, [Next]_vars PROVE HistoryInv'
    OBVIOUS
  <2>1. IInv'
    BY NextIInv DEF HistoryInv
  <2>2. CASE Next
    <3>1. GenerationsOwned' /\ InsertsStraddle' /\ RetiredUnlessStraddled' /\ ResponsesLive'
      BY <2>2, ChooseGenerationHistory, InsertIndexHistory, InsertEntryHistory,
         InvalidateHistory, OthersHistory DEF Next, Step
    <3> QED BY <2>1, <3>1 DEF HistoryInv
  <2>3. CASE UNCHANGED vars
    BY <2>1, <2>3 DEF vars, tables, locals, history, HistoryInv, GenerationsOwned,
         InsertsStraddle, RetiredUnlessStraddled, ResponsesLive
  <2> QED BY <2>2, <2>3
<1> QED BY InitHistory, <1>1, PTL DEF Spec

(* A generation that was replaced or invalidated comes back only through   *)
(* an insert that had read the index before and wrote it after, whatever   *)
(* the threads (insert_response, invalidate).                              *)
THEOREM RetiredForGood == Spec => []RetiredUnlessStraddled
<1>1. HistoryInv => RetiredUnlessStraddled
  BY DEF HistoryInv
<1> QED BY <1>1, HistoryInductive, PTL

(* A step moves one task, and only freshen's check takes it from its       *)
(* lookup to the replacement or the removal of its entry.                  *)
LEMMA StepMovesOne ==
    ASSUME TypeOK, NEW t \in Tasks, Step(t)
    PROVE  \A u \in Tasks \ {t} : pc'[u] = pc[u]
  BY DEF TypeOK, Step, LookupIndex, SkipLookup, LookupEntry, StartRefresh,
         BeginInsert, FreshenInsert, ChooseGeneration, InsertIndex, InsertEntry,
         FreshenCheck, FreshenRemove, Finish, Invalidate, locals

LEMMA StepFromReady ==
    ASSUME TypeOK, NEW t \in Tasks, Step(t), pc'[t] \in {"freshen", "remove"},
           pc[t] = "ready"
    PROVE  \E storable \in BOOLEAN : FreshenCheck(t, storable)
<1>1. ASSUME NEW names \in VaryLists, BeginInsert(t, names) \/ FreshenInsert(t, names)
      PROVE  pc'[t] = "index"
  BY <1>1 DEF TypeOK, BeginInsert, FreshenInsert, ChooseGeneration
<1>2. CASE Finish(t) \/ StartRefresh(t)
  BY <1>2 DEF TypeOK, Finish, StartRefresh
<1> QED BY <1>1, <1>2 DEF Step, LookupIndex, SkipLookup, LookupEntry, InsertIndex,
           InsertEntry, FreshenRemove, Invalidate

(* freshen never takes an entry that was overwritten for current, whatever *)
(* the threads (freshen).                                                  *)
THEOREM OverwrittenKept == Spec => OverwrittenLeftAlone
<1>1. HistoryInv /\ [Next]_vars =>
        [\A t \in Tasks : pc[t] = "ready" /\ pc'[t] \in {"freshen", "remove"}
            => held[t].id \notin overwritten]_vars
  <2> SUFFICES ASSUME HistoryInv, Next, NEW t \in Tasks,
                      pc[t] = "ready", pc'[t] \in {"freshen", "remove"}
               PROVE  held[t].id \notin overwritten
    OBVIOUS
  <2>0. TypeOK
    BY DEF HistoryInv, IInv
  <2>1. \E storable \in BOOLEAN : FreshenCheck(t, storable)
    <3>1. ~ UNCHANGED pc
      OBVIOUS
    <3>2. PICK u \in Tasks : Step(u)
      BY <3>1 DEF Next, EvictIndex, EvictEntry, locals
    <3>3. u = t
      BY <2>0, <3>2, StepMovesOne
    <3> QED BY <2>0, <3>2, <3>3, StepFromReady
  <2>2. Current(t)
    BY <2>0, <2>1 DEF TypeOK, FreshenCheck
  <2> QED BY <2>2 DEF HistoryInv, Current, Found, ResponsesLive
<1> QED BY <1>1, HistoryInductive, PTL DEF Spec, OverwrittenLeftAlone
=============================================================================
