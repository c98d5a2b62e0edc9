------------------------------- MODULE Store -------------------------------
(***************************************************************************)
(* The response store (src/cache.rs, Store): which stored response answers *)
(* a request, and what lookups, inserts, revalidations and invalidations   *)
(* of several worker threads do to each other.                             *)
(*                                                                         *)
(* The store is two concurrent maps, an atomic counter and a locked set.   *)
(* Each call on one of them is one step; between two calls of one          *)
(* operation, tasks on other workers may run, and tasks on the same worker *)
(* may not, because no operation awaits.  Time is left out: that a found   *)
(* response is stale, and that an entry is gone, may happen at any moment. *)
(***************************************************************************)
EXTENDS Naturals, Sequences, FiniteSets

CONSTANTS Primary,      \* the primary keys
          Header,       \* the request field names that Vary may list
          Value,        \* the field values, the absent one included
          VaryLists,    \* the lists of field names that responses vary on
          Tasks,        \* request handlers and background refreshes
          Workers,      \* the server's threads
          WorkerOf,     \* the thread each task runs on
          MaxResponses, \* bound on the responses that are ever stored
          None

Fields == [Header -> Value]
Request == [primary : Primary, fields : Fields]
Response == [id : Nat, request : Request, names : VaryLists]
Index == [vary : VaryLists, generation : Nat]
ResponseKey == [primary : Primary, generation : Nat, vary : Seq(Value)]
Entry == [key : ResponseKey, response : Response]

ASSUME StoreAssumption ==
    /\ VaryLists \subseteq Seq(Header)
    /\ WorkerOf \in [Tasks -> Workers]
    /\ MaxResponses \in Nat
    /\ None \notin Index \cup Request \cup Response \cup ResponseKey

VARIABLES
    index,      \* index[p]: the Vary names and generation known for p, or None
    entries,    \* the stored responses under their keys
    issued,     \* issued[g]: the names generation g was issued for; the counter
                \* is the length of this sequence
    refreshing, \* the keys of the stored responses under background refresh
    pc,         \* pc[t]: where t is in the operation it is performing
    request,    \* request[t]: the request t handles
    key,        \* key[t]: the key t looks up, found, or inserts under
    held,       \* held[t]: the stored response t found
    made,       \* made[t]: the response t is inserting
    guard,      \* guard[t]: the key of the RefreshGuard t holds
    created,    \* how many responses have been made, for their identities
    retired,    \* history: generations that were replaced or invalidated
    straddled,  \* history: those of them that an insert had chosen and was yet
                \* to write when they were
    overwritten,\* history: responses whose own key another response took
    superseded  \* history: responses replaced by another one or invalidated

tables == <<index, entries, issued, refreshing>>
locals == <<pc, request, key, held, made, guard>>
history == <<retired, straddled, overwritten, superseded>>
vars == <<tables, locals, created, history>>

(***************************************************************************)
(* idle: between requests.  lookup: has read the index.  ready: has looked *)
(* the request up.  freshen: found its entry current, and may store the    *)
(* updated one.  remove: found it current, and may not.  index, entry: is  *)
(* about to insert into that map.  done: has finished with the store.      *)
(***************************************************************************)
Inside == {"lookup", "freshen", "remove", "index", "entry"}
Steps == Inside \cup {"idle", "ready", "done"}

Init ==
    /\ index = [p \in Primary |-> None]
    /\ entries = {}
    /\ issued = <<>>
    /\ refreshing = {}
    /\ pc = [t \in Tasks |-> "idle"]
    /\ request = [t \in Tasks |-> None]
    /\ key = [t \in Tasks |-> None]
    /\ held = [t \in Tasks |-> None]
    /\ made = [t \in Tasks |-> None]
    /\ guard = [t \in Tasks |-> None]
    /\ created = 0
    /\ retired = {} /\ straddled = {} /\ overwritten = {} /\ superseded = {}

(* Store operations are synchronous, so a worker finishes one before it    *)
(* polls another task.                                                     *)
MayRun(t) ==
    \A u \in Tasks \ {t} : WorkerOf[u] = WorkerOf[t] => pc[u] \notin Inside

(* The values alone, in the order of the names: not which field each is of *)
vary_values(names, fields) == [i \in DOMAIN names |-> fields[names[i]]]

KeyFor(p, g, names, fields) ==
    [primary |-> p, generation |-> g, vary |-> vary_values(names, fields)]

Found(k) == {e \in entries : e.key = k}

-----------------------------------------------------------------------------
(* lookup and the tasks that use it *)

(* Store::lookup reads the index.                                          *)
LookupIndex(t, q) ==
    /\ pc[t] = "idle" /\ MayRun(t)
    /\ request' = [request EXCEPT ![t] = q]
    /\ \/ /\ index[q.primary] = None
          /\ pc' = [pc EXCEPT ![t] = "ready"]
          /\ UNCHANGED key
       \/ /\ index[q.primary] # None
          /\ pc' = [pc EXCEPT ![t] = "lookup"]
          /\ key' = [key EXCEPT ![t] =
                KeyFor(q.primary, index[q.primary].generation,
                       index[q.primary].vary, q.fields)]
    /\ UNCHANGED <<tables, held, made, guard, created, history>>

(* Store::lookup reads the entry.                                          *)
LookupEntry(t) ==
    /\ pc[t] = "lookup" /\ MayRun(t)
    /\ pc' = [pc EXCEPT ![t] = "ready"]
    /\ \/ \E e \in Found(key[t]) : held' = [held EXCEPT ![t] = e.response]
       \/ Found(key[t]) = {} /\ UNCHANGED held
    /\ UNCHANGED <<tables, request, key, made, guard, created, history>>

(* A request with no-cache, which the cache may not answer, but whose      *)
(* response it may store.                                                  *)
SkipLookup(t, q) ==
    /\ pc[t] = "idle" /\ MayRun(t)
    /\ request' = [request EXCEPT ![t] = q]
    /\ pc' = [pc EXCEPT ![t] = "ready"]
    /\ UNCHANGED <<tables, key, held, made, guard, created, history>>

(* Mutant of Finish: the RefreshGuard is forgotten rather than dropped.    *)
ForgetGuard(t) ==
    /\ pc[t] \in {"ready", "done"} /\ MayRun(t)
    /\ pc' = [pc EXCEPT ![t] = "idle"]
    /\ request' = [request EXCEPT ![t] = None]
    /\ key' = [key EXCEPT ![t] = None]
    /\ held' = [held EXCEPT ![t] = None]
    /\ made' = [made EXCEPT ![t] = None]
    /\ guard' = [guard EXCEPT ![t] = None]
    /\ UNCHANGED <<tables, created, history>>

(* The task ends, whether or not it stored anything, and drops what it     *)
(* holds, a RefreshGuard included.                                         *)
Finish(t) ==
    /\ pc[t] \in {"ready", "done"} /\ MayRun(t)
    /\ pc' = [pc EXCEPT ![t] = "idle"]
    /\ request' = [request EXCEPT ![t] = None]
    /\ key' = [key EXCEPT ![t] = None]
    /\ held' = [held EXCEPT ![t] = None]
    /\ made' = [made EXCEPT ![t] = None]
    /\ guard' = [guard EXCEPT ![t] = None]
    /\ refreshing' = refreshing \ {guard[t]}
    /\ UNCHANGED <<index, entries, issued, created, history>>

(* Store::start_refresh succeeds, and t is from now on the background task *)
(* that owns the guard.  When it fails the request is answered and ends.   *)
StartRefresh(t) ==
    /\ pc[t] = "ready" /\ MayRun(t)
    /\ held[t] # None /\ guard[t] = None
    /\ key[t] \notin refreshing
    /\ refreshing' = refreshing \cup {key[t]}
    /\ guard' = [guard EXCEPT ![t] = key[t]]
    /\ UNCHANGED <<index, entries, issued, pc, request, key, held, made,
                   created, history>>

-----------------------------------------------------------------------------
(* insert_response *)

(* Mutant of ChosenGeneration: the names are not compared.                 *)
ReusedGeneration(p, names) ==
    IF index[p] # None THEN index[p].generation ELSE Len(issued) + 1

(* Mutant of ChosenGeneration: the counter is read and not advanced.       *)
LoadedGeneration(p, names) ==
    IF index[p] # None /\ index[p].vary = names
    THEN index[p].generation
    ELSE IF issued = <<>> THEN 1 ELSE Len(issued)

(* The generation the response is stored under: that of the index when the *)
(* names agree, and else the next of the counter.                          *)
ChosenGeneration(p, names) ==
    IF index[p] # None /\ index[p].vary = names
    THEN index[p].generation
    ELSE Len(issued) + 1

(* The generations issued once the response has its own.                   *)
IssuedFor(p, names) ==
    IF ChosenGeneration(p, names) = Len(issued) + 1 THEN Append(issued, names) ELSE issued

(* insert_response reads the index and, if need be, advances the counter.  *)
(* The two calls are one step: a generation is only compared for equality, *)
(* so how other tasks' increments interleave with this one cannot matter.  *)
ChooseGeneration(t, names) ==
    LET q == request[t]
        g == ChosenGeneration(q.primary, names)
    IN  /\ created' = created + 1
        /\ made' = [made EXCEPT ![t] =
              [id |-> created, request |-> q, names |-> names]]
        /\ key' = [key EXCEPT ![t] = KeyFor(q.primary, g, names, q.fields)]
        /\ issued' = IssuedFor(q.primary, names)
        /\ pc' = [pc EXCEPT ![t] = "index"]

(* There is room for one more response besides those already decided on.   *)
Room == created + Cardinality({t \in Tasks : pc[t] = "freshen"}) < MaxResponses

(* A whole response arrived and is stored (store_plan's finish callback).  *)
BeginInsert(t, names) ==
    /\ pc[t] = "ready" /\ MayRun(t) /\ Room
    /\ ChooseGeneration(t, names)
    /\ held' = [held EXCEPT ![t] = None]
    /\ UNCHANGED <<index, entries, refreshing, request, guard, history>>

(* The generations of p that give way when the index changes to g.         *)
Outgoing(p, g) ==
    IF index[p] # None /\ index[p].generation # g THEN {index[p].generation} ELSE {}

(* The index gives generations up.                                         *)
Retire(generations) ==
    /\ retired' = retired \cup generations
    /\ straddled' = straddled \cup
          {g \in generations : \E u \in Tasks : pc[u] = "index" /\ key[u].generation = g}

InsertIndex(t) ==
    /\ pc[t] = "index" /\ MayRun(t)
    /\ LET p == key[t].primary
           g == key[t].generation
       IN  /\ index' = [index EXCEPT ![p] =
                 [vary |-> made[t].names, generation |-> g]]
           /\ Retire(Outgoing(p, g))
    /\ pc' = [pc EXCEPT ![t] = "entry"]
    /\ UNCHANGED <<entries, issued, refreshing, request, key, held, made, guard,
                   created, overwritten, superseded>>

(* Of the other stored responses for a URI, the one under the same key is  *)
(* overwritten, and those of other generations have been replaced.         *)
InsertEntry(t) ==
    /\ pc[t] = "entry" /\ MayRun(t)
    /\ entries' = {e \in entries : e.key # key[t]}
                    \cup {[key |-> key[t], response |-> made[t]]}
    /\ overwritten' = overwritten \cup {e.response.id : e \in Found(key[t])}
    /\ superseded' = superseded \cup
          {e.response.id : e \in {x \in entries :
              /\ x.key.primary = key[t].primary
              /\ x.key = key[t] \/ x.key.generation # key[t].generation}}
    /\ pc' = [pc EXCEPT ![t] = "done"]
    /\ UNCHANGED <<index, issued, refreshing, request, key, held, made, guard,
                   created, retired, straddled>>

-----------------------------------------------------------------------------
(* freshen *)

(* Mutant of Current: any response under the key will do.                  *)
SomethingStored(t) == Found(key[t]) # {}

(* The entry under the looked-up key is the very response that was found.  *)
Current(t) == \E e \in Found(key[t]) : e.response = held[t]

(* freshen decides what to do with the entry.  storable: whether the       *)
(* response, updated from the 304, may be stored.                          *)
FreshenCheck(t, storable) ==
    /\ pc[t] = "ready" /\ MayRun(t)
    /\ held[t] # None
    /\ Current(t) /\ storable => Room
    /\ pc' = [pc EXCEPT ![t] =
          CASE Current(t) /\ storable  -> "freshen"
            [] Current(t) /\ ~storable -> "remove"
            [] OTHER                   -> "done"]
    /\ UNCHANGED <<tables, request, key, held, made, guard, created, history>>

(* freshen hands the updated response to insert_response.                  *)
FreshenInsert(t, names) ==
    /\ pc[t] = "freshen" /\ MayRun(t)
    /\ ChooseGeneration(t, names)
    /\ UNCHANGED <<index, entries, refreshing, request, held, guard, history>>

(* freshen removes the entry.                                              *)
FreshenRemove(t) ==
    /\ pc[t] = "remove" /\ MayRun(t)
    /\ entries' = {e \in entries : e.key # key[t]}
    /\ pc' = [pc EXCEPT ![t] = "done"]
    /\ UNCHANGED <<index, issued, refreshing, request, key, held, made, guard,
                   created, history>>

-----------------------------------------------------------------------------
(* invalidate, and the library's own removals *)

(* Store::invalidate, after an unsafe request succeeded.                   *)
Invalidate(t, p) ==
    /\ pc[t] = "idle" /\ MayRun(t)
    /\ index' = [index EXCEPT ![p] = None]
    /\ Retire(Outgoing(p, 0))
    /\ superseded' = superseded \cup
          {e.response.id : e \in {x \in entries : x.key.primary = p}}
    /\ UNCHANGED <<entries, issued, refreshing, locals, created, overwritten>>

(* moka expires or evicts the index of a URI.                              *)
EvictIndex(p) ==
    /\ index[p] # None
    /\ index' = [index EXCEPT ![p] = None]
    /\ UNCHANGED <<entries, issued, refreshing, locals, created, history>>

(* moka expires or evicts an entry, or does not admit it.                  *)
EvictEntry(e) ==
    /\ entries' = entries \ {e}
    /\ UNCHANGED <<index, issued, refreshing, locals, created, history>>

Step(t) ==
    \/ \E q \in Request : LookupIndex(t, q) \/ SkipLookup(t, q)
    \/ LookupEntry(t)
    \/ StartRefresh(t)
    \/ \E names \in VaryLists : BeginInsert(t, names) \/ FreshenInsert(t, names)
    \/ InsertIndex(t)
    \/ InsertEntry(t)
    \/ \E storable \in BOOLEAN : FreshenCheck(t, storable)
    \/ FreshenRemove(t)
    \/ Finish(t)
    \/ \E p \in Primary : Invalidate(t, p)

Next ==
    \/ \E t \in Tasks : Step(t)
    \/ \E p \in Primary : EvictIndex(p)
    \/ \E e \in entries : EvictEntry(e)

Spec == Init /\ [][Next]_vars

-----------------------------------------------------------------------------
(* Every variable has its type.                                            *)
TypeOK ==
    /\ index \in [Primary -> Index \cup {None}]
    /\ entries \subseteq Entry
    /\ issued \in Seq(VaryLists)
    /\ refreshing \subseteq ResponseKey
    /\ pc \in [Tasks -> Steps]
    /\ request \in [Tasks -> Request \cup {None}]
    /\ key \in [Tasks -> ResponseKey \cup {None}]
    /\ held \in [Tasks -> Response \cup {None}]
    /\ made \in [Tasks -> Response \cup {None}]
    /\ guard \in [Tasks -> ResponseKey \cup {None}]
    /\ created \in Nat

(* "the stored response for `primary` that matches the request's `Vary`    *)
(* fields" (lookup): the response that a lookup found was made for the     *)
(* same URI by a request with the same values for the fields that this     *)
(* very response varies on, whatever was inserted, replaced or evicted     *)
(* between the lookup's two reads.  The key holds values without their     *)
(* names, so this rests on the generations.                                *)
HeldMatches ==
    \A t \in Tasks : held[t] # None =>
        /\ held[t].request.primary = request[t].primary
        /\ vary_values(held[t].names, held[t].request.fields)
             = vary_values(held[t].names, request[t].fields)

(* "the only background revalidation of a stored response. dropping it     *)
(* lets the next stale request start another" (RefreshGuard): two tasks    *)
(* never refresh one key, and every claimed key has a task that will drop  *)
(* it, so no key is locked out of refreshes.                               *)
RefreshClaims ==
    /\ \A t \in Tasks : guard[t] # None => guard[t] \in refreshing
    /\ \A t, u \in Tasks : guard[t] # None /\ guard[t] = guard[u] => t = u
    /\ \A k \in refreshing : \E t \in Tasks : guard[t] = k

(* "a new generation makes every older variant unreachable" (Index), and   *)
(* invalidate "makes every stored response for `primary` unreachable": the *)
(* index never returns to a generation that was replaced or invalidated.   *)
(* Two threads refute it: insert_response reads the index and writes it    *)
(* back in two calls.                                                      *)
RetiredStaysRetired ==
    \A p \in Primary : index[p] # None => index[p].generation \notin retired

(* What the generations do guarantee on any number of threads: only an     *)
(* insert that was between those two calls when its generation was retired *)
(* can bring that one back.  Every insert that reads the index later, and  *)
(* every 304 and lookup, leaves it out of reach.                           *)
RetiredUnlessStraddled ==
    \A p \in Primary : index[p] # None /\ index[p].generation \in retired
        => index[p].generation \in straddled

(* freshen: "an entry that another response has replaced since the lookup  *)
(* is left alone".  However long the origin took for its 304, and whatever *)
(* other threads stored meanwhile, a task that finds its entry current,    *)
(* and goes on to replace or remove what is under the key, holds one that  *)
(* nothing had overwritten when it looked.                                 *)
OverwrittenLeftAlone ==
    [][\A t \in Tasks : pc[t] = "ready" /\ pc'[t] \in {"freshen", "remove"}
          => held[t].id \notin overwritten]_vars

(* The same until the update is stored.  Two threads refute it: freshen    *)
(* checks and inserts in two calls.                                        *)
OverwrittenNotRestored ==
    \A t \in Tasks : pc[t] \in {"freshen", "index", "entry"} /\ held[t] # None
        => held[t].id \notin overwritten

(* The same of an entry that is still under its key, with what             *)
(* insert_response says of replacing, "a response whose Vary names differ  *)
(* from the stored one's replaces every stored variant", and invalidate of *)
(* itself, "makes every stored response for `primary` unreachable": a late *)
(* 304 does not bring such an entry's body back.                           *)
SupersededLeftAlone ==
    \A t \in Tasks : pc[t] \in {"freshen", "index", "entry"} /\ held[t] # None
        => held[t].id \notin superseded

-----------------------------------------------------------------------------
(* What HeldMatches rests on: one generation, one list of names.           *)

(* k is a key for r: it has the values of the names of r's generation.     *)
Labels(k, r) ==
    /\ k.generation \in DOMAIN issued
    /\ issued[k.generation] = r.names
    /\ k.primary = r.request.primary
    /\ k.vary = vary_values(r.names, r.request.fields)

IndexAsIssued ==
    \A p \in Primary : index[p] # None =>
        /\ index[p].generation \in DOMAIN issued
        /\ issued[index[p].generation] = index[p].vary

EntriesAsIssued == \A e \in entries : Labels(e.key, e.response)

InsertsAsIssued ==
    \A t \in Tasks : pc[t] \in {"index", "entry"} =>
        key[t] # None /\ made[t] # None /\ Labels(key[t], made[t])

LookupsAsIssued ==
    \A t \in Tasks : pc[t] = "lookup" =>
        /\ key[t] # None
        /\ key[t].generation \in DOMAIN issued
        /\ key[t].primary = request[t].primary
        /\ key[t].vary = vary_values(issued[key[t].generation], request[t].fields)

TasksOpen ==
    \A t \in Tasks :
        /\ pc[t] # "idle" => request[t] # None
        /\ pc[t] \in {"idle", "lookup"} => held[t] = None
        /\ held[t] # None => key[t] # None

(* The inductive invariant: the index, the entries and every task in the   *)
(* middle of a lookup or an insert agree on the names of each generation   *)
(* (lookup and insert_response).                                           *)
IInv ==
    /\ TypeOK
    /\ IndexAsIssued
    /\ EntriesAsIssued
    /\ InsertsAsIssued
    /\ LookupsAsIssued
    /\ TasksOpen
    /\ HeldMatches

-----------------------------------------------------------------------------
(* What RetiredUnlessStraddled and OverwrittenLeftAlone rest on.           *)

(* A generation is issued once, for one URI.                               *)
GenerationsOwned ==
    /\ retired \subseteq DOMAIN issued
    /\ \A p, o \in Primary :
         index[p] # None /\ index[o] # None /\ index[p].generation = index[o].generation
           => p = o
    /\ \A t \in Tasks : pc[t] = "index" =>
         /\ \A p \in Primary : index[p] # None
              /\ index[p].generation = key[t].generation => p = key[t].primary
         /\ \A u \in Tasks : pc[u] = "index"
              /\ key[u].generation = key[t].generation => key[u].primary = key[t].primary

(* An insert on its way to the index with a retired generation straddles   *)
(* its retirement.                                                         *)
InsertsStraddle ==
    \A t \in Tasks : pc[t] = "index" /\ key[t].generation \in retired
        => key[t].generation \in straddled

(* What is stored, or about to be, has an identity of its own that was not *)
(* overwritten.                                                            *)
ResponsesLive ==
    /\ overwritten \subseteq 0 .. (created - 1)
    /\ \A e \in entries : e.response.id < created /\ e.response.id \notin overwritten
    /\ \A e, f \in entries : e.response.id = f.response.id => e = f
    /\ \A t \in Tasks : pc[t] \in {"index", "entry"} =>
         /\ made[t].id < created /\ made[t].id \notin overwritten
         /\ \A e \in entries : e.response.id # made[t].id
         /\ \A u \in Tasks : pc[u] \in {"index", "entry"} /\ made[u].id = made[t].id
              => u = t

(* The inductive invariant of generations and identities, on any number of *)
(* threads (insert_response, invalidate and freshen).                      *)
HistoryInv ==
    /\ IInv
    /\ GenerationsOwned /\ InsertsStraddle /\ RetiredUnlessStraddled
    /\ ResponsesLive

=============================================================================
