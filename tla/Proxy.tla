------------------------------- MODULE Proxy -------------------------------
(***************************************************************************)
(* The life of proxied requests (src/proxy.rs) over the response store     *)
(* (src/cache.rs) and the coalescing map (src/coalesce.rs, module          *)
(* Flights, whose variables and actions are used here).                    *)
(*                                                                         *)
(* A store operation is one step here; module Store takes them apart.      *)
(* Responses do not vary on request fields, so a key of the store is a URI *)
(* and a generation.  The coalescing key (flight_key: the URI, and the     *)
(* request's values for the Vary names known for it) is a URI too: the     *)
(* requests here have the same values, as requests with other values       *)
(* neither wait for each other nor find each other's responses.  Durations *)
(* count in clock ticks, timeouts may strike at any moment.                *)
(***************************************************************************)
EXTENDS Naturals, FiniteSets

CONSTANTS Keys,     \* the URIs
          Requests, \* the requests, each of which arrives at most once
          Kinds,    \* what a request may be
          Heads,    \* what the origin may answer
          CacheTtl, \* --cache-ttl-seconds
          MaxTime,  \* bound on the clock
          None, NoFlight, NoKey

(* max_age is None or a number.  no_store also stands for the malformed    *)
(* directives and method-override fields that rule out the same things.    *)
Kind == [method : {"GET", "HEAD", "POST"}, no_cache : BOOLEAN, no_store : BOOLEAN,
         max_age : Nat \cup {None}, credentials : BOOLEAN, conditional : BOOLEAN]

(* status: ok is a success or a redirection other than 304, error is one   *)
(* of ERROR_STATUSES, and refused is any other.  cacheable: the response   *)
(* itself does not rule out storing it.  For a 304 the fields are those of *)
(* the stored response updated from it.  length: whether there is a        *)
(* Content-Length, and whether a body of that length fits the store.       *)
Head == [status : {"ok", "not_modified", "refused", "error"}, cacheable : BOOLEAN,
         public : BOOLEAN, lifetime : Nat, age : Nat, while_revalidate : Nat,
         if_error : Nat, must_revalidate : BOOLEAN, validator : BOOLEAN,
         length : {"none", "fits", "over"}]

(* A stored response, with the request that fetched it; what the           *)
(* properties need to know of one that was served; and a refresh.          *)
Stored == [id : Nat, generation : Nat, head : Head, at : Nat, of : Kind]
Source == [head : Head, at : Nat, of : Kind]
Labels == {"HIT", "COALESCED", "STALE", "REVALIDATED", "MISS", "ERROR"}
Outcome == [label : Labels, from : Source \cup {None}]
Refresh == [at : {"await", "body"}, entry : Stored, head : Head \cup {None}]

ASSUME ProxyAssumption ==
    /\ Kinds \subseteq Kind /\ Heads \subseteq Head
    /\ CacheTtl \in Nat \ {0} /\ MaxTime \in Nat
    /\ None \notin Nat \cup Kind \cup Head \cup Stored \cup Source
                   \cup Outcome \cup Refresh
    /\ NoFlight \notin Requests /\ NoKey \notin Keys

VARIABLES
    in_flight, senders, role, guard, waiter, \* the coalescing map: Flights
    now,         \* the clock
    index,       \* index[k]: the generation the store knows for k, or 0
    entries,     \* entries[k]: the stored responses for k, of all generations
    generation,  \* the store's counter
    made,        \* how many responses were stored, for their identities
    refreshing,  \* the keys whose background refresh is claimed
    pc,          \* pc[r]: where the handler of r is
    kind,        \* kind[r]: what r is
    key,         \* key[r]: the URI that r asks for
    stale,       \* stale[r]: the stored response r takes to the origin
    copy,        \* copy[r]: the head of the response whose body is being copied
    served,      \* served[r]: how r was answered, and from which response
    bg,          \* bg[r]: the background refresh that r started
    revalidations, \* the counter of that name
    uncounted    \* the origin requests that were sent and are not in
                 \* shadowstep_origin_requests_total

F == INSTANCE Flights

(* new: has not looked the request up.  join: found no answer.  wait:       *)
(* follows.  relook: looks again, as a leader or after its wait.  send,    *)
(* await: at the origin.  body: the response streams.  done, left: ended.  *)
Places == {"new", "join", "wait", "relook", "send", "await", "body", "done", "left"}

flightVars == <<in_flight, senders, role, guard, waiter>>
storeVars == <<index, entries, generation, made>>
taskVars == <<pc, kind, key, stale, copy, served>>
backgroundVars == <<refreshing, bg>>
metricVars == <<revalidations, uncounted>>
vars == <<flightVars, now, storeVars, taskVars, backgroundVars, metricVars>>

Init ==
    /\ F!Init
    /\ now = 0
    /\ index = [k \in Keys |-> 0]
    /\ entries = [k \in Keys |-> {}]
    /\ generation = 0 /\ made = 0
    /\ refreshing = {}
    /\ pc = [r \in Requests |-> "new"]
    /\ kind \in [Requests -> Kinds]
    /\ key \in [Requests -> Keys]
    /\ stale = [r \in Requests |-> None]
    /\ copy = [r \in Requests |-> None]
    /\ served = [r \in Requests |-> None]
    /\ bg = [r \in Requests |-> None]
    /\ revalidations = 0 /\ uncounted = 0

-----------------------------------------------------------------------------
(* RequestPolicy *)

may_serve(q) == q.method \in {"GET", "HEAD"} /\ ~q.no_store /\ ~q.no_cache

may_store(q) == q.method = "GET" /\ ~q.no_store

may_serve_stale(q) == q.max_age = None

may_coalesce(q) == may_serve(q) /\ ~q.credentials /\ ~q.conditional

may_lead(q) == may_coalesce(q) /\ may_store(q)

(* Mutant of storable: credentials are not looked at.                      *)
storable_by_anyone(q, h) ==
    may_store(q) /\ h.status \in {"ok", "refused"} /\ h.cacheable /\ h.lifetime > h.age

storable(q, h) ==
    /\ may_store(q)
    /\ h.status \in {"ok", "refused"} /\ h.cacheable
    /\ q.credentials => h.public
    /\ h.lifetime > h.age

-----------------------------------------------------------------------------
(* StoredResponse *)

Least(a, b) == IF a < b THEN a ELSE b
Most(a, b) == IF a > b THEN a ELSE b

Ttl(x) == Least(x.head.lifetime - x.head.age, CacheTtl)

Elapsed(x) == now - x.at

is_fresh(x) == Elapsed(x) < Ttl(x)

age(x) == x.head.age + Elapsed(x)

(* Mutant of stale_within: must-revalidate is not looked at.               *)
stale_for(x, window) == ~is_fresh(x) /\ Elapsed(x) - Ttl(x) < window

stale_within(x, window) ==
    /\ ~x.head.must_revalidate
    /\ ~is_fresh(x)
    /\ Elapsed(x) - Ttl(x) < window

(* How long the store keeps a response once it is stale.                   *)
Grace(x) ==
    LET windows == IF x.head.must_revalidate THEN 0
                   ELSE Most(x.head.while_revalidate, x.head.if_error)
        revalidation == IF x.head.validator THEN CacheTtl ELSE 0
    IN  Least(Most(windows, revalidation), CacheTtl)

(* moka returns nothing that has expired.                                  *)
Kept(x) == Elapsed(x) < Ttl(x) + Grace(x)

-----------------------------------------------------------------------------
(* Store *)

(* What Store::lookup finds: one response or none.                         *)
Found(k) == {x \in entries[k] : x.generation = index[k] /\ Kept(x)}

(* Mutant of Insert: the response is put beside the one it replaces.       *)
InsertBeside(k, q, h) ==
    LET g == IF index[k] # 0 THEN index[k] ELSE generation + 1
    IN  /\ index' = [index EXCEPT ![k] = g]
        /\ generation' = Most(generation, g)
        /\ made' = made + 1
        /\ entries' = [entries EXCEPT ![k] = @ \cup
              {[id |-> made, generation |-> g, head |-> h, at |-> now, of |-> q]}]

(* Store::insert_response.                                                 *)
Insert(k, q, h) ==
    LET g == IF index[k] # 0 THEN index[k] ELSE generation + 1
    IN  /\ index' = [index EXCEPT ![k] = g]
        /\ generation' = Most(generation, g)
        /\ made' = made + 1
        /\ entries' = [entries EXCEPT ![k] = {x \in @ : x.generation # g} \cup
              {[id |-> made, generation |-> g, head |-> h, at |-> now, of |-> q]}]

(* Store::freshen for the entry x, by a 304 that updates its head to h.    *)
Freshen(k, q, x, h) ==
    LET current == x \in entries[k] /\ Kept(x)
        updated == [h EXCEPT !.status = x.head.status]
    IN  \/ current /\ storable(q, updated) /\ Insert(k, q, updated)
        \/ /\ current /\ ~storable(q, updated)
           /\ entries' = [entries EXCEPT ![k] = @ \ {x}]
           /\ UNCHANGED <<index, generation, made>>
        \/ ~current /\ UNCHANGED storeVars

-----------------------------------------------------------------------------
(* The flight a request leads *)

(* Mutant of ReleaseFlight: whoever leaves takes the key out of the map.   *)
ReleaseKey(r) ==
    /\ in_flight' = [in_flight EXCEPT ![key[r]] = NoFlight]
    /\ role' = [role EXCEPT ![r] = IF @ = "lead" THEN "ending" ELSE @]
    /\ UNCHANGED <<senders, guard, waiter>>

(* The guard is dropped: its drop begins in this step and its sender goes  *)
(* in a later one.                                                         *)
ReleaseFlight(r) ==
    IF role[r] = "lead" THEN F!RemoveKey(r) ELSE UNCHANGED flightVars

EndDrop(r) ==
    /\ F!DropSender(r)
    /\ UNCHANGED <<now, storeVars, taskVars, backgroundVars, metricVars>>

(* What the properties need to know of the response that was served.       *)
Served(label, x) ==
    [label |-> label,
     from |-> IF x = None THEN None ELSE [head |-> x.head, at |-> x.at, of |-> x.of]]

(* The request is answered and its handler ends.                           *)
Answer(r, label, x) ==
    /\ pc' = [pc EXCEPT ![r] = "done"]
    /\ served' = [served EXCEPT ![r] = Served(label, x)]
    /\ stale' = [stale EXCEPT ![r] = None]
    /\ ReleaseFlight(r)
    /\ UNCHANGED <<kind, key, copy>>

-----------------------------------------------------------------------------
(* serve_from_cache.  The first step of a request is its first lookup. *)

(* What the request may look at: the first lookup, and the second after it *)
(* has become a leader or has waited for one.                              *)
Usable(r) == IF may_serve(kind[r]) THEN Found(key[r]) ELSE {}

FreshFor(q, x) == is_fresh(x) /\ (q.max_age # None => age(x) <= q.max_age)

ServableStale(q, x) ==
    /\ q.method = "GET" /\ ~FreshFor(q, x)
    /\ may_serve_stale(q)
    /\ stale_within(x, x.head.while_revalidate)

Looking == {"new", "relook"}

(* from_cache finds a response that is fresh for the request.              *)
AnswerFresh(r) ==
    /\ pc[r] \in Looking
    /\ \E x \in Usable(r) :
          /\ FreshFor(kind[r], x)
          /\ Answer(r, IF role[r] \in {"woken", "gaveup"} THEN "COALESCED" ELSE "HIT", x)
    /\ UNCHANGED <<now, storeVars, backgroundVars, metricVars>>

(* refresh_in_background: the first request that finds the key unclaimed   *)
(* starts a task.                                                          *)
StartRefresh(r, x) ==
    LET claim == <<key[r], x.generation>>
    IN  IF claim \in refreshing
        THEN UNCHANGED <<backgroundVars, uncounted>>
        ELSE /\ refreshing' = refreshing \cup {claim}
             /\ bg' = [bg EXCEPT ![r] = [at |-> "await", entry |-> x, head |-> None]]
             /\ uncounted' = uncounted + 1

(* from_cache finds one to serve stale while it is revalidated.            *)
AnswerStale(r) ==
    /\ pc[r] \in Looking
    /\ \E x \in Usable(r) :
          /\ ServableStale(kind[r], x)
          /\ Answer(r, "STALE", x)
          /\ StartRefresh(r, x)
    /\ UNCHANGED <<now, storeVars, revalidations>>

(* from_cache has no answer.  A stale response goes along to the origin.   *)
NoAnswer(r) ==
    /\ pc[r] \in Looking
    /\ \A x \in Usable(r) : ~FreshFor(kind[r], x) /\ ~ServableStale(kind[r], x)
    /\ stale' = [stale EXCEPT ![r] =
          IF kind[r].method = "GET" /\ Usable(r) # {}
          THEN CHOOSE x \in Usable(r) : TRUE ELSE None]
    /\ pc' = [pc EXCEPT ![r] = IF pc[r] = "new" THEN "join" ELSE "send"]
    /\ UNCHANGED <<flightVars, now, storeVars, kind, key, copy, served,
                   backgroundVars, metricVars>>

(* join_flight: a request that may coalesce leads, follows or, when it may *)
(* do neither, goes on alone with what it found.                           *)
Join(r) ==
    /\ pc[r] = "join"
    /\ \/ /\ may_coalesce(kind[r])
          /\ F!Join(r, key[r], may_lead(kind[r]))
          /\ pc' = [pc EXCEPT ![r] = IF role'[r] = "follow" THEN "wait"
                                     ELSE IF role'[r] = "lead" THEN "relook"
                                     ELSE "send"]
       \/ /\ ~may_coalesce(kind[r])
          /\ pc' = [pc EXCEPT ![r] = "send"]
          /\ UNCHANGED flightVars
    /\ UNCHANGED <<now, storeVars, kind, key, stale, copy, served,
                   backgroundVars, metricVars>>

(* wait_for_leader returns because the leader is done.                     *)
StopWaiting(r) ==
    /\ pc[r] = "wait" /\ F!Wake(r)
    /\ pc' = [pc EXCEPT ![r] = "relook"]
    /\ UNCHANGED <<now, storeVars, kind, key, stale, copy, served,
                   backgroundVars, metricVars>>

(* Mutant of WaitTimesOut: there is no timeout.                            *)
WaitNeverTimesOut(r) == FALSE /\ UNCHANGED vars

(* wait_for_leader returns because its timeout ran out.                    *)
WaitTimesOut(r) ==
    /\ pc[r] = "wait" /\ F!GiveUp(r)
    /\ pc' = [pc EXCEPT ![r] = "relook"]
    /\ UNCHANGED <<now, storeVars, kind, key, stale, copy, served,
                   backgroundVars, metricVars>>

-----------------------------------------------------------------------------
(* forward: the exchange with the origin *)

Send(r) ==
    /\ pc[r] = "send"
    /\ pc' = [pc EXCEPT ![r] = "await"]
    /\ uncounted' = uncounted + 1
    /\ UNCHANGED <<flightVars, now, storeVars, kind, key, stale, copy, served,
                   backgroundVars, revalidations>>

(* The origin request cannot be built (500), or the client's body cannot   *)
(* be read (400).                                                          *)
SendFails(r) ==
    /\ pc[r] = "send"
    /\ Answer(r, "ERROR", None)
    /\ UNCHANGED <<now, storeVars, backgroundVars, metricVars>>

Revalidating(r) == stale[r] # None /\ ~kind[r].conditional

MayServeOnError(r) ==
    /\ stale[r] # None
    /\ may_serve_stale(kind[r])
    /\ stale_within(stale[r], stale[r].head.if_error)

(* Exchange::revalidated: the stored body, with the fields of the 304.     *)
AnsweredNotModified(r, h) ==
    /\ pc[r] = "await"
    /\ Revalidating(r) /\ h.status = "not_modified"
    /\ Freshen(key[r], kind[r], stale[r], h)
    /\ Answer(r, "REVALIDATED", stale[r])
    /\ revalidations' = revalidations + 1
    /\ uncounted' = uncounted - 1
    /\ UNCHANGED <<now, backgroundVars>>

(* Exchange::answered serves the stale response for the origin's error.    *)
AnsweredError(r, h) ==
    /\ pc[r] = "await"
    /\ h.status = "error" /\ MayServeOnError(r)
    /\ Answer(r, "STALE", stale[r])
    /\ uncounted' = uncounted - 1
    /\ UNCHANGED <<now, storeVars, backgroundVars, revalidations>>

(* store_plan: a successful unsafe request invalidates its URI, which      *)
(* drops the index and leaves the entries (Store::invalidate).             *)
Unsafe(r, h) == kind[r].method = "POST" /\ h.status \in {"ok", "not_modified"}

InvalidateAfter(r, h) ==
    /\ index' = IF Unsafe(r, h) THEN [index EXCEPT ![key[r]] = 0] ELSE index
    /\ UNCHANGED <<entries, generation, made>>

(* client_response: whether the body is copied as it streams.              *)
Copied(r, h) == storable(kind[r], h) /\ h.length # "over"

(* Storing::holding: the copy keeps the flight, and without one it ends.   *)
HoldFlight(r, copied) ==
    IF copied THEN UNCHANGED flightVars ELSE ReleaseFlight(r)

(* Mutant of AnsweredThrough: the flight ends with the headers.            *)
AnsweredAndReleased(r, h) ==
    /\ pc[r] = "await"
    /\ ~(h.status = "not_modified" /\ Revalidating(r))
    /\ ~(h.status = "error" /\ MayServeOnError(r))
    /\ InvalidateAfter(r, h)
    /\ copy' = [copy EXCEPT ![r] = IF Copied(r, h) THEN h ELSE None]
    /\ ReleaseFlight(r)
    /\ pc' = [pc EXCEPT ![r] = "body"]
    /\ served' = [served EXCEPT ![r] = Served("MISS", None)]
    /\ stale' = [stale EXCEPT ![r] = None]
    /\ uncounted' = uncounted - 1
    /\ UNCHANGED <<now, kind, key, backgroundVars, revalidations>>

(* Exchange::answered passes the origin's response on.                     *)
AnsweredThrough(r, h) ==
    /\ pc[r] = "await"
    /\ ~(h.status = "not_modified" /\ Revalidating(r))
    /\ ~(h.status = "error" /\ MayServeOnError(r))
    /\ InvalidateAfter(r, h)
    /\ copy' = [copy EXCEPT ![r] = IF Copied(r, h) THEN h ELSE None]
    /\ HoldFlight(r, Copied(r, h))
    /\ pc' = [pc EXCEPT ![r] = "body"]
    /\ served' = [served EXCEPT ![r] = Served("MISS", None)]
    /\ stale' = [stale EXCEPT ![r] = None]
    /\ uncounted' = uncounted - 1
    /\ UNCHANGED <<now, kind, key, backgroundVars, revalidations>>

(* Mutant of OriginFails: the error path keeps the guard.                  *)
FailsHoldingFlight(r) ==
    /\ pc[r] = "await"
    /\ pc' = [pc EXCEPT ![r] = "done"]
    /\ served' = [served EXCEPT ![r] =
          IF MayServeOnError(r) THEN Served("STALE", stale[r])
          ELSE Served("ERROR", None)]
    /\ stale' = [stale EXCEPT ![r] = None]
    /\ uncounted' = uncounted - 1
    /\ UNCHANGED <<flightVars, now, storeVars, kind, key, copy, backgroundVars,
                   revalidations>>

(* Exchange::failed: no connection, or no headers in time.  The client     *)
(* gets a stale response if it may, and otherwise a 502 or 504.            *)
OriginFails(r) ==
    /\ pc[r] = "await"
    /\ IF MayServeOnError(r) THEN Answer(r, "STALE", stale[r])
       ELSE Answer(r, "ERROR", None)
    /\ uncounted' = uncounted - 1
    /\ UNCHANGED <<now, storeVars, backgroundVars, revalidations>>

-----------------------------------------------------------------------------
(* The body of a response that is passed on *)

(* Tee::finish: the body ended, so a whole copy is stored, and then the    *)
(* flight ends.                                                            *)
BodyEnds(r) ==
    /\ pc[r] = "body"
    /\ pc' = [pc EXCEPT ![r] = "done"]
    /\ copy' = [copy EXCEPT ![r] = None]
    /\ IF copy[r] # None THEN Insert(key[r], kind[r], copy[r]) ELSE UNCHANGED storeVars
    /\ ReleaseFlight(r)
    /\ UNCHANGED <<now, kind, key, stale, served, backgroundVars, metricVars>>

(* A body of unknown length passes the limit: the copy is given up.        *)
BodyPassesLimit(r) ==
    /\ pc[r] = "body"
    /\ copy[r] # None /\ copy[r].length = "none"
    /\ copy' = [copy EXCEPT ![r] = None]
    /\ ReleaseFlight(r)
    /\ UNCHANGED <<now, storeVars, pc, kind, key, stale, served, backgroundVars,
                   metricVars>>

(* The body fails, goes idle or ends short of its length.                  *)
BodyFails(r) ==
    /\ pc[r] = "body"
    /\ pc' = [pc EXCEPT ![r] = "done"]
    /\ copy' = [copy EXCEPT ![r] = None]
    /\ ReleaseFlight(r)
    /\ UNCHANGED <<now, storeVars, kind, key, stale, served, backgroundVars,
                   metricVars>>

(* The client leaves while the handler awaits or the body streams: the     *)
(* handler's future, or the body, is dropped with all it holds.            *)
ClientLeaves(r) ==
    /\ pc[r] \in {"wait", "send", "await", "body"}
    /\ pc' = [pc EXCEPT ![r] = "left"]
    /\ copy' = [copy EXCEPT ![r] = None]
    /\ stale' = [stale EXCEPT ![r] = None]
    /\ IF pc[r] = "wait" THEN F!GiveUp(r) ELSE ReleaseFlight(r)
    /\ UNCHANGED <<now, storeVars, kind, key, served, backgroundVars, metricVars>>

-----------------------------------------------------------------------------
(* The background refresh that r started *)

(* Mutant of RefreshDone: the claim outlives the task.                     *)
RefreshForgotten(r) == bg' = [bg EXCEPT ![r] = None] /\ UNCHANGED refreshing

(* The task ends and drops its RefreshGuard.                               *)
RefreshDone(r) ==
    /\ bg' = [bg EXCEPT ![r] = None]
    /\ refreshing' = refreshing \ {<<key[r], bg[r].entry.generation>>}

RefreshAwaits(r) == bg[r] # None /\ bg[r].at = "await"

(* refresh: a 304 freshens the entry.                                      *)
RefreshNotModified(r, h) ==
    /\ RefreshAwaits(r) /\ h.status = "not_modified"
    /\ Freshen(key[r], kind[r], bg[r].entry, h)
    /\ RefreshDone(r)
    /\ revalidations' = revalidations + 1
    /\ uncounted' = uncounted - 1
    /\ UNCHANGED <<flightVars, now, taskVars>>

(* refresh: a storable response is collected, any other ends the task.     *)
RefreshAnswered(r, h) ==
    /\ RefreshAwaits(r) /\ h.status # "not_modified"
    /\ IF storable(kind[r], h)
       THEN bg' = [bg EXCEPT ![r].at = "body", ![r].head = h] /\ UNCHANGED refreshing
       ELSE RefreshDone(r)
    /\ uncounted' = uncounted - 1
    /\ UNCHANGED <<flightVars, now, storeVars, taskVars, revalidations>>

(* The origin fails or times out.                                          *)
RefreshFails(r) ==
    /\ RefreshAwaits(r)
    /\ RefreshDone(r)
    /\ uncounted' = uncounted - 1
    /\ UNCHANGED <<flightVars, now, storeVars, taskVars, revalidations>>

(* The collected body is whole and is stored.                              *)
RefreshStores(r) ==
    /\ bg[r] # None /\ bg[r].at = "body" /\ bg[r].head.length # "over"
    /\ Insert(key[r], kind[r], bg[r].head)
    /\ RefreshDone(r)
    /\ UNCHANGED <<flightVars, now, taskVars, metricVars>>

(* The body fails, goes idle or passes the limit.                          *)
RefreshBodyFails(r) ==
    /\ bg[r] # None /\ bg[r].at = "body"
    /\ RefreshDone(r)
    /\ UNCHANGED <<flightVars, now, storeVars, taskVars, metricVars>>

-----------------------------------------------------------------------------
(* The clock, and moka's evictions *)

Tick ==
    /\ now < MaxTime
    /\ now' = now + 1
    /\ UNCHANGED <<flightVars, storeVars, taskVars, backgroundVars, metricVars>>

EvictIndex(k) ==
    /\ index[k] # 0
    /\ index' = [index EXCEPT ![k] = 0]
    /\ UNCHANGED <<flightVars, now, entries, generation, made, taskVars,
                   backgroundVars, metricVars>>

EvictEntry(k) ==
    /\ \E x \in entries[k] : entries' = [entries EXCEPT ![k] = @ \ {x}]
    /\ UNCHANGED <<flightVars, now, index, generation, made, taskVars,
                   backgroundVars, metricVars>>

(* What the handler of r does by itself or when the origin answers it.     *)
HandlerStep(r) ==
    \/ AnswerFresh(r) \/ AnswerStale(r) \/ NoAnswer(r) \/ Join(r)
    \/ StopWaiting(r) \/ WaitTimesOut(r)
    \/ \E h \in Heads : AnsweredNotModified(r, h) \/ AnsweredError(r, h)
                          \/ AnsweredThrough(r, h)
    \/ OriginFails(r)

(* What also takes the client of r: it sends its body, reads the response, *)
(* or leaves.                                                              *)
ClientStep(r) ==
    \/ Send(r) \/ SendFails(r)
    \/ BodyEnds(r) \/ BodyPassesLimit(r) \/ BodyFails(r)
    \/ ClientLeaves(r)

RefreshStep(r) ==
    \/ \E h \in Heads : RefreshNotModified(r, h) \/ RefreshAnswered(r, h)
    \/ RefreshFails(r) \/ RefreshStores(r) \/ RefreshBodyFails(r)

Next ==
    \/ \E r \in Requests :
          \/ HandlerStep(r) \/ ClientStep(r) \/ EndDrop(r) \/ RefreshStep(r)
    \/ Tick
    \/ \E k \in Keys : EvictIndex(k) \/ EvictEntry(k)

(* A handler that has begun is polled when it can go on, a wait and an     *)
(* exchange with the origin are ended by their timeouts, and a drop that   *)
(* has begun ends.  Nothing is assumed of clients, who may stop sending or *)
(* reading without leaving, of refreshes, the clock or evictions.          *)
Fairness ==
    \A r \in Requests :
        /\ WF_vars(pc[r] # "new" /\ HandlerStep(r))
        /\ WF_vars(EndDrop(r))

Spec == Init /\ [][Next]_vars /\ Fairness

-----------------------------------------------------------------------------
(* The store has its type, its counter is ahead of every generation in     *)
(* use, and it holds one response for each generation.                     *)
StoreOK ==
    /\ now \in Nat /\ generation \in Nat /\ made \in Nat
    /\ index \in [Keys -> Nat] /\ entries \in [Keys -> SUBSET Stored]
    /\ \A k \in Keys : index[k] <= generation
    /\ \A k \in Keys : \A x, y \in entries[k] : x.generation = y.generation => x = y

(* Every variable of a request has its type.                               *)
HandlersOK ==
    /\ pc \in [Requests -> Places]
    /\ kind \in [Requests -> Kind]
    /\ key \in [Requests -> Keys]
    /\ stale \in [Requests -> Stored \cup {None}]
    /\ copy \in [Requests -> Head \cup {None}]
    /\ served \in [Requests -> Outcome \cup {None}]
    /\ bg \in [Requests -> Refresh \cup {None}]
    /\ revalidations \in Nat

TypeOK == StoreOK /\ HandlersOK

(* "followers look up the cache only once the outcome is known"            *)
(* (Storing::holding): when a follower's wait has returned, the leader is  *)
(* not at the origin, and no copy of its response is on its way into the   *)
(* store.                                                                  *)
OutcomeKnown ==
    \A r \in Requests : role[r] = "woken" =>
        /\ pc[waiter[r]] \notin {"relook", "send", "await"}
        /\ copy[waiter[r]] = None

(* The other direction: a flight does not outlive its reason.  A request   *)
(* leads only while it is on its way to the origin or a copy of its        *)
(* response may still be stored, whatever error or disconnect ended it.    *)
LeadsForAReason ==
    \A r \in Requests : role[r] = "lead" =>
        pc[r] \in {"relook", "send", "await"} \/ copy[r] # None

(* "the first one, the leader, goes to the origin and the others wait for  *)
(* it" (README.md): while a request that may lead fetches a response,      *)
(* until it is stored or known not to be, no other one for its key fetches *)
(* without having waited, for a third request or until its timeout,        *)
(* whatever leaders ended, failed or were dropped in between.              *)
Fetching(r) ==
    may_lead(kind[r]) /\ (pc[r] \in {"send", "await"} \/ copy[r] # None)

MissesCollapse ==
    \A r, s \in Requests :
        r # s /\ key[r] = key[s] /\ Fetching(r) /\ Fetching(s) =>
            \E x \in {r, s} :
                \/ role[x] = "gaveup"
                \/ role[x] = "woken" /\ waiter[x] \notin {r, s}

(* "One client's uncacheable response never goes to another client"        *)
(* (README.md): whatever is served from the store was, when it was stored, *)
(* a response that a shared cache may keep for the request that fetched it *)
Shareable(h, q) ==
    /\ h.cacheable
    /\ q.method = "GET" /\ ~q.no_store
    /\ q.credentials => h.public

NothingPrivateServed ==
    \A r \in Requests : served[r] # None /\ served[r].from # None =>
        Shareable(served[r].from.head, served[r].from.of)

(* Whether x may answer q now, for a request that is still looking (before *)
(* any origin request) or whose exchange with the origin ended.  A 304     *)
(* makes x good at any age, for the origin's answer to x's own validators  *)
(* and a request that let the cache answer.                                *)
MayAnswer(q, x, label, looking) ==
    LET elapsed == now - x.at
        lifetime == Least(x.head.lifetime - x.head.age, CacheTtl)
    IN  CASE label = "STALE" ->
               /\ q.method = "GET" /\ q.max_age = None
               /\ ~x.head.must_revalidate
               /\ elapsed < lifetime + (IF looking THEN x.head.while_revalidate
                                        ELSE x.head.if_error)
          [] label = "REVALIDATED" ->
               /\ ~looking /\ q.method = "GET"
               /\ ~q.no_cache /\ ~q.no_store /\ ~q.conditional
          [] OTHER ->
               /\ elapsed < lifetime
               /\ q.max_age # None => x.head.age + elapsed <= q.max_age

(* "is never served stale, whatever its stale windows" and "A request with *)
(* Cache-Control: max-age never gets a stale response" (README.md): at the *)
(* moment a stored response is served it is fresh enough for the request,  *)
(* or within the stale window that applies, or revalidated for a request   *)
(* that the origin could not have answered with that 304 itself, although  *)
(* it was looked up earlier and may have aged, been replaced or been       *)
(* evicted since.                                                          *)
ServedByTheRules ==
    [][\A r \in Requests :
          served'[r] # served[r] /\ served'[r].from # None =>
              MayAnswer(kind[r], served'[r].from, served'[r].label, pc[r] \in Looking)]_vars

(* "At most one background revalidation runs for each stored response at a *)
(* time", and "a later request can start another" (README.md): the claims  *)
(* are those of the running tasks, one each.                               *)
Refreshers == {r \in Requests : bg[r] # None}
Claim(r) == <<key[r], bg[r].entry.generation>>

OneRefreshPerKey ==
    /\ refreshing = {Claim(r) : r \in Refreshers}
    /\ \A r, s \in Refreshers : Claim(r) = Claim(s) => r = s

(* "A request waits for at most --upstream-timeout-seconds, then goes to   *)
(* the origin on its own" (README.md): a request is held up for ever only  *)
(* by its own client, which it waits for while it reads the request's body *)
(* ("send") or streams the response ("body").  A leader whose client stops *)
(* reading keeps its flight for as long, and its followers go on.          *)
OnlyItsClientDelays ==
    \A r \in Requests :
        (pc[r] \in {"join", "wait", "relook", "await"})
            ~> (pc[r] \in {"send", "body", "done", "left"})

-----------------------------------------------------------------------------
(* The parts of the inductive invariant from which ProxyProof shows the    *)
(* invariants above and ServedByTheRules.                                  *)

(* Where a handler is while it copies a body, once it has let go of its    *)
(* flight, and while its refresh runs.                                     *)
Handling ==
    \A r \in Requests :
        /\ copy[r] # None => pc[r] = "body"
        /\ role[r] \in {"ending", "ended"} =>
             pc[r] \in {"body", "done", "left"} /\ copy[r] = None
        /\ bg[r] # None => pc[r] = "done"

(* How a handler came to its place in a flight: a request that may lead    *)
(* fetches only as its key's leader or after it has waited.                *)
Joining ==
    \A r \in Requests :
        /\ pc[r] \in {"new", "join"} => role[r] = "new"
        /\ pc[r] = "wait" => role[r] = "follow"
        /\ pc[r] = "relook" \/ Fetching(r) => role[r] \in {"lead", "woken", "gaveup"}
        /\ role[r] = "lead" => guard[r] = key[r]

(* Whatever is stored, may be served later, or is on its way into the      *)
(* store may be shared.                                                    *)
Sharing ==
    /\ \A k \in Keys : \A x \in entries[k] : Shareable(x.head, x.of)
    /\ \A r \in Requests : stale[r] # None =>
         /\ Shareable(stale[r].head, stale[r].of)
         /\ kind[r].method = "GET" /\ may_serve(kind[r])
    /\ \A r \in Requests : copy[r] # None => Shareable(copy[r], kind[r])
    /\ \A r \in Requests : bg[r] # None /\ bg[r].at = "body" =>
         bg[r].head # None /\ Shareable(bg[r].head, kind[r])

IInv ==
    /\ TypeOK /\ F!IInv /\ Handling /\ Joining /\ Sharing
    /\ LeadsForAReason /\ OneRefreshPerKey /\ NothingPrivateServed

-----------------------------------------------------------------------------
(* What the documentation says of the counters *)

FromCache == {r \in Requests : served[r] # None
                /\ served[r].label \in {"HIT", "STALE", "COALESCED", "REVALIDATED"}}
Labelled(label) == {r \in FromCache : served[r].label = label}

(* "the share of responses whose body came from the cache" (lib.rs,        *)
(* health_check) and "Each response counts once" (README.md): the sum that *)
(* hit_ratio is computed from is the number of those responses.            *)
HitRatioCountsResponses ==
    Cardinality(Labelled("HIT")) + revalidations + Cardinality(Labelled("STALE"))
        + Cardinality(Labelled("COALESCED")) = Cardinality(FromCache)

(* "so the latter's total stays the number of origin requests" (README.md, *)
(* shadowstep_origin_requests_total): every request that was sent to the   *)
(* origin is counted, or is still waiting for its headers.                 *)
Awaiting == {r \in Requests : pc[r] = "await"}
AwaitingRefreshes == {r \in Requests : RefreshAwaits(r)}
OriginRequestsCounted ==
    uncounted = Cardinality(Awaiting) + Cardinality(AwaitingRefreshes)

=============================================================================
