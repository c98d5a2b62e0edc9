----------------------------- MODULE ProxyProof -----------------------------
(***************************************************************************)
(* Proofs about Proxy for any URIs, requests, answers and durations.       *)
(*                                                                         *)
(* IInv says four things that the properties themselves do not: the        *)
(* coalescing map is in a state of Flights (F!IInv, whose proof is that of *)
(* FlightsProof), where a handler is while it copies a body and after it   *)
(* let go of its flight (Handling), that everything stored or on its way   *)
(* there may be shared (Sharing), and the types.  A step is a step of one  *)
(* request: Frame says what it leaves alone of the others and Local what   *)
(* is to show of its own request.                                          *)
(***************************************************************************)
EXTENDS Proxy, Integers, TLAPS

FP == INSTANCE FlightsProof

USE ProxyAssumption

-----------------------------------------------------------------------------
(* The coalescing map *)

(* Flights is empty when the proxy starts.                                 *)
LEMMA FlightsInit == F!Init => F!IInv
<1>1. F!Init => FP!Init
  BY DEF F!Init, FP!Init
<1>2. FP!IInv => F!IInv
  BY DEF F!IInv, F!TypeOK, F!Roles, F!MapMatchesGuards, F!SendersMatchGuards,
         F!WaitersMatchFlights, FP!IInv, FP!TypeOK, FP!Roles, FP!MapMatchesGuards,
         FP!SendersMatchGuards, FP!WaitersMatchFlights
<1> QED BY <1>1, <1>2, FP!InitIInv

(* What FlightsProof shows of a step of Flights.                           *)
LEMMA FlightsKept ==
    ASSUME F!IInv, [F!Next]_flightVars
    PROVE  F!IInv'
<1>1. F!IInv <=> FP!IInv
  BY DEF F!IInv, F!TypeOK, F!Roles, F!MapMatchesGuards, F!SendersMatchGuards,
         F!WaitersMatchFlights, FP!IInv, FP!TypeOK, FP!Roles, FP!MapMatchesGuards,
         FP!SendersMatchGuards, FP!WaitersMatchFlights
<1>2. F!IInv' <=> FP!IInv'
  BY DEF F!IInv, F!TypeOK, F!Roles, F!MapMatchesGuards, F!SendersMatchGuards,
         F!WaitersMatchFlights, FP!IInv, FP!TypeOK, FP!Roles, FP!MapMatchesGuards,
         FP!SendersMatchGuards, FP!WaitersMatchFlights
<1>3. [FP!Next]_(FP!vars)
  BY DEF F!Next, F!Join, F!JoinFollow, F!JoinLead, F!JoinAlone, F!RemoveKey,
         F!DropSender, F!Wake, F!GiveUp, FP!Next, FP!Join, FP!JoinFollow,
         FP!JoinLead, FP!JoinAlone, FP!RemoveKey, FP!DropSender, FP!Wake,
         FP!GiveUp, FP!vars, flightVars
<1> QED BY <1>1, <1>2, <1>3, FP!NextIInv

(* What the drop of a guard does to the roles.                             *)
LEMMA ReleaseRole ==
    ASSUME F!IInv, NEW r \in Requests, ReleaseFlight(r)
    PROVE  /\ [F!Next]_flightVars
           /\ role' = [role EXCEPT ![r] = role'[r]]
           /\ role'[r] # "lead" /\ role'[r] \in {"ending", role[r]}
           /\ role'[r] = "ending" => role[r] \in {"ending", "lead"}
  BY DEF ReleaseFlight, F!Next, F!RemoveKey, F!IInv, F!TypeOK, flightVars

(* Every step of the proxy that touches the map is a step of Flights.      *)
LEMMA FlightStep ==
    ASSUME TypeOK, F!IInv, [Next]_vars
    PROVE  [F!Next]_flightVars
<1>1. CASE UNCHANGED flightVars
  BY <1>1
<1>2. ASSUME NEW r \in Requests, ReleaseFlight(r)
      PROVE  [F!Next]_flightVars
  BY <1>2, ReleaseRole
<1>3. ASSUME NEW r \in Requests, F!DropSender(r) \/ F!Wake(r) \/ F!GiveUp(r)
      PROVE  [F!Next]_flightVars
  BY <1>3 DEF F!Next
<1>4. ASSUME NEW r \in Requests, F!Join(r, key[r], may_lead(kind[r]))
      PROVE  [F!Next]_flightVars
  <2>1. key[r] \in Keys /\ may_lead(kind[r]) \in BOOLEAN
    BY DEF TypeOK, HandlersOK, may_lead, may_coalesce, may_serve, may_store
  <2> QED BY <1>4, <2>1 DEF F!Next
<1>5. ASSUME NEW r \in Requests, HandlerStep(r)
      PROVE  [F!Next]_flightVars
  BY <1>1, <1>2, <1>3, <1>4, <1>5
     DEF HandlerStep, AnswerFresh, AnswerStale, NoAnswer, Join, StopWaiting,
         WaitTimesOut, AnsweredNotModified, AnsweredError, AnsweredThrough,
         OriginFails, Answer, HoldFlight
<1>6. ASSUME NEW r \in Requests, ClientStep(r)
      PROVE  [F!Next]_flightVars
  BY <1>1, <1>2, <1>3, <1>6
     DEF ClientStep, Send, SendFails, BodyEnds, BodyPassesLimit, BodyFails,
         ClientLeaves, Answer
<1>7. ASSUME NEW r \in Requests, EndDrop(r)
      PROVE  [F!Next]_flightVars
  BY <1>3, <1>7 DEF EndDrop
<1>8. CASE \/ \E r \in Requests : RefreshStep(r)
           \/ Tick \/ \E k \in Keys : EvictIndex(k) \/ EvictEntry(k)
           \/ UNCHANGED vars
  BY <1>1, <1>8
     DEF RefreshStep, RefreshNotModified, RefreshAnswered, RefreshFails,
         RefreshStores, RefreshBodyFails, Tick, EvictIndex, EvictEntry, vars
<1> QED BY <1>5, <1>6, <1>7, <1>8 DEF Next

-----------------------------------------------------------------------------
(* The store *)

StoreShared == \A k \in Keys : \A x \in entries[k] : Shareable(x.head, x.of)

(* A step stores a response that may be shared, or takes responses and     *)
(* generations away.                                                       *)
Grows ==
    /\ \E k \in Keys, q \in Kind, h \in Head : Shareable(h, q) /\ Insert(k, q, h)
    /\ now' = now

Shrinks ==
    /\ index' \in [Keys -> Nat] /\ \A k \in Keys : index'[k] \in {index[k], 0}
    /\ entries' \in [Keys -> SUBSET Stored]
    /\ \A k \in Keys : entries'[k] \subseteq entries[k]
    /\ UNCHANGED <<generation, made>> /\ now' \in Nat

(* What the rules let the store keep may be shared.                        *)
LEMMA StorableShared ==
    ASSUME NEW q \in Kind, NEW h \in Head, storable(q, h)
    PROVE  Shareable(h, q)
  BY DEF storable, may_store, Shareable, Kind, Head

(* Store::insert_response keeps one response for each generation, and the  *)
(* counter ahead of them.                                                  *)
LEMMA GrowsOK ==
    ASSUME StoreOK, StoreShared, Grows
    PROVE  StoreOK' /\ StoreShared'
<1>1. PICK k \in Keys, q \in Kind, h \in Head : Shareable(h, q) /\ Insert(k, q, h)
  BY DEF Grows
<1>2. now' = now
  BY DEF Grows
<1> DEFINE g == IF index[k] # 0 THEN index[k] ELSE generation + 1
           x == [id |-> made, generation |-> g, head |-> h, at |-> now, of |-> q]
           rest == {y \in entries[k] : y.generation # g}
<1>3. g \in Nat /\ index[k] <= generation /\ generation \in Nat
  BY DEF StoreOK
<1>4. x \in Stored
  BY <1>3 DEF StoreOK, Stored
<1>5. /\ index' = [index EXCEPT ![k] = g] /\ generation' = Most(generation, g)
      /\ made' = made + 1 /\ entries' = [entries EXCEPT ![k] = rest \cup {x}]
  BY <1>1 DEF Insert
<1>6. x.generation = g /\ x.head = h /\ x.of = q
  OBVIOUS
<1>7. rest \subseteq entries[k] /\ \A y \in rest : y.generation # g
  OBVIOUS
<1> HIDE DEF x, rest, g
<1>8. generation' \in Nat /\ generation' >= generation /\ generation' >= g
  BY <1>3, <1>5 DEF Most
<1>9. entries' \in [Keys -> SUBSET Stored]
  BY <1>4, <1>5, <1>7 DEF StoreOK
<1>10. \A j \in Keys : index'[j] <= generation'
  BY <1>3, <1>5, <1>8 DEF StoreOK
<1>11. ASSUME NEW j \in Keys, NEW y \in entries'[j], NEW z \in entries'[j],
              y.generation = z.generation
       PROVE  y = z
  <2>1. CASE j = k
    <3>1. entries'[j] = rest \cup {x}
      BY <1>5, <2>1 DEF StoreOK
    <3> QED BY <1>6, <1>7, <1>11, <2>1, <3>1 DEF StoreOK
  <2>2. CASE j # k
    BY <1>5, <1>11, <2>2 DEF StoreOK
  <2> QED BY <2>1, <2>2
<1>12. StoreShared'
  <2> SUFFICES ASSUME NEW j \in Keys, NEW y \in entries'[j]
               PROVE  Shareable(y.head, y.of)
    BY DEF StoreShared, Shareable
  <2>1. y \in entries[j] \/ y = x
    BY <1>5, <1>7 DEF StoreOK
  <2> QED BY <1>1, <1>6, <2>1 DEF StoreShared
<1>13. made' \in Nat /\ index' \in [Keys -> Nat]
  BY <1>3, <1>5 DEF StoreOK
<1> QED BY <1>2, <1>8, <1>9, <1>10, <1>11, <1>12, <1>13 DEF StoreOK

(* Evictions, invalidations and the clock keep it too.                     *)
LEMMA ShrinksOK ==
    ASSUME StoreOK, StoreShared, Shrinks
    PROVE  StoreOK' /\ StoreShared'
  BY DEF StoreOK, StoreShared, Shrinks, Shareable

(* Store::freshen stores the updated response or removes the old one.      *)
LEMMA FreshenStore ==
    ASSUME StoreOK, NEW k \in Keys, NEW q \in Kind, NEW x \in Stored,
           NEW h \in Head, Freshen(k, q, x, h), now' = now
    PROVE  Grows \/ Shrinks
<1> DEFINE updated == [h EXCEPT !.status = x.head.status]
<1>1. updated \in Head
  BY DEF Head, Stored
<1> HIDE DEF updated
<1>2. CASE storable(q, updated) /\ Insert(k, q, updated)
  BY <1>1, <1>2, StorableShared DEF Grows
<1>3. CASE /\ entries' = [entries EXCEPT ![k] = @ \ {x}]
           /\ UNCHANGED <<index, generation, made>>
  BY <1>3 DEF Shrinks, StoreOK
<1>4. CASE UNCHANGED storeVars
  BY <1>4 DEF Shrinks, StoreOK, storeVars
<1> QED BY <1>2, <1>3, <1>4 DEF Freshen, updated

(* Every step of the proxy does one of the two.                            *)
LEMMA StoreStep ==
    ASSUME TypeOK, Sharing, [Next]_vars
    PROVE  Grows \/ Shrinks
<1> USE DEF TypeOK, HandlersOK
<1>1. CASE UNCHANGED storeVars /\ now' \in Nat
  BY <1>1 DEF Shrinks, StoreOK, storeVars
<1>2. now \in Nat
  BY DEF StoreOK
<1>3. ASSUME NEW r \in Requests, NEW h \in Heads, AnsweredNotModified(r, h)
      PROVE  Grows \/ Shrinks
  BY <1>3, FreshenStore DEF AnsweredNotModified, Revalidating
<1>4. ASSUME NEW r \in Requests, NEW h \in Heads, AnsweredThrough(r, h)
      PROVE  Grows \/ Shrinks
  BY <1>4, <1>2 DEF AnsweredThrough, InvalidateAfter, Shrinks, StoreOK
<1>5. ASSUME NEW r \in Requests, BodyEnds(r)
      PROVE  Grows \/ Shrinks
  BY <1>1, <1>2, <1>5 DEF BodyEnds, Grows, Sharing
<1>6. ASSUME NEW r \in Requests, NEW h \in Heads, RefreshNotModified(r, h)
      PROVE  Grows \/ Shrinks
  <2>1. bg[r].entry \in Stored
    BY <1>6 DEF RefreshNotModified, RefreshAwaits, Refresh
  <2> QED BY <1>6, <2>1, FreshenStore DEF RefreshNotModified
<1>7. ASSUME NEW r \in Requests, RefreshStores(r)
      PROVE  Grows \/ Shrinks
  <2>1. bg[r].head \in Head /\ Shareable(bg[r].head, kind[r])
    BY <1>7 DEF RefreshStores, Refresh, Sharing
  <2> QED BY <1>7, <2>1 DEF RefreshStores, Grows
<1>8. CASE Tick
  BY <1>1, <1>2, <1>8 DEF Tick
<1>9. ASSUME NEW k \in Keys, EvictIndex(k) \/ EvictEntry(k)
      PROVE  Grows \/ Shrinks
  BY <1>2, <1>9 DEF EvictIndex, EvictEntry, Shrinks, StoreOK
<1>10. ASSUME NEW r \in Requests, HandlerStep(r) \/ ClientStep(r)
       PROVE  Grows \/ Shrinks
  BY <1>1, <1>2, <1>3, <1>4, <1>5, <1>10
     DEF HandlerStep, ClientStep, AnswerFresh, AnswerStale, NoAnswer, Join,
         StopWaiting, WaitTimesOut, AnsweredError, OriginFails, Send, SendFails,
         BodyPassesLimit, BodyFails, ClientLeaves
<1>11. ASSUME NEW r \in Requests, EndDrop(r) \/ RefreshStep(r)
       PROVE  Grows \/ Shrinks
  BY <1>1, <1>2, <1>6, <1>7, <1>11
     DEF EndDrop, RefreshStep, RefreshAnswered, RefreshFails, RefreshBodyFails
<1>12. CASE UNCHANGED vars
  BY <1>1, <1>2, <1>12 DEF vars
<1> QED BY <1>8, <1>9, <1>10, <1>11, <1>12 DEF Next

-----------------------------------------------------------------------------
(* The handlers *)

(* A step that is one request's own leaves the others alone.               *)
Frame(r) ==
    /\ UNCHANGED <<kind, key>> /\ revalidations' \in Nat
    /\ pc' = [pc EXCEPT ![r] = pc'[r]]
    /\ stale' = [stale EXCEPT ![r] = stale'[r]]
    /\ copy' = [copy EXCEPT ![r] = copy'[r]]
    /\ served' = [served EXCEPT ![r] = served'[r]]
    /\ bg' = [bg EXCEPT ![r] = bg'[r]]
    /\ role' = [role EXCEPT ![r] = role'[r]]

(* What the invariant says of the variables of one request.                *)
LocalType(r) ==
    /\ pc[r] \in Places /\ stale[r] \in Stored \cup {None}
    /\ copy[r] \in Head \cup {None} /\ served[r] \in Outcome \cup {None}
    /\ bg[r] \in Refresh \cup {None}

LocalPlace(r) ==
    /\ copy[r] # None => pc[r] = "body"
    /\ role[r] \in {"ending", "ended"} =>
         pc[r] \in {"body", "done", "left"} /\ copy[r] = None
    /\ bg[r] # None => pc[r] = "done"
    /\ role[r] = "lead" => pc[r] \in {"relook", "send", "await"} \/ copy[r] # None

LocalShare(r) ==
    /\ stale[r] # None =>
         /\ Shareable(stale[r].head, stale[r].of)
         /\ kind[r].method = "GET" /\ may_serve(kind[r])
    /\ copy[r] # None => Shareable(copy[r], kind[r])
    /\ bg[r] # None /\ bg[r].at = "body" =>
         bg[r].head # None /\ Shareable(bg[r].head, kind[r])
    /\ served[r] # None /\ served[r].from # None =>
         Shareable(served[r].from.head, served[r].from.of)

Local(r) == LocalType(r) /\ LocalPlace(r) /\ LocalShare(r)

(* The part of IInv that is about the handlers.                            *)
Handlers == HandlersOK /\ Handling /\ LeadsForAReason /\ NothingPrivateServed
               /\ \A r \in Requests : LocalShare(r)

LEMMA LocalHandlers ==
    Handlers => \A r \in Requests : Local(r)
  BY DEF Handlers, HandlersOK, Handling, LeadsForAReason, Local, LocalType, LocalPlace

(* So it is enough to look at the request whose step it is.                *)
LEMMA LocalSuffices ==
    ASSUME Handlers, role \in [Requests -> F!Roles], NEW r \in Requests,
           Frame(r), Local(r)'
    PROVE  Handlers'
<1>1. HandlersOK'
  BY DEF Handlers, HandlersOK, Frame, Local, LocalType
<1>2. \A s \in Requests \ {r} :
         /\ pc'[s] = pc[s] /\ stale'[s] = stale[s] /\ copy'[s] = copy[s]
         /\ served'[s] = served[s] /\ bg'[s] = bg[s] /\ role'[s] = role[s]
         /\ kind'[s] = kind[s]
  BY DEF Handlers, HandlersOK, Frame
<1>3. Handling'
  BY <1>2 DEF Handlers, Handling, Local, LocalPlace
<1>4. LeadsForAReason'
  BY <1>2 DEF Handlers, LeadsForAReason, Local, LocalPlace
<1>5. ASSUME NEW s \in Requests PROVE LocalShare(s)'
  BY <1>2 DEF Handlers, Local, LocalShare, Shareable
<1>6. NothingPrivateServed'
  BY <1>5 DEF NothingPrivateServed, LocalShare
<1> QED BY <1>1, <1>3, <1>4, <1>5, <1>6 DEF Handlers

(* The state that the lemmas on single actions start from.                 *)
Before == Handlers /\ StoreOK /\ StoreShared /\ F!IInv

LEMMA RoleTyped == Before => role \in [Requests -> F!Roles]
  BY DEF Before, F!IInv, F!TypeOK

(* What the properties record of a stored response that may be shared.     *)
LEMMA ServedTyped ==
    ASSUME NEW label \in Labels, NEW x \in Stored \cup {None},
           x # None => Shareable(x.head, x.of)
    PROVE  /\ Served(label, x) \in Outcome
           /\ Served(label, x).label = label
           /\ Served(label, x).from # None =>
                Shareable(Served(label, x).from.head, Served(label, x).from.of)
<1>1. CASE x = None
  BY <1>1 DEF Served, Outcome
<1>2. CASE x # None
  <2> DEFINE y == [head |-> x.head, at |-> x.at, of |-> x.of]
  <2>1. y \in Source /\ y.head = x.head /\ y.of = x.of
    BY <1>2 DEF Stored, Source
  <2> HIDE DEF y
  <2>2. Served(label, x) = [label |-> label, from |-> y]
    BY <1>2 DEF Served, y
  <2> QED BY <1>2, <2>1, <2>2 DEF Outcome
<1> QED BY <1>1, <1>2

(* Every way of answering a request without streaming a body.              *)
LEMMA AnswerLocal ==
    ASSUME Before, NEW r \in Requests, NEW label \in Labels,
           NEW x \in Stored \cup {None}, x # None => Shareable(x.head, x.of),
           pc[r] # "body", Answer(r, label, x), revalidations' \in Nat,
           bg' = [bg EXCEPT ![r] = bg'[r]], bg'[r] \in Refresh \cup {None},
           bg'[r] # None => bg'[r] = bg[r] \/ bg'[r].at = "await"
    PROVE  Handlers'
<1> USE RoleTyped
<1>1. /\ role' = [role EXCEPT ![r] = role'[r]] /\ role'[r] # "lead"
  BY ReleaseRole DEF Answer, Before
<1>2. Frame(r)
  BY <1>1 DEF Frame, Answer, Before, Handlers, HandlersOK
<1>3. /\ pc'[r] = "done" /\ stale'[r] = None /\ copy'[r] = None
      /\ served'[r] = Served(label, x)
  BY DEF Answer, Before, Handlers, HandlersOK, Handling
<1>4. LocalType(r)'
  BY <1>3, ServedTyped DEF LocalType, Places
<1>5. LocalPlace(r)'
  BY <1>1, <1>3 DEF LocalPlace
<1>6. LocalShare(r)'
  <2>1. LocalShare(r) /\ kind' = kind
    BY DEF Before, Handlers, Answer
  <2>2. bg'[r] # None /\ bg'[r].at = "body" => bg'[r] = bg[r]
    OBVIOUS
  <2> QED BY <1>3, <2>1, <2>2, ServedTyped DEF LocalShare, Shareable
<1> QED BY <1>2, <1>4, <1>5, <1>6, LocalSuffices DEF Before, Local

(* A step that leaves a request's refresh alone.                           *)
LEMMA AnswerQuietly ==
    ASSUME Before, NEW r \in Requests, NEW label \in Labels,
           NEW x \in Stored \cup {None}, x # None => Shareable(x.head, x.of),
           pc[r] # "body", Answer(r, label, x), UNCHANGED backgroundVars,
           revalidations' \in Nat
    PROVE  Handlers'
<1>1. bg' = [bg EXCEPT ![r] = bg'[r]] /\ bg'[r] = bg[r] /\ bg'[r] \in Refresh \cup {None}
  BY DEF backgroundVars, Before, Handlers, HandlersOK
<1> QED BY <1>1, AnswerLocal

(* What a lookup finds.                                                    *)
LEMMA FoundShared ==
    ASSUME Before, NEW r \in Requests, NEW x \in Usable(r)
    PROVE  x \in Stored /\ Shareable(x.head, x.of) /\ x \in entries[key[r]]
  BY DEF Before, Usable, Found, StoreOK, StoreShared, Handlers, HandlersOK

(* The stale response that a request takes to the origin.                  *)
LEMMA StaleShared ==
    ASSUME Before, NEW r \in Requests, stale[r] # None
    PROVE  /\ stale[r] \in Stored /\ Shareable(stale[r].head, stale[r].of)
           /\ kind[r].method = "GET" /\ may_serve(kind[r])
  BY DEF Before, Handlers, HandlersOK, LocalShare

(* The starts of a background refresh.                                     *)
LEMMA RefreshStarted ==
    ASSUME Before, NEW r \in Requests, NEW x \in Stored, StartRefresh(r, x)
    PROVE  /\ bg' = [bg EXCEPT ![r] = bg'[r]] /\ bg'[r] \in Refresh \cup {None}
           /\ bg'[r] # None => bg'[r] = bg[r] \/ bg'[r].at = "await"
<1> DEFINE task == [at |-> "await", entry |-> x, head |-> None]
<1>1. task \in Refresh /\ task.at = "await"
  BY DEF Refresh
<1>2. \/ UNCHANGED bg
      \/ bg' = [bg EXCEPT ![r] = task]
  BY DEF StartRefresh, backgroundVars
<1> HIDE DEF task
<1> QED BY <1>1, <1>2 DEF Before, Handlers, HandlersOK

(* The steps of a handler that answer from the store.                      *)
LEMMA LookedUp ==
    ASSUME Before, NEW r \in Requests, AnswerFresh(r) \/ AnswerStale(r)
    PROVE  Handlers'
<1>1. pc[r] # "body" /\ revalidations' \in Nat
  BY DEF AnswerFresh, AnswerStale, Looking, metricVars, Before, Handlers, HandlersOK
<1>2. CASE AnswerFresh(r)
  BY <1>1, <1>2, FoundShared, AnswerQuietly, RoleTyped DEF AnswerFresh, Labels
<1>3. CASE AnswerStale(r)
  <2>1. PICK x \in Usable(r) : Answer(r, "STALE", x) /\ StartRefresh(r, x)
    BY <1>3 DEF AnswerStale
  <2>2. x \in Stored /\ Shareable(x.head, x.of)
    BY FoundShared
  <2> QED BY <1>1, <2>1, <2>2, RefreshStarted, AnswerLocal DEF Labels
<1> QED BY <1>2, <1>3

(* The exchange with the origin, where it answers without a body.          *)
LEMMA OriginAnswered ==
    ASSUME Before, NEW r \in Requests,
           \/ \E h \in Heads : AnsweredNotModified(r, h) \/ AnsweredError(r, h)
           \/ OriginFails(r) \/ SendFails(r)
    PROVE  Handlers'
<1>1. revalidations \in Nat
  BY DEF Before, Handlers, HandlersOK
<1>2. pc[r] # "body" /\ revalidations' \in Nat /\ UNCHANGED backgroundVars
  BY <1>1 DEF AnsweredNotModified, AnsweredError, OriginFails, SendFails, metricVars
<1>3. ASSUME NEW label \in Labels, Answer(r, label, None)
      PROVE  Handlers'
  BY <1>2, <1>3, AnswerQuietly
<1>4. ASSUME NEW label \in Labels, Answer(r, label, stale[r]), stale[r] # None
      PROVE  Handlers'
  BY <1>2, <1>4, StaleShared, AnswerQuietly
<1> QED BY <1>3, <1>4
        DEF AnsweredNotModified, AnsweredError, OriginFails, SendFails, Labels,
            Revalidating, MayServeOnError

(* The lookup that finds nothing to serve.                                 *)
LEMMA NothingFound ==
    ASSUME Before, NEW r \in Requests, NoAnswer(r)
    PROVE  Handlers'
<1>1. /\ pc[r] \in Looking /\ pc'[r] \in {"join", "send"} /\ role' = role
      /\ pc[r] = "relook" => pc'[r] = "send"
      /\ UNCHANGED <<kind, key, copy, served, bg, revalidations>>
  BY DEF NoAnswer, flightVars, backgroundVars, metricVars, Before, Handlers,
         HandlersOK, Looking
<1>2. /\ stale' = [stale EXCEPT ![r] = stale'[r]] /\ pc' = [pc EXCEPT ![r] = pc'[r]]
      /\ stale'[r] # None =>
           stale'[r] \in Usable(r) /\ kind[r].method = "GET" /\ may_serve(kind[r])
  BY DEF NoAnswer, Usable, Before, Handlers, HandlersOK
<1>3. Local(r)
  BY LocalHandlers DEF Before
<1>4. Frame(r)
  BY <1>1, <1>2, RoleTyped DEF Frame, Before, Handlers, HandlersOK
<1>5. LocalType(r)'
  BY <1>1, <1>2, <1>3, FoundShared DEF Local, LocalType, Places
<1>6. LocalPlace(r)'
  \* only a request that looks again can lead already
  BY <1>1, <1>3 DEF Local, LocalPlace, Looking
<1>7. LocalShare(r)'
  BY <1>1, <1>2, <1>3, FoundShared DEF Local, LocalShare, Shareable, may_serve
<1> QED BY <1>4, <1>5, <1>6, <1>7, LocalSuffices, RoleTyped DEF Before, Local

(* join_flight and the end of a wait, and the request's way to the origin. *)
LEMMA OnTheWay ==
    ASSUME Before, NEW r \in Requests,
           Join(r) \/ StopWaiting(r) \/ WaitTimesOut(r) \/ Send(r)
    PROVE  Handlers'
<1>1. UNCHANGED <<kind, key, stale, copy, served, bg, revalidations>>
  BY DEF Join, StopWaiting, WaitTimesOut, Send, backgroundVars, metricVars
<1>2. /\ pc' = [pc EXCEPT ![r] = pc'[r]] /\ pc'[r] \in {"wait", "relook", "send", "await"}
      /\ pc[r] \in {"join", "wait", "send"}
      /\ role' = [role EXCEPT ![r] = role'[r]]
      /\ role'[r] \in {"ending", "ended"} => role'[r] = role[r]
      /\ role'[r] = "lead" => pc'[r] \in {"relook", "send", "await"}
  <2> USE RoleTyped DEF Before, Handlers, HandlersOK
  <2>1. CASE Join(r)
    BY <2>1 DEF Join, F!Join, F!JoinFollow, F!JoinLead, F!JoinAlone, flightVars,
                LeadsForAReason
  <2>2. CASE StopWaiting(r) \/ WaitTimesOut(r)
    BY <2>2 DEF StopWaiting, WaitTimesOut, F!Wake, F!GiveUp
  <2>3. CASE Send(r)
    BY <2>3 DEF Send, flightVars
  <2> QED BY <2>1, <2>2, <2>3
<1>3. Local(r)
  BY LocalHandlers DEF Before
<1>4. Frame(r)
  BY <1>1, <1>2 DEF Frame, Before, Handlers, HandlersOK
<1>5. LocalType(r)' /\ LocalShare(r)'
  BY <1>1, <1>2, <1>3 DEF Local, LocalType, LocalShare, Places, Shareable
<1>6. LocalPlace(r)'
  BY <1>1, <1>2, <1>3 DEF Local, LocalPlace
<1> QED BY <1>4, <1>5, <1>6, LocalSuffices, RoleTyped DEF Before, Local

(* The origin's response is passed on: its body is copied, and the flight  *)
(* held, exactly when a storable copy of it may become whole.              *)
LEMMA PassedOn ==
    ASSUME Before, NEW r \in Requests, NEW h \in Heads, AnsweredThrough(r, h)
    PROVE  Handlers'
<1> USE RoleTyped
<1>1. Local(r)
  BY LocalHandlers DEF Before
<1>2. /\ UNCHANGED <<kind, key, bg, revalidations>> /\ pc[r] = "await"
      /\ pc' = [pc EXCEPT ![r] = "body"] /\ stale' = [stale EXCEPT ![r] = None]
      /\ served' = [served EXCEPT ![r] = Served("MISS", None)]
      /\ copy' = [copy EXCEPT ![r] = copy'[r]]
      /\ copy'[r] = IF Copied(r, h) THEN h ELSE None
  BY DEF AnsweredThrough, backgroundVars, Before, Handlers, HandlersOK
<1>3. role' = [role EXCEPT ![r] = role'[r]]
  BY ReleaseRole DEF AnsweredThrough, HoldFlight, flightVars, Before
<1>4. /\ role'[r] = "lead" => copy'[r] # None
      /\ role'[r] \in {"ending", "ended"} => copy'[r] = None
  <2>1. role[r] \notin {"ending", "ended"} /\ h # None
    BY <1>1, <1>2 DEF Local, LocalPlace
  <2>2. CASE Copied(r, h)
    BY <1>2, <2>1, <2>2 DEF AnsweredThrough, HoldFlight, flightVars
  <2>3. CASE ~Copied(r, h)
    BY <1>2, <2>3, ReleaseRole DEF AnsweredThrough, HoldFlight, Before
  <2> QED BY <2>2, <2>3
<1>5. Frame(r)
  BY <1>2, <1>3 DEF Frame, Before, Handlers, HandlersOK
<1>6. pc'[r] = "body" /\ stale'[r] = None /\ served'[r] = Served("MISS", None)
  BY <1>2 DEF Before, Handlers, HandlersOK
<1>7. LocalType(r)'
  BY <1>1, <1>2, <1>6, ServedTyped DEF Local, LocalType, Places, Labels
<1>8. LocalPlace(r)'
  BY <1>1, <1>2, <1>4, <1>6 DEF Local, LocalPlace
<1>9. LocalShare(r)'
  <2>1. copy'[r] # None => Shareable(copy'[r], kind[r])
    BY <1>2, StorableShared DEF Copied, Before, Handlers, HandlersOK
  <2>2. served'[r].from = None
    BY <1>6 DEF Served
  <2> QED BY <1>1, <1>2, <1>6, <2>1, <2>2 DEF Local, LocalShare, Shareable
<1> QED BY <1>5, <1>7, <1>8, <1>9, LocalSuffices DEF Before, Local

(* Every end of a body, and a client that leaves.                          *)
LEMMA BodyOver ==
    ASSUME Before, NEW r \in Requests,
           BodyEnds(r) \/ BodyPassesLimit(r) \/ BodyFails(r) \/ ClientLeaves(r)
    PROVE  Handlers'
<1> USE RoleTyped
<1>1. Local(r)
  BY LocalHandlers DEF Before
<1>2. /\ UNCHANGED <<kind, key, served, bg, revalidations>>
      /\ pc[r] \in {"wait", "send", "await", "body"}
      /\ pc' = [pc EXCEPT ![r] = pc'[r]] /\ pc'[r] \in {"body", "done", "left"}
      /\ pc'[r] = "body" => pc[r] = "body"
      /\ copy' = [copy EXCEPT ![r] = None]
      /\ stale' = [stale EXCEPT ![r] = stale'[r]] /\ stale'[r] \in {stale[r], None}
  BY DEF BodyEnds, BodyPassesLimit, BodyFails, ClientLeaves, backgroundVars,
         metricVars, Before, Handlers, HandlersOK
<1>3. role' = [role EXCEPT ![r] = role'[r]] /\ role'[r] # "lead"
  <2>1. CASE ReleaseFlight(r)
    BY <2>1, ReleaseRole DEF Before
  <2>2. CASE F!GiveUp(r)
    BY <2>2 DEF F!GiveUp
  <2> QED BY <2>1, <2>2 DEF BodyEnds, BodyPassesLimit, BodyFails, ClientLeaves
<1>4. copy'[r] = None
  BY <1>2 DEF Before, Handlers, HandlersOK
<1>5. Frame(r)
  BY <1>2, <1>3 DEF Frame, Before, Handlers, HandlersOK
<1>6. LocalType(r)' /\ LocalShare(r)'
  BY <1>1, <1>2, <1>4 DEF Local, LocalType, LocalShare, Places, Shareable
<1>7. LocalPlace(r)'
  BY <1>1, <1>2, <1>3, <1>4 DEF Local, LocalPlace
<1> QED BY <1>5, <1>6, <1>7, LocalSuffices DEF Before, Local

(* A background refresh: its request was answered when it started.         *)
LEMMA RefreshMoves ==
    ASSUME Before, NEW r \in Requests, RefreshStep(r)
    PROVE  /\ Handlers' /\ UNCHANGED <<pc, key>> /\ bg[r] # None
           /\ \/ RefreshDone(r)
              \/ /\ bg' = [bg EXCEPT ![r] = bg'[r]] /\ UNCHANGED refreshing
                 /\ bg'[r] # None /\ bg'[r].entry = bg[r].entry
<1> USE RoleTyped
<1>1. Local(r)
  BY LocalHandlers DEF Before
<1>2. /\ UNCHANGED <<flightVars, taskVars>> /\ revalidations' \in Nat /\ bg[r] # None
      /\ bg[r] \in Refresh
  BY <1>1 DEF RefreshStep, RefreshNotModified, RefreshAnswered, RefreshFails,
         RefreshStores, RefreshBodyFails, RefreshAwaits, metricVars,
         Before, Handlers, HandlersOK, Local, LocalType
<1>3. \/ RefreshDone(r)
      \/ \E h \in Heads :
           /\ storable(kind[r], h) /\ UNCHANGED refreshing
           /\ bg' = [bg EXCEPT ![r].at = "body", ![r].head = h]
  BY DEF RefreshStep, RefreshNotModified, RefreshAnswered, RefreshFails,
         RefreshStores, RefreshBodyFails
<1>4. ASSUME NEW h \in Heads, storable(kind[r], h),
             bg' = [bg EXCEPT ![r].at = "body", ![r].head = h]
      PROVE  /\ bg' = [bg EXCEPT ![r] = bg'[r]] /\ bg'[r] \in Refresh
             /\ bg'[r].at = "body" /\ bg'[r].head = h /\ bg'[r].entry = bg[r].entry
             /\ h # None /\ Shareable(h, kind[r])
  <2>1. bg' = [bg EXCEPT ![r] = [bg[r] EXCEPT !.at = "body", !.head = h]]
    BY <1>4
  <2>2. bg'[r] = [bg[r] EXCEPT !.at = "body", !.head = h]
    BY <2>1 DEF Before, Handlers, HandlersOK
  <2>3. h # None /\ Shareable(h, kind[r])
    BY <1>4, StorableShared DEF Before, Handlers, HandlersOK
  <2>4. /\ bg'[r] \in Refresh /\ bg'[r].at = "body"
        /\ bg'[r].head = h /\ bg'[r].entry = bg[r].entry
    BY <1>2, <2>2 DEF Refresh
  <2> QED BY <2>1, <2>2, <2>3, <2>4
<1>5. bg' = [bg EXCEPT ![r] = bg'[r]] /\ bg'[r] \in Refresh \cup {None}
  BY <1>3, <1>4 DEF RefreshDone, Before, Handlers, HandlersOK
<1>6. bg'[r] # None =>
        /\ bg'[r].at = "body" /\ bg'[r].head # None /\ bg'[r].entry = bg[r].entry
        /\ Shareable(bg'[r].head, kind[r]) /\ UNCHANGED refreshing
  BY <1>3, <1>4 DEF RefreshDone, Before, Handlers, HandlersOK
<1>7. Frame(r)
  BY <1>2, <1>5 DEF Frame, taskVars, flightVars, Before, Handlers, HandlersOK
<1>8. LocalType(r)' /\ LocalPlace(r)'
  BY <1>1, <1>2, <1>5 DEF Local, LocalType, LocalPlace, taskVars, flightVars
<1>9. LocalShare(r)'
  BY <1>1, <1>2, <1>6 DEF Local, LocalShare, taskVars, Shareable
<1>10. Handlers'
  BY <1>7, <1>8, <1>9, LocalSuffices DEF Before, Local
<1>11. bg'[r] = None => RefreshDone(r)
  BY <1>3, <1>4
<1> QED BY <1>2, <1>5, <1>6, <1>10, <1>11 DEF taskVars

(* The sender of a guard goes; its request's handler has left its flight.  *)
LEMMA DropEnds ==
    ASSUME Before, NEW r \in Requests, EndDrop(r)
    PROVE  Handlers'
<1>1. Local(r)
  BY LocalHandlers DEF Before
<1>2. /\ UNCHANGED <<pc, kind, key, stale, copy, served, bg, revalidations>>
      /\ role[r] = "ending" /\ role' = [role EXCEPT ![r] = "ended"]
  BY DEF EndDrop, F!DropSender, taskVars, backgroundVars, metricVars
<1>3. Frame(r) /\ role'[r] = "ended"
  BY <1>2, RoleTyped DEF Frame, Before, Handlers, HandlersOK
<1>4. Local(r)'
  BY <1>1, <1>2, <1>3 DEF Local, LocalType, LocalPlace, LocalShare, Shareable
<1> QED BY <1>3, <1>4, LocalSuffices, RoleTyped DEF Before

(* Every step of the proxy keeps what IInv says of the handlers.           *)
LEMMA HandlersKept ==
    ASSUME Before, [Next]_vars
    PROVE  Handlers'
<1>1. CASE UNCHANGED <<flightVars, taskVars, backgroundVars, metricVars>>
  BY <1>1 DEF flightVars, taskVars, backgroundVars, metricVars, Before, Handlers,
              HandlersOK, Handling, LeadsForAReason, NothingPrivateServed, LocalShare,
              Shareable
<1>2. ASSUME NEW r \in Requests, HandlerStep(r) \/ ClientStep(r)
      PROVE  Handlers'
  BY <1>2, LookedUp, NothingFound, OnTheWay, OriginAnswered, PassedOn, BodyOver
     DEF HandlerStep, ClientStep
<1>3. ASSUME NEW r \in Requests, EndDrop(r) \/ RefreshStep(r)
      PROVE  Handlers'
  BY <1>3, DropEnds, RefreshMoves
<1>4. CASE \/ Tick \/ \E k \in Keys : EvictIndex(k) \/ EvictEntry(k)
           \/ UNCHANGED vars
  BY <1>1, <1>4 DEF Tick, EvictIndex, EvictEntry, vars
<1> QED BY <1>2, <1>3, <1>4 DEF Next

-----------------------------------------------------------------------------
(* The claims of the background refreshes *)

(* The claims are those of the running tasks, stated claim by claim.       *)
LEMMA ClaimByClaim ==
    OneRefreshPerKey <=>
        /\ \A r \in Requests : bg[r] # None => Claim(r) \in refreshing
        /\ \A c \in refreshing : \E r \in Requests : bg[r] # None /\ c = Claim(r)
        /\ \A r, s \in Requests :
              bg[r] # None /\ bg[s] # None /\ Claim(r) = Claim(s) => r = s
  BY DEF OneRefreshPerKey, Refreshers

LEMMA ClaimByClaimNext ==
    OneRefreshPerKey' <=>
        /\ \A r \in Requests : bg'[r] # None => Claim(r)' \in refreshing'
        /\ \A c \in refreshing' : \E r \in Requests : bg'[r] # None /\ c = Claim(r)'
        /\ \A r, s \in Requests :
              bg'[r] # None /\ bg'[s] # None /\ Claim(r)' = Claim(s)' => r = s
  BY DEF OneRefreshPerKey, Refreshers

(* refresh_in_background claims a key that no task has claimed.            *)
LEMMA RefreshClaims ==
    ASSUME Before, OneRefreshPerKey, NEW r \in Requests, AnswerStale(r)
    PROVE  OneRefreshPerKey'
<1>1. PICK x \in Usable(r) : StartRefresh(r, x)
  BY DEF AnswerStale
<1>2. bg[r] = None /\ key' = key
  BY DEF AnswerStale, Answer, Looking, Before, Handlers, Handling
<1>3. CASE UNCHANGED backgroundVars
  BY <1>2, <1>3 DEF OneRefreshPerKey, Refreshers, Claim, backgroundVars
<1>4. CASE /\ <<key[r], x.generation>> \notin refreshing
           /\ refreshing' = refreshing \cup {<<key[r], x.generation>>}
           /\ bg' = [bg EXCEPT ![r] = [at |-> "await", entry |-> x, head |-> None]]
  <2>1. Claim(r)' = <<key[r], x.generation>> /\ bg'[r] # None
    <3>1. [at |-> "await", entry |-> x, head |-> None] \in Refresh
      BY FoundShared DEF Refresh
    <3> QED BY <1>2, <1>4, <3>1 DEF Claim, Before, Handlers, HandlersOK
  <2>2. \A s \in Requests \ {r} : bg'[s] = bg[s] /\ Claim(s)' = Claim(s)
    BY <1>2, <1>4 DEF Claim, Before, Handlers, HandlersOK
  <2> QED BY <1>2, <1>4, <2>1, <2>2, ClaimByClaim, ClaimByClaimNext
<1> QED BY <1>1, <1>3, <1>4 DEF StartRefresh

(* A task keeps its claim until it ends, and then gives up that one only.  *)
LEMMA RefreshReleases ==
    ASSUME Before, OneRefreshPerKey, NEW r \in Requests, RefreshStep(r)
    PROVE  OneRefreshPerKey'
<1>1. CASE RefreshDone(r)
  <2>1. /\ refreshing' = refreshing \ {Claim(r)} /\ bg'[r] = None /\ bg[r] # None
        /\ \A s \in Requests \ {r} : bg'[s] = bg[s] /\ Claim(s)' = Claim(s)
    BY <1>1, RefreshMoves DEF RefreshDone, Claim, Before, Handlers, HandlersOK
  <2> QED BY <2>1, ClaimByClaim, ClaimByClaimNext
<1>2. CASE /\ bg' = [bg EXCEPT ![r] = bg'[r]] /\ UNCHANGED refreshing
           /\ bg'[r] # None /\ bg'[r].entry = bg[r].entry
  <2>1. \A s \in Requests : (bg'[s] # None <=> bg[s] # None) /\ Claim(s)' = Claim(s)
    BY <1>2, RefreshMoves DEF Claim, Before, Handlers, HandlersOK
  <2> QED BY <1>2, <2>1, ClaimByClaim, ClaimByClaimNext
<1> QED BY <1>1, <1>2, RefreshMoves

(* No other step touches the claims.                                       *)
LEMMA ClaimsKept ==
    ASSUME Before, OneRefreshPerKey, [Next]_vars
    PROVE  OneRefreshPerKey'
<1>1. CASE UNCHANGED <<backgroundVars, key>>
  BY <1>1 DEF OneRefreshPerKey, Refreshers, Claim, backgroundVars
<1>2. ASSUME NEW r \in Requests, HandlerStep(r) \/ ClientStep(r) \/ EndDrop(r)
      PROVE  OneRefreshPerKey'
  BY <1>1, <1>2, RefreshClaims
     DEF HandlerStep, ClientStep, AnswerFresh, NoAnswer, Join, StopWaiting,
         WaitTimesOut, AnsweredNotModified, AnsweredError, AnsweredThrough,
         OriginFails, Answer, Send, SendFails, BodyEnds, BodyPassesLimit, BodyFails,
         ClientLeaves, EndDrop, taskVars
<1>3. CASE \/ Tick \/ \E k \in Keys : EvictIndex(k) \/ EvictEntry(k)
           \/ UNCHANGED vars
  BY <1>1, <1>3 DEF Tick, EvictIndex, EvictEntry, taskVars, vars
<1> QED BY <1>2, <1>3, RefreshReleases DEF Next

-----------------------------------------------------------------------------
(* How a handler came to its part in a flight *)

JoinLocal(r) ==
    /\ pc[r] \in {"new", "join"} => role[r] = "new"
    /\ pc[r] = "wait" => role[r] = "follow"
    /\ pc[r] = "relook" \/ Fetching(r) => role[r] \in {"lead", "woken", "gaveup"}
    /\ role[r] = "lead" => guard[r] = key[r]

(* Again it is enough to look at the request whose step it is.             *)
LEMMA JoinLocalSuffices ==
    ASSUME Before, Joining, NEW r \in Requests, UNCHANGED <<kind, key>>,
           pc' = [pc EXCEPT ![r] = pc'[r]], copy' = [copy EXCEPT ![r] = copy'[r]],
           role' = [role EXCEPT ![r] = role'[r]],
           guard' = [guard EXCEPT ![r] = guard'[r]], JoinLocal(r)'
    PROVE  Joining'
<1>1. ASSUME NEW s \in Requests, s # r PROVE JoinLocal(s)'
  <2>1. JoinLocal(s)
    BY DEF Joining, JoinLocal
  <2>2. /\ pc'[s] = pc[s] /\ copy'[s] = copy[s] /\ role'[s] = role[s]
        /\ guard'[s] = guard[s] /\ kind'[s] = kind[s] /\ key'[s] = key[s]
    BY <1>1, RoleTyped DEF Before, Handlers, HandlersOK, F!IInv, F!TypeOK
  <2>3. Fetching(s)' <=> Fetching(s)
    BY <2>2 DEF Fetching
  <2> QED BY <2>1, <2>2, <2>3 DEF JoinLocal
<1> QED BY <1>1 DEF Joining, JoinLocal

(* What a step that may release the flight does to the guards.             *)
LEMMA ReleaseGuard ==
    ASSUME Before, NEW r \in Requests, ReleaseFlight(r)
    PROVE  /\ role' = [role EXCEPT ![r] = role'[r]] /\ role'[r] # "lead"
           /\ guard' = [guard EXCEPT ![r] = guard'[r]]
  BY ReleaseRole DEF Before, ReleaseFlight, F!RemoveKey, F!IInv, F!TypeOK, flightVars

(* A request that is over, or goes on without a copy, leads no more.       *)
LEMMA JoinOver ==
    ASSUME Before, Joining, NEW r \in Requests, ReleaseFlight(r) \/ F!GiveUp(r),
           UNCHANGED <<kind, key>>, pc' = [pc EXCEPT ![r] = pc'[r]],
           pc'[r] \in {"body", "done", "left"},
           copy' = [copy EXCEPT ![r] = copy'[r]], copy'[r] = None
    PROVE  Joining'
<1>1. /\ role' = [role EXCEPT ![r] = role'[r]] /\ role'[r] # "lead"
      /\ guard' = [guard EXCEPT ![r] = guard'[r]]
  <2>1. CASE ReleaseFlight(r)
    BY <2>1, ReleaseGuard
  <2>2. CASE F!GiveUp(r)
    BY <2>2 DEF F!GiveUp, Before, F!IInv, F!TypeOK
  <2> QED BY <2>1, <2>2
<1>2. JoinLocal(r)'
  BY <1>1 DEF JoinLocal, Fetching
<1> QED BY <1>1, <1>2, JoinLocalSuffices

(* A request finds a flight for its own key, leads that key, or waits.     *)
LEMMA JoinKept ==
    ASSUME Before, Joining, NEW r \in Requests,
           Join(r) \/ StopWaiting(r) \/ WaitTimesOut(r)
    PROVE  Joining'
<1>1. /\ UNCHANGED <<kind, key, copy>> /\ copy[r] = None
      /\ pc' = [pc EXCEPT ![r] = pc'[r]] /\ copy' = [copy EXCEPT ![r] = copy'[r]]
  BY DEF Join, StopWaiting, WaitTimesOut, Before, Handlers, HandlersOK, Handling
<1>2. /\ role \in [Requests -> F!Roles] /\ guard \in [Requests -> Keys \cup {NoKey}]
      /\ pc \in [Requests -> Places] /\ JoinLocal(r)
  BY DEF Before, F!IInv, F!TypeOK, Handlers, HandlersOK, Joining, JoinLocal
<1>3. CASE Join(r) /\ may_coalesce(kind[r])
  <2>1. /\ F!Join(r, key[r], may_lead(kind[r]))
        /\ pc'[r] = IF role'[r] = "follow" THEN "wait"
                    ELSE IF role'[r] = "lead" THEN "relook" ELSE "send"
    BY <1>2, <1>3 DEF Join
  <2>2. /\ role' = [role EXCEPT ![r] = role'[r]]
        /\ guard' = [guard EXCEPT ![r] = guard'[r]]
        /\ role'[r] \in {"follow", "lead", "alone"}
        /\ role'[r] = "lead" => guard'[r] = key[r]
        /\ role'[r] = "alone" => ~may_lead(kind[r])
    BY <1>2, <2>1 DEF F!Join, F!JoinFollow, F!JoinLead, F!JoinAlone
  <2>3. JoinLocal(r)'
    BY <1>1, <2>1, <2>2 DEF JoinLocal, Fetching
  <2> QED BY <1>1, <2>2, <2>3, JoinLocalSuffices
<1>4. CASE Join(r) /\ ~may_coalesce(kind[r])
  <2>1. /\ pc'[r] = "send" /\ UNCHANGED <<role, guard>> /\ role[r] = "new"
        /\ role' = [role EXCEPT ![r] = role'[r]]
        /\ guard' = [guard EXCEPT ![r] = guard'[r]]
    BY <1>2, <1>4 DEF Join, flightVars, JoinLocal
  <2>2. JoinLocal(r)'
    BY <1>1, <1>4, <2>1 DEF JoinLocal, Fetching, may_lead
  <2> QED BY <1>1, <2>1, <2>2, JoinLocalSuffices
<1>5. CASE StopWaiting(r) \/ WaitTimesOut(r)
  <2>1. /\ pc'[r] = "relook" /\ role'[r] \in {"woken", "gaveup"}
        /\ role' = [role EXCEPT ![r] = role'[r]]
        /\ guard' = [guard EXCEPT ![r] = guard'[r]]
    BY <1>2, <1>5 DEF StopWaiting, WaitTimesOut, F!Wake, F!GiveUp
  <2>2. JoinLocal(r)'
    BY <1>1, <2>1 DEF JoinLocal, Fetching
  <2> QED BY <1>1, <2>1, <2>2, JoinLocalSuffices
<1> QED BY <1>3, <1>4, <1>5

(* Lookups and the way to the origin keep the part; a copy keeps it too.   *)
LEMMA PartKept ==
    ASSUME Before, Joining, NEW r \in Requests,
           \/ NoAnswer(r) \/ Send(r)
           \/ \E h \in Heads : AnsweredThrough(r, h) /\ Copied(r, h)
    PROVE  Joining'
<1>1. /\ UNCHANGED <<kind, key, role, guard>>
      /\ pc' = [pc EXCEPT ![r] = pc'[r]] /\ copy' = [copy EXCEPT ![r] = copy'[r]]
      /\ role' = [role EXCEPT ![r] = role'[r]]
      /\ guard' = [guard EXCEPT ![r] = guard'[r]]
  BY RoleTyped DEF NoAnswer, Send, AnsweredThrough, HoldFlight, flightVars, Before,
         F!IInv, F!TypeOK, Handlers, HandlersOK
<1>2. /\ pc'[r] \in {"join", "send", "await", "body"}
      /\ pc'[r] = "join" => pc[r] = "new"
      /\ pc'[r] = "send" => pc[r] = "relook"
      /\ pc'[r] \in {"await", "body"} => pc[r] \in {"send", "await"}
      /\ copy[r] = None /\ (copy'[r] # None => pc'[r] = "body")
  BY DEF NoAnswer, Send, AnsweredThrough, Looking, Before, Handlers, HandlersOK, Handling
<1>3. JoinLocal(r)
  BY DEF Joining, JoinLocal
<1>4. JoinLocal(r)'
  BY <1>1, <1>2, <1>3 DEF JoinLocal, Fetching
<1> QED BY <1>1, <1>4, JoinLocalSuffices

(* Every step keeps it.                                                    *)
LEMMA JoiningKept ==
    ASSUME Before, Joining, [Next]_vars
    PROVE  Joining'
<1>1. CASE UNCHANGED <<flightVars, pc, kind, key, copy>>
  BY <1>1 DEF Joining, Fetching, flightVars
<1>2. ASSUME NEW r \in Requests, NEW label, NEW x, Answer(r, label, x), pc[r] # "body"
      PROVE  Joining'
  BY <1>2, JoinOver DEF Answer, Before, Handlers, HandlersOK, Handling
<1>3. ASSUME NEW r \in Requests, HandlerStep(r)
      PROVE  Joining'
  <2>1. CASE AnswerFresh(r) \/ AnswerStale(r)
    BY <1>2, <2>1 DEF AnswerFresh, AnswerStale, Looking
  <2>2. ASSUME NEW h \in Heads, AnsweredNotModified(r, h) \/ AnsweredError(r, h)
        PROVE  Joining'
    BY <1>2, <2>2 DEF AnsweredNotModified, AnsweredError
  <2>3. ASSUME NEW h \in Heads, AnsweredThrough(r, h), ~Copied(r, h)
        PROVE  Joining'
    BY <2>3, JoinOver DEF AnsweredThrough, HoldFlight, Before, Handlers, HandlersOK
  <2>4. CASE OriginFails(r)
    BY <1>2, <2>4 DEF OriginFails
  <2> QED BY <1>3, <2>1, <2>2, <2>3, <2>4, JoinKept, PartKept DEF HandlerStep
<1>4. ASSUME NEW r \in Requests, ClientStep(r)
      PROVE  Joining'
  <2>1. CASE SendFails(r)
    BY <1>2, <2>1 DEF SendFails
  <2>2. CASE BodyEnds(r) \/ BodyPassesLimit(r) \/ BodyFails(r) \/ ClientLeaves(r)
    <3>1. /\ ReleaseFlight(r) \/ F!GiveUp(r)
          /\ UNCHANGED <<kind, key>> /\ pc' = [pc EXCEPT ![r] = pc'[r]]
          /\ pc'[r] \in {"body", "done", "left"}
          /\ copy' = [copy EXCEPT ![r] = copy'[r]] /\ copy'[r] = None
      BY <2>2 DEF BodyEnds, BodyPassesLimit, BodyFails, ClientLeaves, Before, Handlers,
                  HandlersOK
    <3> QED BY <3>1, JoinOver
  <2> QED BY <1>4, <2>1, <2>2, PartKept DEF ClientStep
<1>5. ASSUME NEW r \in Requests, EndDrop(r)
      PROVE  Joining'
  <2>1. /\ UNCHANGED <<kind, key, pc, copy>> /\ role[r] = "ending" /\ role'[r] = "ended"
        /\ role' = [role EXCEPT ![r] = role'[r]]
        /\ guard' = [guard EXCEPT ![r] = guard'[r]]
        /\ pc' = [pc EXCEPT ![r] = pc'[r]] /\ copy' = [copy EXCEPT ![r] = copy'[r]]
    BY <1>5 DEF EndDrop, F!DropSender, taskVars, Before, F!IInv, F!TypeOK, Handlers,
                HandlersOK
  <2>2. pc[r] \in {"body", "done", "left"} /\ copy[r] = None
    BY <2>1 DEF Before, Handlers, Handling
  <2>3. JoinLocal(r)'
    BY <2>1, <2>2 DEF JoinLocal, Fetching
  <2> QED BY <2>1, <2>3, JoinLocalSuffices
<1>6. CASE \/ \E r \in Requests : RefreshStep(r)
           \/ Tick \/ \E k \in Keys : EvictIndex(k) \/ EvictEntry(k)
           \/ UNCHANGED vars
  BY <1>1, <1>6
     DEF RefreshStep, RefreshNotModified, RefreshAnswered, RefreshFails,
         RefreshStores, RefreshBodyFails, Tick, EvictIndex, EvictEntry, vars, taskVars
<1> QED BY <1>3, <1>4, <1>5, <1>6 DEF Next

-----------------------------------------------------------------------------
(* The invariant *)

LEMMA Parts == IInv <=> Before /\ OneRefreshPerKey /\ Joining
  BY DEF IInv, TypeOK, Before, Handlers, Sharing, StoreShared, LocalShare,
         NothingPrivateServed

LEMMA PartsNext == Before' /\ OneRefreshPerKey' /\ Joining' => IInv'
  BY DEF IInv, TypeOK, Before, Handlers, Sharing, StoreShared, LocalShare,
         NothingPrivateServed

(* The proxy starts with an empty store and no requests.                   *)
LEMMA InitIInv == Init => IInv
<1> SUFFICES ASSUME Init PROVE IInv
  OBVIOUS
<1>1. StoreOK
  BY DEF Init, StoreOK
<1>2. HandlersOK
  BY DEF Init, HandlersOK, Places
<1>3. F!IInv
  BY FlightsInit DEF Init
<1>4. \A r \in Requests : role[r] = "new"
  BY DEF Init, F!Init
<1>5. Handling /\ Joining /\ Sharing /\ LeadsForAReason /\ NothingPrivateServed
  BY <1>4 DEF Init, Handling, Joining, Fetching, Sharing, LeadsForAReason,
              NothingPrivateServed
<1>6. OneRefreshPerKey
  BY DEF Init, OneRefreshPerKey, Refreshers
<1> QED BY <1>1, <1>2, <1>3, <1>5, <1>6 DEF IInv, TypeOK

(* Every step keeps IInv.                                                  *)
LEMMA NextIInv ==
    ASSUME IInv, [Next]_vars
    PROVE  IInv'
<1>1. Before /\ OneRefreshPerKey /\ Joining
  BY Parts
<1>2. StoreOK' /\ StoreShared'
  BY <1>1, StoreStep, GrowsOK, ShrinksOK DEF IInv, Before
<1>3. F!IInv'
  BY FlightStep, FlightsKept DEF IInv
<1>4. Handlers'
  BY <1>1, HandlersKept
<1>5. OneRefreshPerKey'
  BY <1>1, ClaimsKept
<1>6. Joining'
  BY <1>1, JoiningKept
<1> QED BY <1>2, <1>3, <1>4, <1>5, <1>6, PartsNext DEF Before

(* IInv holds in every reachable state of the proxy (src/proxy.rs over     *)
(* src/cache.rs and src/coalesce.rs).                                      *)
THEOREM Inductive == Spec => []IInv
<1>1. IInv /\ [Next]_vars => IInv'
  BY NextIInv
<1> QED BY InitIInv, <1>1, PTL DEF Spec

(* Every variable keeps its type, the store holds one response for each    *)
(* generation of a key, and its counter stays ahead (cache.rs).            *)
THEOREM TypeCorrect == Spec => []TypeOK
<1>1. IInv => TypeOK
  BY DEF IInv
<1> QED BY <1>1, Inductive, PTL

(* Followers look the store up only once the outcome is known (proxy.rs,   *)
(* Storing::holding, wait_for_leader).                                     *)
THEOREM FollowersKnow == Spec => []OutcomeKnown
<1>1. IInv => OutcomeKnown
  <2> SUFFICES ASSUME IInv, NEW r \in Requests, role[r] = "woken"
               PROVE  /\ pc[waiter[r]] \notin {"relook", "send", "await"}
                      /\ copy[waiter[r]] = None
    BY DEF OutcomeKnown
  <2>1. waiter[r] \in Requests /\ role[waiter[r]] = "ended"
    BY DEF IInv, F!IInv, F!WaitersMatchFlights
  <2> QED BY <2>1 DEF IInv, Handling
<1> QED BY <1>1, Inductive, PTL

(* A flight does not outlive its reason, on any way out of forward and of  *)
(* the body (proxy.rs, FlightGuard's owners).                              *)
THEOREM FlightsEnd == Spec => []LeadsForAReason
<1>1. IInv => LeadsForAReason
  BY DEF IInv
<1> QED BY <1>1, Inductive, PTL

(* At most one background refresh runs for a stored response, and a claim  *)
(* ends with its task (proxy.rs, refresh_in_background).                   *)
THEOREM RefreshesUnique == Spec => []OneRefreshPerKey
<1>1. IInv => OneRefreshPerKey
  BY DEF IInv
<1> QED BY <1>1, Inductive, PTL

(* Nothing that a shared cache may not keep is served from the store,      *)
(* whatever requests and refreshes put there (proxy.rs, cache.rs).         *)
THEOREM PrivateStaysPrivate == Spec => []NothingPrivateServed
<1>1. IInv => NothingPrivateServed
  BY DEF IInv
<1> QED BY <1>1, Inductive, PTL

(* Misses on one key share one fetch, but for requests that have waited    *)
(* (proxy.rs, serve_from_cache and join_flight over coalesce.rs).          *)
THEOREM MissesShare == Spec => []MissesCollapse
<1>1. IInv => MissesCollapse
  <2> SUFFICES ASSUME IInv, NEW r \in Requests, NEW s \in Requests, r # s,
                      key[r] = key[s], Fetching(r), Fetching(s)
               PROVE  \E x \in {r, s} :
                         \/ role[x] = "gaveup"
                         \/ role[x] = "woken" /\ waiter[x] \notin {r, s}
    BY DEF MissesCollapse
  <2>1. \A x \in {r, s} : role[x] \in {"lead", "woken", "gaveup"}
    BY DEF IInv, Joining
  \* a leader that has woken its followers does not fetch any more
  <2>2. \A x \in {r, s} : role[x] = "woken" => waiter[x] \notin {r, s}
    <3>1. \A x \in {r, s} : role[x] = "woken" => role[waiter[x]] = "ended"
      BY DEF IInv, F!IInv, F!WaitersMatchFlights
    <3> QED BY <2>1, <3>1
  <2>3. ~(role[r] = "lead" /\ role[s] = "lead")
    BY DEF IInv, Joining, F!IInv, F!MapMatchesGuards
  <2> QED BY <2>1, <2>2, <2>3
<1> QED BY <1>1, Inductive, PTL

-----------------------------------------------------------------------------
(* What is served at the moment it is served *)

(* A response that is fresh for the request may answer it.                 *)
LEMMA FreshMayAnswer ==
    ASSUME NEW q \in Kind, NEW x \in Stored, FreshFor(q, x), NEW looking,
           NEW label, label \notin {"STALE", "REVALIDATED"}
    PROVE  MayAnswer(q, [head |-> x.head, at |-> x.at, of |-> x.of], label, looking)
  BY DEF MayAnswer, FreshFor, is_fresh, age, Elapsed, Ttl

(* So may one that is stale and within its window.                         *)
LEMMA StaleMayAnswer ==
    ASSUME now \in Nat, NEW q \in Kind, NEW x \in Stored, NEW looking,
           q.method = "GET", may_serve_stale(q),
           stale_within(x, IF looking THEN x.head.while_revalidate ELSE x.head.if_error)
    PROVE  MayAnswer(q, [head |-> x.head, at |-> x.at, of |-> x.of], "STALE", looking)
<1> DEFINE window == IF looking THEN x.head.while_revalidate ELSE x.head.if_error
           ttl == Least(x.head.lifetime - x.head.age, CacheTtl)
<1>1. x.at \in Nat /\ x.head \in Head /\ window \in Nat
  BY DEF Stored, Head
<1>2. ttl \in Int /\ now - x.at \in Int
  BY <1>1 DEF Least, Head
<1>3. now - x.at - ttl < window /\ ~x.head.must_revalidate
  BY DEF stale_within, Elapsed, Ttl
<1>4. now - x.at < ttl + window
  BY <1>1, <1>2, <1>3
<1> QED BY <1>3, <1>4 DEF MayAnswer, may_serve_stale

(* What the rules ask of one request's answer.                             *)
ByTheRules(s) ==
    served'[s] # served[s] /\ served'[s].from # None =>
        MayAnswer(kind[s], served'[s].from, served'[s].label, pc[s] \in Looking)

(* It is enough that the response that answers the request may do so.      *)
LEMMA AnsweredByTheRules ==
    ASSUME IInv, NEW r \in Requests, NEW label, NEW x \in Stored \cup {None},
           served' = [served EXCEPT ![r] = Served(label, x)],
           x # None => MayAnswer(kind[r], [head |-> x.head, at |-> x.at, of |-> x.of],
                                 label, pc[r] \in Looking)
    PROVE  \A s \in Requests : ByTheRules(s)
<1> SUFFICES ASSUME NEW s \in Requests, served'[s] # served[s], served'[s].from # None
             PROVE  MayAnswer(kind[s], served'[s].from, served'[s].label,
                              pc[s] \in Looking)
  BY DEF ByTheRules
<1>1. s = r /\ served'[r] = Served(label, x)
  BY DEF IInv, TypeOK, HandlersOK
<1>2. x # None
  BY <1>1 DEF Served
<1>3. served'[r].label = label
      /\ served'[r].from = [head |-> x.head, at |-> x.at, of |-> x.of]
  BY <1>1, <1>2 DEF Served
<1> QED BY <1>1, <1>2, <1>3

(* A response is served only while it is fresh enough for the request or   *)
(* within the stale window that applies, although it was looked up before  *)
(* (proxy.rs, from_cache, Exchange::answered and Exchange::failed).        *)
THEOREM RulesKept == Spec => ServedByTheRules
<1> DEFINE A == \A r \in Requests :
          served'[r] # served[r] /\ served'[r].from # None =>
              MayAnswer(kind[r], served'[r].from, served'[r].label, pc[r] \in Looking)
<1>1. IInv /\ [Next]_vars => [A]_vars
  <2> SUFFICES ASSUME IInv, Next
               PROVE  \A s \in Requests : ByTheRules(s)
    BY DEF ByTheRules
  <2>1. Before /\ now \in Nat /\ kind \in [Requests -> Kind]
    BY Parts DEF IInv, TypeOK, StoreOK, HandlersOK
  <2>2. CASE UNCHANGED served
    BY <2>2 DEF ByTheRules
  <2>3. ASSUME NEW r \in Requests, NEW label, Answer(r, label, None)
        PROVE  \A s \in Requests : ByTheRules(s)
    BY <2>3, AnsweredByTheRules DEF Answer
  <2>4. ASSUME NEW r \in Requests, AnswerFresh(r)
        PROVE  \A s \in Requests : ByTheRules(s)
    <3> DEFINE label == IF role[r] \in {"woken", "gaveup"} THEN "COALESCED" ELSE "HIT"
    <3>1. label \notin {"STALE", "REVALIDATED"}
      OBVIOUS
    <3>2. PICK x \in Usable(r) : FreshFor(kind[r], x) /\ Answer(r, label, x)
      BY <2>4 DEF AnswerFresh
    <3>3. x \in Stored
      BY <2>1, FoundShared
    <3> HIDE DEF label
    <3>4. MayAnswer(kind[r], [head |-> x.head, at |-> x.at, of |-> x.of],
                    label, pc[r] \in Looking)
      BY <2>1, <3>1, <3>2, <3>3, FreshMayAnswer
    <3> QED BY <3>2, <3>3, <3>4, AnsweredByTheRules DEF Answer
  <2>5. ASSUME NEW r \in Requests, AnswerStale(r)
        PROVE  \A s \in Requests : ByTheRules(s)
    <3>1. PICK x \in Usable(r) : ServableStale(kind[r], x) /\ Answer(r, "STALE", x)
      BY <2>5 DEF AnswerStale
    <3>2. x \in Stored
      BY <2>1, FoundShared
    <3>3. stale_within(x, IF pc[r] \in Looking THEN x.head.while_revalidate
                          ELSE x.head.if_error)
      BY <2>5, <3>1 DEF AnswerStale, ServableStale
    <3>4. MayAnswer(kind[r], [head |-> x.head, at |-> x.at, of |-> x.of],
                    "STALE", pc[r] \in Looking)
      BY <2>1, <3>1, <3>2, <3>3, StaleMayAnswer DEF ServableStale
    <3> QED BY <3>1, <3>2, <3>4, AnsweredByTheRules DEF Answer
  <2>6. ASSUME NEW r \in Requests, pc[r] = "await", MayServeOnError(r),
               Answer(r, "STALE", stale[r])
        PROVE  \A s \in Requests : ByTheRules(s)
    <3>1. stale[r] \in Stored /\ kind[r].method = "GET"
      BY <2>1, <2>6, StaleShared DEF MayServeOnError
    <3>2. stale_within(stale[r], IF pc[r] \in Looking
                                 THEN stale[r].head.while_revalidate
                                 ELSE stale[r].head.if_error)
      BY <2>6 DEF Looking, MayServeOnError
    <3>3. MayAnswer(kind[r], [head |-> stale[r].head, at |-> stale[r].at,
                              of |-> stale[r].of], "STALE", pc[r] \in Looking)
      BY <2>1, <2>6, <3>1, <3>2, StaleMayAnswer DEF MayServeOnError
    <3> QED BY <2>6, <3>1, <3>3, AnsweredByTheRules DEF Answer
  <2>0. ASSUME NEW r \in Requests, NEW h \in Heads, AnsweredNotModified(r, h)
        PROVE  \A s \in Requests : ByTheRules(s)
    <3>1. /\ stale[r] \in Stored /\ kind[r].method = "GET" /\ may_serve(kind[r])
          /\ ~kind[r].conditional
      BY <2>0, <2>1, StaleShared DEF AnsweredNotModified, Revalidating
    <3>2. MayAnswer(kind[r], [head |-> stale[r].head, at |-> stale[r].at,
                              of |-> stale[r].of], "REVALIDATED", pc[r] \in Looking)
      BY <2>0, <3>1 DEF AnsweredNotModified, MayAnswer, may_serve, Looking
    <3> QED BY <2>0, <3>1, <3>2, AnsweredByTheRules DEF AnsweredNotModified, Answer
  <2>7. ASSUME NEW r \in Requests, NEW h \in Heads, AnsweredThrough(r, h)
        PROVE  \A s \in Requests : ByTheRules(s)
    BY <2>7, AnsweredByTheRules DEF AnsweredThrough
  <2>8. ASSUME NEW r \in Requests, HandlerStep(r) \/ ClientStep(r)
        PROVE  \A s \in Requests : ByTheRules(s)
    BY <2>0, <2>2, <2>3, <2>4, <2>5, <2>6, <2>7, <2>8
       DEF HandlerStep, ClientStep, NoAnswer, Join, StopWaiting, WaitTimesOut,
           AnsweredError, OriginFails, Send, SendFails,
           BodyEnds, BodyPassesLimit, BodyFails, ClientLeaves
  <2>9. ASSUME NEW r \in Requests, EndDrop(r) \/ RefreshStep(r)
        PROVE  \A s \in Requests : ByTheRules(s)
    BY <2>2, <2>9 DEF EndDrop, RefreshStep, RefreshNotModified, RefreshAnswered,
         RefreshFails, RefreshStores, RefreshBodyFails, taskVars
  <2>10. CASE Tick \/ \E k \in Keys : EvictIndex(k) \/ EvictEntry(k)
    BY <2>2, <2>10 DEF Tick, EvictIndex, EvictEntry, taskVars
  <2> QED BY <2>8, <2>9, <2>10 DEF Next
<1> QED BY <1>1, Inductive, PTL DEF Spec, ServedByTheRules
=============================================================================
