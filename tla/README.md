# A TLA+ model of shadowstep

shadowstep is a caching reverse proxy: actix-web workers accept requests,
answer them from an in-memory store where RFC 9111 and RFC 5861 allow it,
collapse concurrent misses into one origin request, and forward the rest with
hyper. This directory has its specification in TLA+, the TLC configurations that
check it on small instances, and proofs checked by TLAPS. Source paths below are
those of the repository (`src/cache.rs` and so on).

## The system

| Component | State | Operations | Interacts with |
|---|---|---|---|
| Coalescing (`coalesce.rs`) | a locked map from keys to watch receivers, one guard per leader, one waiter per follower | `join`, the guard's drop, `wait` | called by the proxy; guards live inside handlers and response bodies |
| Store (`cache.rs`, `Store`) | two concurrent maps (index and entries), a generation counter, a locked set of refresh claims | `lookup`, `insert_response`, `freshen`, `invalidate`, `start_refresh`, `asset`, `insert_asset` | shared by every worker; moka expires and evicts on its own |
| Cache policy (`cache.rs`) | none | `Directives`, `RequestPolicy`, `storable`, `StaleRules`, freshness, `updated_fields` | decides for the proxy and for `freshen` |
| Request lifecycle (`proxy.rs`) | one future per request, one task per background refresh | `forward`, `serve_from_cache`, `Exchange`, `refresh` | everything above and the origin |
| Request body (`proxy.rs`) | a channel of one, the pump's task | `request_body`, `pump_request_body` | actix's payload and hyper |
| Response body (`proxy.rs`) | `IdleTimeout`'s timer and flags, `Tee`'s copy | their `poll_next`, `finish`, `refresh`'s collect | hyper's body, actix, the store |
| Metrics (`metrics.rs`, `/health` in `lib.rs`) | counters | increments, sums | the proxy and assets |
| Assets (`assets.rs`) | entries in the store | `resolve_asset`, `load` | store and file system |
| Forwarding headers (`forwarded.rs`, `proxy.rs`) | none | `ClientInfo`, `upstream_request`, the field filters, the cache key | both hops and the store |
| Configuration, TLS, server assembly | none that changes | | startup |

What is hard here: the store's operations are several calls on shared maps with
no lock around them, on as many threads as there are cores; a future can be
dropped at any `await`; a flight's guard travels from the handler into the body
of the response and must be dropped at the right moment on every path; a stored
response is looked up before the origin is asked and used after it has answered.

What makes each part correct:

* Coalescing: one leader per key, no lost wake-up, a flight ends only through
  its own guard.
* Store: a lookup returns only what matches the request; a retired generation
  comes back through no operation that begins later; a late 304 leaves alone what replaced its entry; refresh claims
  neither leak nor double.
* Lifecycle: followers wake when the outcome is known and not before; no flight
  outlives its reason; misses of one key collapse into one fetch; only its own client holds a request up for ever; nothing private and nothing too stale
  is served.
* Bodies: each is passed on whole and in order or visibly broken off; only a
  whole one is stored; an idle origin is noticed and a slow client is not taken
  for one.
* Policy: a stored response is used no longer than the origin, the request and
  the configuration allow, and kept for as long as they do.
* Assets: an edited file is read again.
* Headers: the store's answer to a request is the one the origin would give it.
* Counters: they count what the documentation says they count.

## The modules

`Flights` specifies `coalesce.rs`. A flight has the name of the request that
leads it. `join` holds the mutex, so `JoinFollow`, `JoinLead` and `JoinAlone` are
single steps; a guard's drop is two, `RemoveKey` (under the mutex) and
`DropSender` (the fields, dropped after the method). `Wake` is the return of
`Waiter::wait`, `GiveUp` its abandonment by `wait_for_leader`'s timeout or by the
end of the follower's future. `FlightsProof` holds its theorems.

`Store` specifies the response part of `Store`. Each call on `index`, `entries`,
`generation` or `refreshing` is a step; `pc[t]` says where task `t` is between two
of them. `WorkerOf` assigns tasks to threads: a task in the middle of an operation
excludes the others of its own thread (no operation awaits) and only them, so one
module covers a single worker and several. `issued` records which `Vary` names
each generation was issued for and its length is the counter (generations start
at 1 where the code's start at 0; they are only compared). The index read and the
counter's increment are one step, since numbers are only compared for equality.
Time is absent: that an entry is stale, or gone, is possible at any moment.
Three histories serve the properties: `retired` has the generations that the index has
moved away from, `straddled` those of them that an insert had already read and was about
to write when that happened, `overwritten` the responses that lost their key to another.
`EvictIndex` and `EvictEntry` are moka's expiry, eviction and refusal to admit.
`StoreProof` holds its theorems, `MCStore` the instances.

`Proxy` composes the pieces: it instantiates `Flights` on its own variables and
adds the store, the clock, one handler and at most one background refresh per
request, and two counters. Its actions follow `forward`:

| Action | Code |
|---|---|
| `AnswerFresh`, `AnswerStale`, `NoAnswer` | the two calls of `from_cache` in `serve_from_cache` (`pc` is `new` for the first, `relook` for the second) |
| `Join`, `StopWaiting`, `WaitTimesOut` | `join_flight`, `wait_for_leader` |
| `Send`, `SendFails` | building and sending the origin request, the 400 and 500 answers |
| `AnsweredNotModified`, `AnsweredError`, `AnsweredThrough` | `Exchange::answered`, with `store_plan` (`Unsafe`, `InvalidateAfter`), `client_response` (`Copied`) and `Storing::holding` (`HoldFlight`) |
| `OriginFails` | `Exchange::failed` |
| `BodyEnds`, `BodyPassesLimit`, `BodyFails` | `Tee`, `IdleTimeout` |
| `ClientLeaves` | the future or the body is dropped |
| `Refresh...` | `refresh_in_background`, `refresh`, the drop of `RefreshGuard` |

What a request asks (`Kind`) and what the origin answers (`Head`) are records of
the decisions the code takes from header fields. `MCProxy` chooses the records.

Two abstractions of `Proxy` are its own. Its responses have no `Vary`, so a flight's key is
the URI. `flight_key` adds the request's values of the fields that the index names at that
moment: requests with other values then have flights of their own, and a request that joined
before the first response with a `Vary` was stored has a key without them, beside which
another request may lead. What such requests do to each other in the coalescing map is not
modelled, and `MissesCollapse` is not about them; `Store` and `Headers` have their entries.
And a background request that cannot be built is left out, since it
claims and releases within one call. The others are covered by another module: store operations are atomic (`Store` takes them apart); responses have no `Vary`
(`Store` has it); the store is enabled; error answers are one label, without the
502/504 distinction; a body ends, fails or passes the limit
(`BodyStream` has its chunks, `RequestBody` those of the request); a `no_store` kind
also stands for malformed directives and method-override fields (`Policy`,
`Headers`).

`Transfer` is the abstract specification of a body that passes through the proxy:
the receiver has a prefix of what the source sent, and takes it for whole only when
the source ended it and all of it has come. Two modules implement it
(`ImplementsTransfer`, `INSTANCE Transfer` with the variables of the same names, in
`BodyStream` for bodies that are as long as their Content-Length says):

* `RequestBody`: the handler's first read of the payload (`FirstChunk`,
  `NoFirstChunk`), the pump (`NextChunk`, `NextError`, `NextEnd`, then `SendFrame` or
  `SendClosed`), hyper's reads of the channel (`Receive...`) and the end of the
  origin request (`RequestEnds`). `sent`/`source` are the client's body, `got`/`sink`
  the origin's.
* `BodyStream`: one action per poll from the outside (`ClientPoll`, `RefreshPoll`),
  which goes through `TeeCopy` or `CollectCopy` and `PollIdle` to hyper's body. A chunk
  is the range of the body's bytes that it carries, so that its length, the copy's
  (`held`) and the reader's count (`taken`) are differences and sums and can be compared
  with `Content-Length`. What actix does with a sized body (it stops at the
  length, never polls an empty one, `SizedDone`) and what hyper does with a framed one
  are external. `quiet` and `patience` record how long origin and client have been
  silent, for the properties. Copies of both a client's response and a refresh are
  covered.

`Assets` specifies `load` and `asset_response` for one file: three file system calls
and the lookup between them, with `Write` and `Remove` at any moment. A content also
stands for its hash and ETag. `versions` and `times` record how often the file was
written and which modified times it has had, `since` what content a request saw. With
`SameTime = FALSE` every write brings a modified time that the file has not had; a copy
restored with its old time is then excluded, as is an edit within the clock's granularity.

`Directives` is `split_outside_quotes` and the loop of `Directives::parse`, character
by character, against the grammar of quoted strings. A letter, `=` and `,` stand for
themselves, `"quote"` and `"backslash"` for the two characters that matter to the scan.

`Policy` starts from the list of directives and has the rules: what may be stored, for
how long it is fresh, stale windows, grace, the update by a 304, on numbers with a
largest value `Max` (`u64::MAX`). One response lives in the store; `Answered`,
`Revalidated`, `Tick` and `Evict` change it, and the properties ask how it answers every
request at every moment. `RealAge` and `RealLifetime` are the origin's numbers, which
no conversion has touched. `Request`, `Response`, `Update` and `Entry` are the records
that the rules look at; `MCPolicy` chooses the messages of the run among them.

`Headers` has the fields of every message as sets of pairs, the key, and the four ways
an answer comes about (`Hit`, `Miss`, `Revalidate`, `Refresh`). Its origin answers by
what it is sent (`Seen`): the fields it names in `Vary`, and those some frameworks
act on without saying so; an answer also records who fetched it (`by`). `MCHeaders` chooses the messages.

`FlightsProof`, `StoreProof`, `ProxyProof`, `RequestBodyProof`, `BodyStreamProof`,
`AssetsProof`, `PolicyProof` and `HeadersProof` each extend the module they are named
after and hold its theorems; `PolicyProof` also extends `Directives`, which is the other
half of the cache policy and has no name in common with `Policy`. The parts of an inductive invariant are definitions of the
specified module, at its end or beside the properties, so that TLC can check them.

## The runs

Run one with `tlc -config X.cfg M`.

| Configuration, module | Checks | Bounds |
|---|---|---|
| `Flights`, `Flights` | `IInv`, `OneLeader`, `FinishedNotFound`, `OnlyOwnFlightEnds`, `FollowersReleased` | 4 requests, 2 keys: a leader, its follower, the next leader of the key while the first guard is dropping, and its follower |
| `StoreParallel`, `MCStore` | `IInv`, `HeldMatches`, `RefreshClaims`, `RetiredUnlessStraddled`, `OverwrittenLeftAlone` | 2 threads, 2 field names and values, 2 responses: enough for equal value lists of different names, for any two operations to interleave, and for a response that replaces one that another task holds |
| `ProxyCoalescing`, `MCProxy` | `OutcomeKnown`, `LeadsForAReason`, `MissesCollapse`, `OneRefreshPerKey`, `OnlyItsClientDelays` | 3 requests for one URI (a leader, a follower, and the next leader while the first guard is dropping; or one that stores and two that find its response stale), 1 tick |
| `ProxyRules`, `MCProxy` | `IInv`, `NothingPrivateServed`, `ServedByTheRules` | 2 requests of 9 kinds, 11 answers, 3 ticks, past every stale window |
| `RequestBody`, `RequestBody` | `InOrder`, `ImplementsTransfer`, `BodySettles` | 3 chunks: the first, one in the channel, one in the pump's hands |
| `BodyStream`, `BodyStream` | `StoredWhole`, `SettledWhenWhole`, `ImplementsTransfer`, `IdleIsTheOrigins`, `BodySettles` | 4 bytes cut into chunks in every way, a limit of 3, lengths below, at and above the limit and 0, bodies that keep to their length or not, a deadline of 2 ticks |
| `Assets`, `Assets` | `StoredCopyTrue`, `EditedReadAgain` | 2 requests, 3 contents: one stored, one seen, one read; lengths around the limit |
| `Directives`, `Directives` | `SplitsOutsideQuotes`, `ReadsTheDirectives` | every value of up to 7 characters: a name, an argument with an escaped quote and a comma in it |
| `Policy`, `MCPolicy` | `StoredByTheRules`, `FreshIsFresh`, `StaleIsAllowed`, `UsefulIsKept` | 11 requests, 67 answers, 15 304s, a clock past every deadline, numbers beyond `Max` |
| `Headers`, `MCHeaders` | `StoredAnswerFits`, `OriginGetsOurs`, `PreconditionsNotMixed`, `ClientGetsEndToEnd` | 10 requests for one path, among them two that differ only in bytes that are not text and two whose `Connection` lists a field, 2 answers with connection fields |

`ImplementsTransfer` is a refinement, one for each of the two bodies.

What two properties of `Proxy` say exactly: `MissesCollapse` is about requests that may lead,
from the moment one is about to be sent until its response is stored or known not to be.
Two of them fetch for one key at once only if one went on when its timeout ended its wait,
or waited for a third request that ended without a response for it. `ServedByTheRules` and
`NothingPrivateServed` cover the four labels of answers from the store, `REVALIDATED` among
them: such an answer goes to a request that may use the store and brought no
precondition, whatever its age.

What three properties of `Store` say exactly: `RetiredUnlessStraddled` is what holds of
generations on any number of threads, `RetiredStaysRetired` what the comments say, which
does not; `OverwrittenLeftAlone` is about the moment at which `freshen` finds its entry current,
`OverwrittenNotRestored` about the later one at which it stores the update.

What three properties of `Headers` say exactly: an answer from the store was given to the same
host, scheme and path and to equal values of every field that origins act on or vary on
(`StoredAnswerFits`), but for `X-Forwarded-For`, for preconditions, and for a varied field
that both clients sent alike as text when it is not UTF-8 or one of them lists it in
`Connection`; under a name that the client's `Connection`
lists, the origin gets only fields that the proxy itself sets (`OriginGetsOurs`; a client
may list `x-forwarded-for` there, and the proxy still adds its own); and a background
refresh sends exactly the validators of the response its client got, and a 304 makes a
stored response good only when the request it answers had stored validators and nothing of
the client's (`PreconditionsNotMixed`).

`Policy`'s run has directives that are no number, too large or repeated, and an `Age` that
is none, not a number or 1; a larger `Age` is the matter of `PolicyHugeAge` and
`PolicyAgeOverflow` below.

Two more runs find differences between the code and what its comments and
documentation say; `PROJECT.json` quotes both sides. `StoreRevivedGeneration` violates
`RetiredStaysRetired` on two threads: an insert that read the index before another worker's
`invalidate`, or before a response with other `Vary` names, writes the old generation back.
`StoreLateNotModified` violates
`SupersededLeftAlone`, and one thread is enough: `freshen` checks the key of the old
generation, which neither `invalidate` nor a response with other `Vary` names touches,
so a 304 that is late stores the old body again under the URI's new generation.

### Differences outside the runs

Eight further configurations are kept beside the runs of `PROJECT.json`. Each
reproduces a difference of the same sort in a second or two, and none is part of
what the runs show.

| Configuration, module | Violated | What happens |
|---|---|---|
| `StoreFreshenRace`, `MCStore` | `OverwrittenNotRestored` | a response stored between `freshen`'s check and its insert is overwritten by the older body (`cache.rs:451`; "is left alone", `cache.rs:430`) |
| `AssetsSameTime`, `Assets` | `EditedReadAgain` | a file replaced by one of the same length with the same modified time is served from the old copy (`assets.rs:94`; "an edited file is read again", `assets.rs:88`) |
| `PolicyAgeOverflow`, `MCPolicy` | `AgeFits` | an `Age` near `u64::MAX` under a saturated lifetime: `age` overflows, and the handler panics, once the response is stale and within its window (`cache.rs:115`) |
| `PolicyHugeAge`, `MCPolicy` | `FreshIsFresh` | an `Age` larger than `u64::MAX` reads as 0, where a directive would saturate (`cache.rs:769`, `cache.rs:608`) |
| `HeadersVaryAddress`, `MCHeaders` | `StoredAnswerExact` | `Vary: X-Forwarded-For`: the key has the client's field, the origin saw the proxy's (`cache.rs:557`) |
| `HeadersVaryBytes`, `MCHeaders` | `StoredAnswerExact` | two values of a varied field that are not UTF-8 become the same text (`cache.rs:559`) |
| `ProxyHitRatio`, `MCProxy` | `HitRatioCountsResponses` | the stale response and the 304 to its background refresh both count in `hit_ratio` (`lib.rs:58`; "Each response counts once", the repository's `README.md:108`) |
| `ProxyOriginCount`, `MCProxy` | `OriginRequestsCounted` | a client that leaves before the origin's headers arrive leaves an origin request uncounted (`proxy.rs:489`; the repository's `README.md:149`) |

`AssetsSameTime` and `PolicyHugeAge` check properties that hold under the inputs of
`Assets` and `Policy`: `EditedReadAgain` when every content has a modified time of its own
(`SameTime = FALSE`), `FreshIsFresh` for any `Age` that fits. The others check what a
comment or the documentation says outright. The two counts have no property among the
runs: what the documentation says of them fails, and the one-sided bounds that are left
would restate where the code increments them.

Deadlock: `Flights`, `Proxy` and `Assets` have requests that arrive once, `RequestBody`
one body and `Directives` one value, so a behaviour in which all have ended stops, and
their configurations say `CHECK_DEADLOCK FALSE`; `OnlyItsClientDelays`,
`FollowersReleased` and `BodySettles` say that nobody is stuck. The other runs check
deadlock.

`IInv` of `RequestBody`, `BodyStream`, `Assets`, `Policy` and `Headers` and `HistoryInv`
of `Store` (under `StoreParallel`) hold under the same configurations and are not listed
in them: the properties that are say more, and all of them are proved. `Quoting`,
`Splitting` and `Reading`, the parts of `ParseInv` of `Directives`, hold with values of up
to 5 characters and are proved as well. Each `IInv` includes its module's `TypeOK`, and
`ParseInv` includes `ParseTypeOK`.

Symmetry: requests, tasks, field names and values are interchangeable in the runs
that declare it; liveness is checked without it.

Fairness. `Flights`: a drop that has begun runs to its end, and a task whose
channel is closed is polled; leaders need not end their flights and no timeout is
assumed. `Proxy`: a handler that has begun is polled when it can go on, which
includes the two timeouts that tokio guarantees, that of a follower's wait and that
of an exchange with the origin. Nothing is assumed of clients: neither the
request's body (`send`) nor the response's (`body`) has a deadline of its own
against a client that stops sending or reading without leaving, so a leader may
hold its flight for ever, and `OnlyItsClientDelays` says that this holds up nobody
else. `RequestBody`: handler and pump are polled when they can go on, and hyper reads
the body or gives the request up, by the upstream timeout at the latest when the origin has
not answered (an origin that answers before it has read the body, and then neither reads on
nor ends its response, is outside what the code bounds, and is excluded); the client
may stop at any time, and `BodySettles` starts once its body has ended or failed.
`BodyStream`: a reader that can take data polls, a client that has not left goes on
reading, a body that is done with is dropped, and time passes; nothing is assumed
of the origin, whose silence the idle deadline ends. In `Proxy`, nothing is assumed of
refreshes, the clock, evictions, or that a request arrives.

## The proofs

`tlapm XProof.tla` checks each module's proofs. A theorem holds for every value of
the constants that meets the named assumptions of the module (`FlightsAssumption`,
`ProxyAssumption` and so on: the "none" values are none of the others, bounds are
natural numbers, messages are records of the types the code reads); where one needs
more, it says so in its own `ASSUME`:

| Assumption | Theorems | Why |
|---|---|---|
| `SameTime = FALSE` | all of `AssetsProof` | the code takes length and modified time for the content; `AssetsSameTime` shows what happens otherwise |
| `AgesFit` | `FreshServedFresh`, `StaleServedAllowed` | an `Age` above `u64::MAX` reads as 0 (`PolicyHugeAge`); the number is the origin's |

Each of these holds of the constants of the passing run of its module.

**Flights** (`FlightsProof`). `IInv`, and from it `OneLeader`, `FinishedNotFound` and
`OnlyOwnFlightEnds`. `OneLeader` alone is not inductive: the guard's drop removes
whatever the map has for its key, so one must know that a live guard's key still maps
to its own flight (`MapMatchesGuards`). That a finished flight is not found needs a
sender to live as long as its guard (`SendersMatchGuards`) and the flight a waiter
names to have been led (`WaitersMatchFlights`).

**Store** (`StoreProof`). `IInv` with `TypeOK` and `HeldMatches`, and `RefreshClaims`, for
any number of threads. A key holds the values and not the names, so `HeldMatches` rests
on a generation having one list of names for ever: the index (`IndexAsIssued`), the
entries (`EntriesAsIssued`), inserts between the choice of a generation and the store
(`InsertsAsIssued`) and lookups between the index and the entry (`LookupsAsIssued`) all
agree with `issued`.
The histories have an invariant of their own (`HistoryInv`), also for any number of
threads. A generation is issued once and belongs to one URI (`GenerationsOwned`); an insert
that is about to publish a retired one was there when it was retired (`InsertsStraddle`),
which makes `RetiredUnlessStraddled` inductive; and a response that is stored or about to
be has an identity and a key of its own, and was not overwritten (`ResponsesLive`), so a
task that finds its own response under its key holds one that nothing has overwritten
(`OverwrittenLeftAlone`).

**Proxy** (`ProxyProof`). `IInv` and from it `OutcomeKnown`, `LeadsForAReason`,
`MissesCollapse`, `OneRefreshPerKey` and `NothingPrivateServed`, and the action property
`ServedByTheRules`, for any sets of requests, keys, kinds and answers.
The proof of the invariant takes `Flights`' inductive invariant with it (`F!IInv`, kept
by `FlightsProof`'s own lemma, since every step is one of `Flights`). `OutcomeKnown` needs to
know that who follows a flight follows one that was led, that its leader has
let go when the follower is woken, and that a handler that has let go is past the origin
and copies nothing (`Handling`). `MissesCollapse` needs that a request that may lead fetches
only as its key's leader or after it has waited (`Joining`); of two that fetch, at most one
is the leader, by `Flights`' `OneLeader`, and the other, if it was woken, was woken from a
flight whose leader no longer fetches. `NothingPrivateServed` needs that everything on its
way into the store or out of it may be shared (`Sharing`): entries, the response a
handler took along to revalidate, the copied body and a refresh's body. Most steps are of
one handler and change nothing of the others (`LocalSuffices`); what they do to the store
either adds shareable responses or removes some (`GrowsOK`, `ShrinksOK`).
`ServedByTheRules` follows from the guards of each of the answering actions, together
with the fact that an entry's lifetime is what its head says.

**Request body** (`RequestBodyProof`). `InOrder`, and that `RequestBody` implements
`Transfer`. `InOrder` (what the origin has, the channel, the pump and the unread rest make
up the body) is inductive with the places where a frame may be (`PumpMatches`,
`SinkMatches`). The refinement needs one thing more: when
the channel is found closed and empty, the payload had really ended, since a failure
would have left its error in the channel (`EndKnown`).

**Response body** (`BodyStreamProof`). `StoredWhole`, `SettledWhenWhole`,
`IdleIsTheOrigins`, and that `BodyStream` implements `Transfer`. The chunks lie end to end
(`Arriving`), so the number of bytes in a prefix is where its last chunk ends, and two
prefixes that end at the same byte are the same: this turns the code's comparisons of
numbers into statements about content (`Copying`). `Settling` says why a whole body has no
open copy, `Waiting` that while the timer runs the origin has been quiet, and the client
ready, for as long as the timer has run.

**Assets** (`AssetsProof`). `StoredCopyTrue` and `EditedReadAgain` for any number of
requests and edits. A modified time stands for one content (`FileNewest`, `SeenByTime`,
`SeenAlike`); a request may read a later content than the one whose metadata it has
(`ReadSince`), and a copy stored under an old time is never older than what any request
saw under that time (`StoredSince`).

**Policy** (`PolicyProof`). `StoredByTheRules`, `FreshIsFresh`, `StaleIsAllowed` and
`UsefulIsKept` for any requests, answers and 304s, any `Max` and TTL. The link is
`WithinLifetime`: the time to live computed once, with saturation and the cap, is within
what the origin's own numbers give, also after a 304 has changed the fields. The lemma
`LeastExists` says that a set of numbers that is not empty has a least one, from the
library's well-foundedness of the natural numbers; that a directive that is there has a
first occurrence (`FirstExists`) is a case of it.

**Directives** (`PolicyProof`). `SplitsOutsideQuotes` and `ReadsTheDirectives` for values of
any length, from `ParseInv`. The scan has two flags where the grammar has whole quoted
strings, which `Openings` chooses for the value at once. `Quoting` relates the two: the flags
are those of the one string that runs at the place of the scan. `Splitting` says that the
parts so far are the value cut at the grammar's separators, and `Reading` that the list
and the parts that have a name correspond one to one, which gives the equal counts of
`ReadsTheDirectives`. That the choices of the grammar are not empty needs induction over
the value: it is the least place at which they would fail that leads to a contradiction
(`OpeningsIs`, `CloseIs`, `EndExists`), by `LeastExists`.

**Headers** (`HeadersProof`). `StoredAnswerFits`, `OriginGetsOurs`,
`PreconditionsNotMixed` and `ClientGetsEndToEnd` for any requests, heads, fields and `Vary`,
without an assumption on what clients send. The main lemma, `SameKeySameFields`, says that
what the proxy sends for two requests with one key has the same fields of those that matter,
but for the exceptions: what the key leaves out is removed, replaced, or keeps the request
from the store. `StoredUnderKey` says that an entry was answered to a request with its key,
which updates and drops keep; `StoredClean` does the same for what clients get.

Only model-checked:

* Liveness (`FollowersReleased`, `OnlyItsClientDelays`, `BodySettles` of both bodies): it
  depends on fairness, which TLAPS does not reach.
* `StoreLateNotModified`, `StoreRevivedGeneration` and the configurations of "Differences outside the runs", which
  are counterexamples.

## Not modelled

* The weigher's byte counts, and which entry moka evicts: an entry may go at any
  moment, which covers every choice.
* `resolve_asset`'s rule for paths: a pure check of the components of a path.
* White space and case in field values.
* The index's own time to live, in `Policy`: it is refreshed with every insert of an entry and
  may end at any moment in `Store`; `UsefulIsKept` is about the entry.
* The `Vary` part of a flight's key, as said under `Proxy`.
* Counters that are one increment at the place of the response.
* TLS, configuration, routing and startup: library set-up, done once, without
  behaviour of their own.
* An abstract store that `Store` would implement: the differences that the runs above
  found (`StoreLateNotModified` on one thread, `StoreRevivedGeneration` and
  `StoreFreshenRace` on several) are steps it could not take.

## State of the development

Every module above is written, and every safety property of the passing runs, invariant,
action property or refinement, has a theorem. What is left to TLC alone is listed under
"Only model-checked": the liveness properties, and the counterexamples.
