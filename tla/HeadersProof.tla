---------------------------- MODULE HeadersProof ----------------------------
(***************************************************************************)
(* Proofs about Headers for any requests, answers, Vary fields and hosts.  *)
(*                                                                         *)
(* StoredAnswerFits is about one exchange, and what it serves was stored   *)
(* by another: StoredUnderKey says of every entry whose key and answer it  *)
(* is, and SameKeySameFields that the key has what the origin goes by.     *)
(* StoredClean does the same for the fields.                               *)
(***************************************************************************)
EXTENDS Headers, FiniteSetTheorems, TLAPS

USE HeadersAssumption

-----------------------------------------------------------------------------
(* What is sent to the origin *)

Ours == {"host", "x-forwarded-for", "x-forwarded-proto", "x-forwarded-host"}
Validating == {"if-none-match", "if-modified-since"}

(* The names that the proxy removes or sets itself.                        *)
Handled == HOP_BY_HOP \cup {"host"} \cup CLIENT_FORWARDING_HEADERS \cup URL_OVERRIDE_HEADERS

(* What is left of the client's fields, and the proxy's own.               *)
LEMMA Sent ==
    ASSUME NEW r, NEW f
    PROVE  f \in upstream_request(r) <=>
             \/ /\ f \in r.fields
                /\ f[1] \notin Handled \cup connection_options(r.fields)
             \/ f \in {<<"host", UpstreamHost>>, <<"x-forwarded-for", r.ip>>,
                       <<"x-forwarded-proto", r.scheme>>,
                       <<"x-forwarded-host", ClientHost(r)>>}
  BY DEF upstream_request, Without, end_to_end, Handled

(* The stored validators are preconditions.                                *)
LEMMA ValidatorNames ==
    ASSUME NEW e, NEW f \in validators(e)
    PROVE  f[1] \in Validating
  BY DEF validators, Validating

(* A request as it is, with validators added, or with its preconditions    *)
(* replaced by them.                                                       *)
SentFor(r, extra, sent) ==
    /\ \A f \in extra : f[1] \in Validating
    /\ upstream_request(r) \ sent \subseteq
         {f \in r.fields : f[1] \in PRECONDITION_HEADERS}
    /\ sent \subseteq upstream_request(r) \cup extra

(* All three send the proxy's own fields, and none that is for one hop.    *)
LEMMA SentOurs ==
    ASSUME NEW r \in Requests, NEW extra, NEW sent, SentFor(r, extra, sent)
    PROVE  /\ Values(sent, "host") = {UpstreamHost}
           /\ Values(sent, "x-forwarded-for") = {r.ip}
           /\ Values(sent, "x-forwarded-proto") = {r.scheme}
           /\ Values(sent, "x-forwarded-host") = {ClientHost(r)}
           /\ \A f \in sent : f[1] \in Values(r.fields, "connection") =>
                f[1] \in Ours \/ f \in extra
           /\ \A f \in sent : f[1] \notin HOP_BY_HOP \cup URL_OVERRIDE_HEADERS
<1>1. ASSUME NEW f \in sent
      PROVE  \/ f \in extra /\ f[1] \in Validating
             \/ /\ f \in r.fields
                /\ f[1] \notin Handled \cup connection_options(r.fields)
             \/ f \in {<<"host", UpstreamHost>>, <<"x-forwarded-for", r.ip>>,
                       <<"x-forwarded-proto", r.scheme>>,
                       <<"x-forwarded-host", ClientHost(r)>>}
  BY Sent DEF SentFor
<1>2. {<<"host", UpstreamHost>>, <<"x-forwarded-for", r.ip>>,
       <<"x-forwarded-proto", r.scheme>>, <<"x-forwarded-host", ClientHost(r)>>}
         \subseteq sent
  <2>1. ASSUME NEW f \in {<<"host", UpstreamHost>>, <<"x-forwarded-for", r.ip>>,
                          <<"x-forwarded-proto", r.scheme>>,
                          <<"x-forwarded-host", ClientHost(r)>>}
        PROVE  f \in sent
    <3>1. f \in upstream_request(r) /\ f[1] \in Ours
      BY <2>1, Sent DEF Ours
    <3> QED BY <3>1 DEF Ours, PRECONDITION_HEADERS, SentFor
  <2> QED BY <2>1
<1>3. /\ Values(sent, "host") = {UpstreamHost}
      /\ Values(sent, "x-forwarded-for") = {r.ip}
      /\ Values(sent, "x-forwarded-proto") = {r.scheme}
      /\ Values(sent, "x-forwarded-host") = {ClientHost(r)}
  BY <1>1, <1>2 DEF Values, Handled, CLIENT_FORWARDING_HEADERS, Validating
<1>4. ASSUME NEW f \in sent, f[1] \in Values(r.fields, "connection")
      PROVE  f[1] \in Ours \/ f \in extra
  BY <1>1, <1>4 DEF connection_options, Ours
<1>5. ASSUME NEW f \in sent
      PROVE  f[1] \notin HOP_BY_HOP \cup URL_OVERRIDE_HEADERS
  BY <1>1, <1>5 DEF Handled, HOP_BY_HOP, URL_OVERRIDE_HEADERS, Validating
<1> QED BY <1>3, <1>4, <1>5

-----------------------------------------------------------------------------
(* What the origin goes by *)

LEMMA SeenHost ==
    ASSUME NEW r \in Requests
    PROVE  Values(upstream_request(r), "x-forwarded-host") = {ClientHost(r)}
<1>1. SentFor(r, {}, upstream_request(r))
  BY DEF SentFor
<1> QED BY <1>1, SentOurs

(* What the origin goes by of what is sent, under one name.                *)
LEMMA SeenValues ==
    ASSUME NEW path, NEW sent, NEW n \in ActedOn \cup Vary[path]
    PROVE  Values(Seen(path, sent).fields, n) =
             IF n = "x-forwarded-host" THEN {} ELSE Values(sent, n)
<1>1. {g \in Seen(path, sent).fields : g[1] = n} =
        IF n = "x-forwarded-host" THEN {} ELSE {g \in sent : g[1] = n}
  BY DEF Seen
<1> QED BY <1>1 DEF Values

(* Under a name that the proxy does not set itself, the origin gets all of *)
(* the client's values or none.                                            *)
LEMMA SentValues ==
    ASSUME NEW r \in Requests, NEW n, n \notin Ours
    PROVE  Values(upstream_request(r), n) =
             IF n \in Handled \cup connection_options(r.fields) THEN {}
             ELSE Values(r.fields, n)
<1>1. {g \in upstream_request(r) : g[1] = n} =
        IF n \in Handled \cup connection_options(r.fields) THEN {}
        ELSE {g \in r.fields : g[1] = n}
  BY Sent DEF Ours
<1> QED BY <1>1 DEF Values

(* Text is its own key.                                                    *)
LEMMA TextKept ==
    ASSUME NEW values, values \cap NotText = {}
    PROVE  from_utf8_lossy(values) = values
  BY DEF from_utf8_lossy

(* Of two requests with one key, the origin gets the same from both under  *)
(* each name that it goes by, but for what the key does not tell apart.    *)
LEMMA SameKeySameFields ==
    ASSUME NEW r \in Requests, NEW s \in Requests, may_use_cache(r), may_use_cache(s),
           ResponseKey(r) = ResponseKey(s), NEW n \in Compared(r)
    PROVE  \/ Values(Seen(s.path, upstream_request(s)).fields, n)
                = Values(Seen(r.path, upstream_request(r)).fields, n)
           \/ AlikeInTheKey(r, s, n)
<1>1. r.path = s.path /\ r.scheme = s.scheme /\ vary_values(r) = vary_values(s)
  BY DEF ResponseKey, PrimaryKey
<1>2. /\ n \in ActedOn \cup Vary[r.path] /\ n \in ActedOn \cup Vary[s.path]
      /\ n # "x-forwarded-for"
  BY <1>1 DEF Compared
<1>3. CASE n = "x-forwarded-host"
  BY <1>2, <1>3, SeenValues
<1>4. CASE n \in {"host", "x-forwarded-proto"}
  <2>1. SentFor(r, {}, upstream_request(r)) /\ SentFor(s, {}, upstream_request(s))
    BY DEF SentFor
  <2>2. \A q \in {r, s} : /\ Values(upstream_request(q), "host") = {UpstreamHost}
                         /\ Values(upstream_request(q), "x-forwarded-proto") = {q.scheme}
    BY <2>1, SentOurs
  <2>3. Values(upstream_request(s), n) = Values(upstream_request(r), n)
    BY <1>1, <1>4, <2>2
  <2> QED BY <1>2, <1>4, <2>3, SeenValues
<1>5. CASE n \notin Ours
  <2> DEFINE sent(q) == IF n \in Handled \cup connection_options(q.fields) THEN {}
                        ELSE Values(q.fields, n)
  <2>1. /\ Values(Seen(r.path, upstream_request(r)).fields, n) = sent(r)
        /\ Values(Seen(s.path, upstream_request(s)).fields, n) = sent(s)
    <3>1. n # "x-forwarded-host"
      BY <1>5 DEF Ours
    <3>2. /\ Values(Seen(r.path, upstream_request(r)).fields, n)
               = Values(upstream_request(r), n)
          /\ Values(Seen(s.path, upstream_request(s)).fields, n)
               = Values(upstream_request(s), n)
      BY <1>2, <3>1, SeenValues
    <3>3. Values(upstream_request(r), n) = sent(r) /\ Values(upstream_request(s), n) = sent(s)
      BY <1>5, SentValues
    <3> QED BY <3>2, <3>3
  <2>2. CASE n \in Handled
    BY <2>1, <2>2
  <2>3. CASE n \in METHOD_OVERRIDE_HEADERS
    BY <2>1, <2>3 DEF may_use_cache
  <2>4. CASE n \notin Handled \cup METHOD_OVERRIDE_HEADERS
    <3>1. n \in Vary[r.path] /\ n \in Vary[s.path]
      BY <1>1, <1>2, <2>4 DEF ActedOn, Handled
    <3>2. from_utf8_lossy(Values(r.fields, n)) = from_utf8_lossy(Values(s.fields, n))
      BY <1>1, <3>1 DEF vary_values
    <3>3. CASE \/ n \in connection_options(r.fields) \cup connection_options(s.fields)
               \/ (Values(r.fields, n) \cup Values(s.fields, n)) \cap NotText # {}
      BY <3>1, <3>2, <3>3 DEF AlikeInTheKey
    <3>4. CASE /\ n \notin connection_options(r.fields) \cup connection_options(s.fields)
               /\ (Values(r.fields, n) \cup Values(s.fields, n)) \cap NotText = {}
      <4>1. Values(r.fields, n) \cap NotText = {} /\ Values(s.fields, n) \cap NotText = {}
        BY <3>4
      <4>2. Values(r.fields, n) = Values(s.fields, n)
        BY <3>2, <4>1, TextKept
      <4> QED BY <2>1, <2>4, <3>4, <4>2
    <3> QED BY <3>3, <3>4
  <2> QED BY <2>2, <2>3, <2>4
<1> QED BY <1>2, <1>3, <1>4, <1>5 DEF Ours

(* So what one of them was answered fits the other.                        *)
LEMMA SameKeyFits ==
    ASSUME NEW r \in Requests, NEW s \in Requests, may_use_cache(r), may_use_cache(s),
           ResponseKey(r) = ResponseKey(s), NEW seen, AnsweredTo(s, seen)
    PROVE  Fits(seen, s, r)
<1>1. r.path = s.path /\ Lowercase[ClientHost(r)] = Lowercase[ClientHost(s)]
  BY DEF ResponseKey, PrimaryKey
<1>2. /\ Seen(r.path, upstream_request(r)).path = r.path
      /\ Seen(s.path, upstream_request(s)).path = s.path
      /\ Seen(r.path, upstream_request(r)).host = {Lowercase[ClientHost(r)]}
      /\ Seen(s.path, upstream_request(s)).host = {Lowercase[ClientHost(s)]}
  BY SeenHost DEF Seen
<1>3. Compared(r) = Compared(s)
  BY <1>1 DEF Compared
<1>4. \A n \in Compared(r) :
        \/ Values(Seen(s.path, upstream_request(s)).fields, n)
             = Values(Seen(r.path, upstream_request(r)).fields, n)
        \/ AlikeInTheKey(r, s, n)
  BY SameKeySameFields
<1> QED BY <1>1, <1>2, <1>3, <1>4 DEF Fits, AnsweredTo

(* Preconditions make no difference to it.                                 *)
LEMMA SeenWithoutPreconditions ==
    ASSUME NEW r \in Requests, NEW extra, NEW sent, SentFor(r, extra, sent)
    PROVE  AnsweredTo(r, Seen(r.path, sent))
<1>1. Values(sent, "x-forwarded-host") = Values(upstream_request(r), "x-forwarded-host")
  BY SeenHost, SentOurs
<1>2. ASSUME NEW n \in Compared(r)
      PROVE  Values(Seen(r.path, sent).fields, n)
               = Values(Seen(r.path, upstream_request(r)).fields, n)
  <2>1. n \in ActedOn \cup Vary[r.path] /\ n \notin PRECONDITION_HEADERS
    BY DEF Compared
  <2>2. Validating \subseteq PRECONDITION_HEADERS
    BY DEF Validating, PRECONDITION_HEADERS
  <2>3. {g \in sent : g[1] = n} = {g \in upstream_request(r) : g[1] = n}
    BY <2>1, <2>2 DEF SentFor
  <2>4. Values(sent, n) = Values(upstream_request(r), n)
    BY <2>3 DEF Values
  <2> QED BY <2>1, <2>4, SeenValues
<1> QED BY <1>1, <1>2 DEF AnsweredTo, Seen

-----------------------------------------------------------------------------
(* What the client gets *)

Clean(fields) ==
    \A f \in fields :
        f[1] \notin HOP_BY_HOP \cup {"content-length", CACHE_STATUS} /\ f[2] # "hop"

(* The fields of the origin's answer that are passed on, and stored.       *)
LEMMA HeadClean ==
    ASSUME NEW head \in Heads
    PROVE  /\ Clean(forwardable_fields(head)) /\ Clean(stored_fields(head))
           /\ \A f \in stored_fields(head) : f[1] # "age"
  BY DEF Clean, forwardable_fields, stored_fields, end_to_end, Without

(* What is found in the store, before and after an update by a 304.        *)
LEMMA EntryClean ==
    ASSUME StoredClean, NEW r \in Requests, Has(r), NEW head \in Heads,
           NEW e \in {Entry(r), Freshened(r, head)}
    PROVE  /\ e = [seen |-> e.seen, by |-> e.by, fields |-> e.fields]
           /\ e.seen = Entry(r).seen /\ e.by = Entry(r).by
           /\ Clean(e.fields) /\ \A f \in e.fields : f[1] # "age"
<1>1. /\ Entry(r) = [seen |-> Entry(r).seen, by |-> Entry(r).by,
                      fields |-> Entry(r).fields]
      /\ Clean(Entry(r).fields) /\ \A f \in Entry(r).fields : f[1] # "age"
  BY DEF StoredClean, Has, Entry, Clean
<1>2. Freshened(r, head) =
        [seen |-> Entry(r).seen, by |-> Entry(r).by,
         fields |-> updated_fields(Entry(r).fields, stored_fields(head))]
  BY <1>1 DEF Freshened
<1>3. /\ Clean(updated_fields(Entry(r).fields, stored_fields(head)))
      /\ \A f \in updated_fields(Entry(r).fields, stored_fields(head)) : f[1] # "age"
  BY <1>1, HeadClean DEF updated_fields, Without, Clean
<1> QED BY <1>1, <1>2, <1>3

(* A field that is the only one of its name.                               *)
LEMMA OneValue ==
    ASSUME NEW fields, NEW n, NEW v, <<n, v>> \in fields,
           \A f \in fields : f[1] = n => f = <<n, v>>
    PROVE  Values(fields, n) = {v}
<1>1. {g \in fields : g[1] = n} = {<<n, v>>}
  OBVIOUS
<1>2. {f[2] : f \in {<<n, v>>}} = {v}
  OBVIOUS
<1> QED BY <1>1, <1>2 DEF Values

(* The origin's own answer, passed on.                                     *)
LEMMA ThroughEndToEnd ==
    ASSUME NEW head \in Heads, NEW r, NEW sent, NEW seen,
           Exchange("miss", r, sent,
              [seen |-> seen,
               fields |-> forwardable_fields(head) \cup {<<CACHE_STATUS, "MISS">>}])
    PROVE  ClientGetsEndToEnd'
<1> DEFINE fields == forwardable_fields(head) \cup {<<CACHE_STATUS, "MISS">>}
<1>1. last'.kind = "miss" /\ last'.answer.fields = fields
  BY DEF Exchange
<1>2. Clean(forwardable_fields(head))
  BY HeadClean
<1>3. Values(fields, CACHE_STATUS) = {"MISS"}
  <2>1. /\ <<CACHE_STATUS, "MISS">> \in fields
        /\ \A f \in fields : f[1] = CACHE_STATUS => f = <<CACHE_STATUS, "MISS">>
    BY <1>2 DEF Clean
  <2> HIDE DEF fields
  <2> QED BY <2>1, OneValue
<1>4. Cardinality(Values(fields, CACHE_STATUS)) = 1
  BY <1>3, FS_Singleton
<1>5. \A f \in fields : f[1] \notin HOP_BY_HOP \cup {"content-length"} /\ f[2] # "hop"
  BY <1>2 DEF Clean, CACHE_STATUS, HOP_BY_HOP
<1> QED BY <1>1, <1>4, <1>5 DEF ClientGetsEndToEnd

(* A stored answer.                                                        *)
LEMMA CachedEndToEnd ==
    ASSUME NEW e, NEW kind, NEW status \in {"HIT", "STALE", "REVALIDATED"},
           Clean(e.fields), NEW r, NEW sent,
           Exchange(kind, r, sent, cached_response(e, status))
    PROVE  ClientGetsEndToEnd'
<1> DEFINE fields == cached_response(e, status).fields
<1>1. last'.answer.fields = fields
  BY DEF Exchange
<1>2. fields = Without(e.fields, {"age", CACHE_STATUS})
                 \cup {<<"age", "current">>, <<CACHE_STATUS, status>>}
  BY DEF cached_response
<1> HIDE DEF fields
<1>3. Values(fields, CACHE_STATUS) = {status} /\ Values(fields, "age") = {"current"}
  <2>1. /\ <<CACHE_STATUS, status>> \in fields /\ <<"age", "current">> \in fields
        /\ \A f \in fields : /\ f[1] = CACHE_STATUS => f = <<CACHE_STATUS, status>>
                             /\ f[1] = "age" => f = <<"age", "current">>
    BY <1>2 DEF Without, CACHE_STATUS
  <2> QED BY <2>1, OneValue
<1>4. Cardinality(Values(fields, CACHE_STATUS)) = 1
  BY <1>3, FS_Singleton
<1>5. \A f \in fields : f[1] \notin HOP_BY_HOP \cup {"content-length"} /\ f[2] # "hop"
  BY <1>2 DEF Clean, Without, CACHE_STATUS, HOP_BY_HOP
<1> QED BY <1>1, <1>3, <1>4, <1>5 DEF ClientGetsEndToEnd

-----------------------------------------------------------------------------
(* The store *)

(* An answer is put under the key of the request that fetched it.          *)
LEMMA PutKept ==
    ASSUME StoredUnderKey, StoredClean, NEW r \in Requests, NEW e,
           e.by \in Requests, may_use_cache(e.by), ResponseKey(e.by) = ResponseKey(r),
           AnsweredTo(e.by, e.seen),
           e = [seen |-> e.seen, by |-> e.by, fields |-> e.fields],
           Clean(e.fields), \A f \in e.fields : f[1] # "age",
           Put(r, e)
    PROVE  StoredUnderKey' /\ StoredClean'
<1>1. /\ DOMAIN stored' = DOMAIN stored \cup {ResponseKey(r)}
      /\ \A k \in DOMAIN stored' :
            stored'[k] = IF k = ResponseKey(r) THEN e ELSE stored[k]
  BY DEF Put
<1>2. StoredClean'
  BY <1>1 DEF StoredClean, Clean
<1>3. ASSUME NEW k \in DOMAIN stored'
      PROVE  /\ stored'[k].by \in Requests /\ may_use_cache(stored'[k].by)
             /\ ResponseKey(stored'[k].by) = k
             /\ AnsweredTo(stored'[k].by, stored'[k].seen)
  BY <1>1 DEF StoredUnderKey
<1> QED BY <1>2, <1>3 DEF StoredUnderKey

LEMMA UnchangedKept ==
    ASSUME StoredUnderKey, StoredClean, UNCHANGED stored
    PROVE  StoredUnderKey' /\ StoredClean'
  BY DEF StoredUnderKey, StoredClean

(* The origin's answer to r, stored.                                       *)
LEMMA AnswerKept ==
    ASSUME StoredUnderKey, StoredClean, NEW r \in Requests, may_use_cache(r),
           NEW head \in Heads, NEW extra, NEW sent, SentFor(r, extra, sent),
           Put(r, [seen |-> Seen(r.path, sent), by |-> r, fields |-> stored_fields(head)])
    PROVE  StoredUnderKey' /\ StoredClean'
<1> DEFINE e == [seen |-> Seen(r.path, sent), by |-> r, fields |-> stored_fields(head)]
<1>1. e.by = r /\ AnsweredTo(r, e.seen)
  BY SeenWithoutPreconditions
<1>2. /\ e = [seen |-> e.seen, by |-> e.by, fields |-> e.fields]
      /\ Clean(e.fields) /\ \A f \in e.fields : f[1] # "age"
  BY HeadClean
<1> HIDE DEF e
<1> QED BY <1>1, <1>2, PutKept DEF e

(* A 304 to r, and the entry updated from it.                              *)
LEMMA NotModifiedKept ==
    ASSUME StoredUnderKey, StoredClean, NEW r \in Requests, Has(r),
           NEW head \in Heads, NEW sent, NotModified(r, sent, head)
    PROVE  StoredUnderKey' /\ StoredClean'
<1>1. CASE Put(r, Freshened(r, head))
  <2> DEFINE e == Freshened(r, head)
  <2>1. /\ e = [seen |-> e.seen, by |-> e.by, fields |-> e.fields]
        /\ e.seen = Entry(r).seen /\ e.by = Entry(r).by
        /\ Clean(e.fields) /\ \A f \in e.fields : f[1] # "age"
    BY EntryClean
  <2>2. /\ e.by \in Requests /\ may_use_cache(e.by)
        /\ ResponseKey(e.by) = ResponseKey(r) /\ AnsweredTo(e.by, e.seen)
    BY <2>1 DEF StoredUnderKey, Has, Entry
  <2> HIDE DEF e
  <2> QED BY <1>1, <2>1, <2>2, PutKept DEF e
<1>2. CASE UNCHANGED stored
  BY <1>2, UnchangedKept
<1> QED BY <1>1, <1>2 DEF NotModified

-----------------------------------------------------------------------------
(* One exchange *)

(* What the properties say of what was sent.                               *)
LEMMA SentIsOurs ==
    ASSUME NEW r \in Requests, NEW extra, NEW sent, SentFor(r, extra, sent),
           NEW kind, NEW answer, Exchange(kind, r, sent, answer),
           extra # {} => kind = "stale" \/ ~conditional(r)
    PROVE  OriginGetsOurs'
<1>1. last'.kind = kind /\ last'.request = r /\ last'.sent = sent
  BY DEF Exchange
<1>2. \A f \in sent : f \in extra =>
        /\ f[1] \in {"if-none-match", "if-modified-since"}
        /\ kind = "stale" \/ ~conditional(r)
  BY DEF SentFor, Validating
<1> QED BY <1>1, <1>2, SentOurs DEF OriginGetsOurs, Ours

(* The preconditions of a request that is not a background refresh.        *)
LEMMA SentUnmixed ==
    ASSUME NEW r \in Requests, NEW sent, NEW kind, kind # "stale", NEW answer,
           Exchange(kind, r, sent, answer),
           sent = upstream_request(r) \/ ~conditional(r) \/ sent = {},
           kind = "revalidated" =>
             ~conditional(r) /\ \E f \in sent : f[1] \in PRECONDITION_HEADERS
    PROVE  PreconditionsNotMixed'
<1>1. last'.kind = kind /\ last'.request = r /\ last'.sent = sent
  BY DEF Exchange
<1>2. CASE kind # "revalidated" /\ sent = upstream_request(r)
  <2>1. ASSUME NEW f \in sent, f[1] \in PRECONDITION_HEADERS
        PROVE  f \in r.fields
    BY <1>2, <2>1, Sent DEF PRECONDITION_HEADERS
  <2> QED BY <1>1, <1>2, <2>1 DEF PreconditionsNotMixed
<1>3. CASE ~conditional(r)
  <2>1. ASSUME NEW f \in r.fields PROVE f[1] \notin PRECONDITION_HEADERS
    BY <1>3, <2>1 DEF conditional, Values
  <2> QED BY <1>1, <2>1 DEF PreconditionsNotMixed
<1>4. CASE kind # "revalidated" /\ sent = {}
  BY <1>1, <1>4 DEF PreconditionsNotMixed
<1> QED BY <1>2, <1>3, <1>4

(* An exchange whose answer comes from the origin.                         *)
LEMMA FromOrigin ==
    ASSUME IInv, NEW r \in Requests, NEW head \in Heads, NEW extra, NEW sent,
           SentFor(r, extra, sent), extra # {} => ~conditional(r),
           sent = upstream_request(r) \/ ~conditional(r),
           GivenThrough(r, sent, head) \/ NotModifiedForClient(r, sent, head)
    PROVE  IInv'
<1>1. PICK seen : Exchange("miss", r, sent,
         [seen |-> seen,
          fields |-> forwardable_fields(head) \cup {<<CACHE_STATUS, "MISS">>}])
  BY DEF GivenThrough, NotModifiedForClient
<1>2. OriginGetsOurs'
  BY <1>1, SentIsOurs
<1>3. PreconditionsNotMixed'
  BY <1>1, SentUnmixed
<1>4. ClientGetsEndToEnd'
  BY <1>1, ThroughEndToEnd
<1>5. StoredAnswerFits'
  BY <1>1 DEF Exchange, StoredAnswerFits
<1>6. \/ UNCHANGED stored
      \/ /\ may_use_cache(r)
         /\ Put(r, [seen |-> Seen(r.path, sent), by |-> r, fields |-> stored_fields(head)])
  BY DEF GivenThrough, NotModifiedForClient
<1>7. StoredUnderKey' /\ StoredClean'
  BY <1>6, UnchangedKept, AnswerKept DEF IInv
<1> QED BY <1>2, <1>3, <1>4, <1>5, <1>7 DEF IInv

(* What a request finds fits it.                                           *)
LEMMA FoundFits ==
    ASSUME StoredUnderKey, NEW r \in Requests, Has(r)
    PROVE  Fits(Entry(r).seen, Entry(r).by, r)
  BY SameKeyFits DEF StoredUnderKey, Has, Entry

(* What an exchange that serves a stored answer shows of it.               *)
LEMMA FromStore ==
    ASSUME IInv, NEW r \in Requests, Has(r), NEW head \in Heads,
           NEW e \in {Entry(r), Freshened(r, head)}, NEW kind, NEW sent,
           NEW status \in {"HIT", "STALE", "REVALIDATED"},
           Exchange(kind, r, sent, cached_response(e, status))
    PROVE  ClientGetsEndToEnd' /\ StoredAnswerFits'
<1>1. Clean(e.fields) /\ e.seen = Entry(r).seen /\ e.by = Entry(r).by
  BY EntryClean DEF IInv
<1>2. ClientGetsEndToEnd'
  BY <1>1, CachedEndToEnd
<1>3. last'.request = r /\ last'.answer.seen = e.seen /\ last'.answer.by = e.by
  BY DEF Exchange, cached_response
<1>4. Fits(Entry(r).seen, Entry(r).by, r)
  BY FoundFits DEF IInv
<1> QED BY <1>1, <1>2, <1>3, <1>4 DEF StoredAnswerFits

(* A fresh stored answer.  Nothing is sent.                                *)
LEMMA HitIInv ==
    ASSUME IInv, NEW r \in Requests, Hit(r)
    PROVE  IInv'
<1>1. Has(r) /\ Exchange("hit", r, {}, cached_response(Entry(r), "HIT"))
  BY DEF Hit
<1>2. OriginGetsOurs'
  BY <1>1 DEF Exchange, OriginGetsOurs
<1>3. PreconditionsNotMixed'
  BY <1>1, SentUnmixed
<1>4. Clean(Entry(r).fields)
  BY <1>1 DEF IInv, StoredClean, Has, Entry, Clean
<1>5. ClientGetsEndToEnd'
  BY <1>1, <1>4, CachedEndToEnd
<1>6. StoredAnswerFits'
  <2>1. /\ last'.request = r /\ last'.answer.seen = Entry(r).seen
        /\ last'.answer.by = Entry(r).by
    BY <1>1 DEF Exchange, cached_response
  <2> QED BY <1>1, <2>1, FoundFits DEF StoredAnswerFits, IInv
<1>7. StoredUnderKey' /\ StoredClean'
  BY UnchangedKept DEF Hit, IInv
<1> QED BY <1>2, <1>3, <1>5, <1>6, <1>7 DEF IInv

(* A request that finds nothing.                                           *)
LEMMA MissIInv ==
    ASSUME IInv, NEW r \in Requests, NEW head \in Heads, Miss(r, head)
    PROVE  IInv'
<1>1. SentFor(r, {}, upstream_request(r))
  BY DEF SentFor
<1> QED BY <1>1, FromOrigin DEF Miss

(* A request that takes a stale answer's validators to the origin, if it   *)
(* has no preconditions of its own.                                        *)
LEMMA RevalidateIInv ==
    ASSUME IInv, NEW r \in Requests, NEW head \in Heads, Revalidate(r, head)
    PROVE  IInv'
<1> DEFINE extra == IF conditional(r) THEN {} ELSE validators(Entry(r))
           sent == RevalidationSent(r)
<1>1. /\ sent = upstream_request(r) \cup extra
      /\ extra # {} => ~conditional(r)
      /\ sent = upstream_request(r) \/ ~conditional(r)
  BY DEF RevalidationSent
<1>2. SentFor(r, extra, sent)
  BY <1>1, ValidatorNames DEF SentFor
<1> HIDE DEF extra
<1>3. CASE GivenThrough(r, sent, head) \/ NotModifiedForClient(r, sent, head)
  BY <1>1, <1>2, <1>3, FromOrigin
<1>4. CASE /\ ~conditional(r) /\ NotModified(r, sent, head)
           /\ Exchange("revalidated", r, sent,
                       cached_response(Freshened(r, head), "REVALIDATED"))
  <2>1. Has(r)
    BY DEF Revalidate
  <2>2. OriginGetsOurs'
    BY <1>1, <1>2, <1>4, SentIsOurs
  <2>5. PreconditionsNotMixed'
    <3>1. \E f \in sent : f[1] \in PRECONDITION_HEADERS
      BY <1>1, <1>4, ValidatorNames
         DEF NotModified, extra, Validating, PRECONDITION_HEADERS
    <3> QED BY <1>1, <1>4, <3>1, SentUnmixed
  <2>3. ClientGetsEndToEnd' /\ StoredAnswerFits'
    BY <1>4, <2>1, FromStore
  <2>4. StoredUnderKey' /\ StoredClean'
    BY <1>4, <2>1, NotModifiedKept DEF IInv
  <2> QED BY <2>2, <2>3, <2>4, <2>5 DEF IInv
<1> QED BY <1>3, <1>4 DEF Revalidate

(* A background refresh, whose request has no precondition of the client.  *)
LEMMA RefreshIInv ==
    ASSUME IInv, NEW r \in Requests, NEW head \in Heads, Refresh(r, head)
    PROVE  IInv'
<1> DEFINE extra == validators(Entry(r))
           sent == Without(upstream_request(r), PRECONDITION_HEADERS) \cup extra
<1>1. Has(r) /\ Exchange("stale", r, sent, cached_response(Entry(r), "STALE"))
  BY DEF Refresh
<1>2. SentFor(r, extra, sent)
  <2>1. ASSUME NEW f \in upstream_request(r), f[1] \in PRECONDITION_HEADERS
        PROVE  f \in r.fields
    BY <2>1, Sent DEF PRECONDITION_HEADERS
  <2> QED BY <2>1, ValidatorNames DEF SentFor, Without
<1>3. OriginGetsOurs'
  BY <1>1, <1>2, SentIsOurs
<1>4. PreconditionsNotMixed'
  <2>1. \A f \in extra : f[1] \in PRECONDITION_HEADERS
    BY ValidatorNames DEF Validating, PRECONDITION_HEADERS
  <2>2. {f \in sent : f[1] \in PRECONDITION_HEADERS} = extra
    BY <2>1 DEF Without
  <2>3. validators(cached_response(Entry(r), "STALE")) = extra
    <3>1. Values(cached_response(Entry(r), "STALE").fields, "etag")
            = Values(Entry(r).fields, "etag")
      BY DEF cached_response, Values, Without, CACHE_STATUS
    <3>2. Values(cached_response(Entry(r), "STALE").fields, "last-modified")
            = Values(Entry(r).fields, "last-modified")
      BY DEF cached_response, Values, Without, CACHE_STATUS
    <3> QED BY <3>1, <3>2 DEF validators
  <2>4. last'.kind = "stale" /\ last'.sent = sent
        /\ last'.answer = cached_response(Entry(r), "STALE")
    BY <1>1 DEF Exchange
  <2> QED BY <2>2, <2>3, <2>4 DEF PreconditionsNotMixed
<1>5. ClientGetsEndToEnd' /\ StoredAnswerFits'
  BY <1>1, FromStore
<1>6. StoredUnderKey' /\ StoredClean'
  <2>1. CASE NotModified(r, sent, head)
    BY <1>1, <2>1, NotModifiedKept DEF IInv
  <2>2. CASE Put(r, [seen |-> Seen(r.path, sent), by |-> r, fields |-> stored_fields(head)])
    BY <1>1, <1>2, <2>2, AnswerKept DEF IInv, Has
  <2>3. CASE UNCHANGED stored
    BY <2>3, UnchangedKept DEF IInv
  <2> QED BY <2>1, <2>2, <2>3 DEF Refresh
<1> QED BY <1>3, <1>4, <1>5, <1>6 DEF IInv

(* An entry goes, and the last exchange stays.                             *)
LEMMA DropIInv ==
    ASSUME IInv, NEW k, Drop(k)
    PROVE  IInv'
<1>1. StoredUnderKey' /\ StoredClean'
  BY DEF Drop, IInv, StoredUnderKey, StoredClean
<1> QED BY <1>1 DEF Drop, IInv, StoredAnswerFits, OriginGetsOurs, PreconditionsNotMixed,
                    ClientGetsEndToEnd

(* Every step keeps IInv.                                                  *)
LEMMA NextIInv ==
    ASSUME IInv, [Next]_vars
    PROVE  IInv'
<1>1. CASE UNCHANGED vars
  <2>1. StoredUnderKey' /\ StoredClean'
    BY <1>1, UnchangedKept DEF vars, IInv
  <2> QED BY <1>1, <2>1 DEF vars, IInv, StoredAnswerFits, OriginGetsOurs,
               PreconditionsNotMixed, ClientGetsEndToEnd
<1> QED BY <1>1, HitIInv, MissIInv, RevalidateIInv, RefreshIInv, DropIInv DEF Next

(* IInv holds in every reachable state (src/forwarded.rs, src/proxy.rs and *)
(* the keys of src/cache.rs).                                              *)
THEOREM Inductive == Spec => []IInv
<1>1. Init => IInv
  BY DEF Init, IInv, StoredUnderKey, StoredClean, StoredAnswerFits, OriginGetsOurs,
         PreconditionsNotMixed, ClientGetsEndToEnd
<1>2. IInv /\ [Next]_vars => IInv'
  BY NextIInv
<1> QED BY <1>1, <1>2, PTL DEF Spec

(* The key of a stored answer has what the origin goes by, so the answer   *)
(* fits every request that finds it, whatever clients send and answers     *)
(* vary on (cache.rs, PrimaryKey and vary_values; forwarded.rs).           *)
THEOREM AnswerFits == Spec => []StoredAnswerFits
<1>1. IInv => StoredAnswerFits
  BY DEF IInv
<1> QED BY <1>1, Inductive, PTL

(* The origin gets the proxy's forwarding fields and none of the client's  *)
(* (proxy.rs, upstream_request).                                           *)
THEOREM OursSent == Spec => []OriginGetsOurs
<1>1. IInv => OriginGetsOurs
  BY DEF IInv
<1> QED BY <1>1, Inductive, PTL

(* Preconditions and validators are never mixed (proxy.rs, forward and     *)
(* refresh_in_background).                                                 *)
THEOREM NotMixed == Spec => []PreconditionsNotMixed
<1>1. IInv => PreconditionsNotMixed
  BY DEF IInv
<1> QED BY <1>1, Inductive, PTL

(* The client gets end-to-end fields, one status and one Age (proxy.rs,    *)
(* forwardable_fields and cached_response).                                *)
THEOREM EndToEnd == Spec => []ClientGetsEndToEnd
<1>1. IInv => ClientGetsEndToEnd
  BY DEF IInv
<1> QED BY <1>1, Inductive, PTL

=============================================================================
