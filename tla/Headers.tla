------------------------------ MODULE Headers -------------------------------
(***************************************************************************)
(* The fields that cross the proxy, and the key they are stored under      *)
(* (src/forwarded.rs; upstream_request, with_validators, the field filters *)
(* and cached_response of src/proxy.rs; PrimaryKey and vary_values of      *)
(* src/cache.rs). A message's fields are a set of <<name, value>> pairs; a *)
(* Connection field is one pair for each option that it lists.             *)
(*                                                                         *)
(* The origin's answer is a function of what it is sent: a stored answer   *)
(* fits a request when the origin would have given it the same one. When   *)
(* an entry is fresh, stale or gone is Policy's and Proxy's matter, and is *)
(* left open here; so is which exchange runs first.                        *)
(***************************************************************************)
EXTENDS FiniteSets

CONSTANTS
  Requests,             \* GETs: their path, scheme, authority, ip and fields
  Heads,                \* the fields of the origin's answers
  Vary,                 \* for each path, the names its answers vary on
  NotText,              \* values that are not UTF-8
  Replacement,          \* what from_utf8_lossy makes of one
  Lowercase,            \* to_ascii_lowercase, of the hosts
  ListenerHost,         \* AppConfig::host
  UpstreamHost,         \* the host of --origin-url
  None

VARIABLES
  stored,               \* the stored answers, by key
  last                  \* the last exchange, or None

vars == <<stored, last>>

Values(fields, name) == {f[2] : f \in {g \in fields : g[1] = name}}
Without(fields, names) == {f \in fields : f[1] \notin names}

-----------------------------------------------------------------------------
(* forwarded.rs *)

CLIENT_FORWARDING_HEADERS ==
  {"forwarded", "x-forwarded-for", "x-forwarded-host", "x-forwarded-proto",
   "x-forwarded-port", "x-forwarded-server", "x-forwarded-prefix", "x-forwarded-uri",
   "x-host", "x-forwarded-scheme", "x-original-host", "front-end-https", "x-real-ip"}

URL_OVERRIDE_HEADERS == {"x-original-url", "x-rewrite-url"}

(* ClientInfo::from_request: the target's authority, else a Host field that *)
(* is text, else the listener's own host.                                   *)
ClientHost(r) ==
  LET given == Values(r.fields, "host") \ NotText
  IN  IF r.authority # None THEN r.authority
      ELSE IF given # {} THEN CHOOSE h \in given : TRUE
      ELSE ListenerHost

-----------------------------------------------------------------------------
(* Keys *)

METHOD_OVERRIDE_HEADERS == {"x-http-method-override", "x-http-method", "x-method-override"}

PRECONDITION_HEADERS ==
  {"if-match", "if-none-match", "if-modified-since", "if-unmodified-since", "if-range"}

conditional(r) == \E n \in PRECONDITION_HEADERS : Values(r.fields, n) # {}

(* Mutant of may_use_cache: a method override is not looked at.             *)
may_use_cache_any(r) == TRUE

(* RequestPolicy's may_serve and may_store, for a GET without Cache-Control.*)
may_use_cache(r) == \A n \in METHOD_OVERRIDE_HEADERS : Values(r.fields, n) = {}

PrimaryKey(r) ==
  [scheme |-> r.scheme, host |-> Lowercase[ClientHost(r)], path |-> r.path]

from_utf8_lossy(values) == {IF v \in NotText THEN Replacement ELSE v : v \in values}

(* The values of the client's own fields, as text.                          *)
vary_values(r) == [n \in Vary[r.path] |-> from_utf8_lossy(Values(r.fields, n))]

ResponseKey(r) == [primary |-> PrimaryKey(r), vary |-> vary_values(r)]

-----------------------------------------------------------------------------
(* Field filters *)

HOP_BY_HOP ==
  {"connection", "keep-alive", "proxy-connection", "te", "trailer", "transfer-encoding",
   "upgrade", "proxy-authenticate", "proxy-authorization"}

connection_options(fields) == Values(fields, "connection") \ NotText

(* Mutant of end_to_end: the options of Connection are not looked at.       *)
end_to_end_named(fields) == Without(fields, HOP_BY_HOP)

(* The fields of a message that is_end_to_end lets through.                 *)
end_to_end(fields) == Without(fields, HOP_BY_HOP \cup connection_options(fields))

CACHE_STATUS == "x-shadowstep-cache"

(* A field's name is text. The value "hop" marks the origin's fields that   *)
(* are for the hop to the proxy.                                            *)
ASSUME HeadersAssumption ==
  /\ \A r \in Requests : \A f \in r.fields : f = <<f[1], f[2]>> /\ f[1] \notin NotText
  /\ NotText \cap {"host", "x-forwarded-for", "x-forwarded-proto", "x-forwarded-host",
                   "if-none-match", "if-modified-since"} = {}
  /\ \A head \in Heads : \A f \in head :
        f[2] = "hop" => f[1] \in HOP_BY_HOP \cup connection_options(head)

forwardable_fields(head) == Without(end_to_end(head), {"content-length", CACHE_STATUS})
stored_fields(head) == Without(forwardable_fields(head), {"age"})

(* Mutant of upstream_request: the client's forwarding fields stay.         *)
upstream_request_added(r) ==
  Without(end_to_end(r.fields), {"host"} \cup URL_OVERRIDE_HEADERS)
    \cup {<<"host", UpstreamHost>>, <<"x-forwarded-for", r.ip>>,
          <<"x-forwarded-proto", r.scheme>>, <<"x-forwarded-host", ClientHost(r)>>}

(* The builder appends its own fields to what is left of the client's.      *)
upstream_request(r) ==
  Without(end_to_end(r.fields),
          {"host"} \cup CLIENT_FORWARDING_HEADERS \cup URL_OVERRIDE_HEADERS)
    \cup {<<"host", UpstreamHost>>, <<"x-forwarded-for", r.ip>>,
          <<"x-forwarded-proto", r.scheme>>, <<"x-forwarded-host", ClientHost(r)>>}

validators(e) ==
  {<<"if-none-match", v>> : v \in Values(e.fields, "etag")}
    \cup {<<"if-modified-since", v>> : v \in Values(e.fields, "last-modified")}

updated_fields(fields, update) == Without(fields, {f[1] : f \in update}) \cup update

cached_response(e, status) ==
  [seen |-> e.seen, by |-> e.by,
   fields |-> Without(e.fields, {"age", CACHE_STATUS})
                \cup {<<"age", "current">>, <<CACHE_STATUS, status>>}]

-----------------------------------------------------------------------------
(* What an origin goes by: the path, the fields its Vary names, and without *)
(* a word in Vary the ones "some origin frameworks" act on (forwarded.rs).  *)
(* A host's spelling makes no difference.                                   *)
ActedOn ==
  (CLIENT_FORWARDING_HEADERS \ {"x-forwarded-for"})
    \cup URL_OVERRIDE_HEADERS \cup METHOD_OVERRIDE_HEADERS

Seen(path, sent) ==
  [path |-> path, host |-> {Lowercase[h] : h \in Values(sent, "x-forwarded-host")},
   fields |-> {f \in sent : f[1] \in (ActedOn \cup Vary[path]) \ {"x-forwarded-host"}}]

-----------------------------------------------------------------------------
(* For the properties, an entry also has what the origin saw of the request *)
(* that fetched it, and that request.                                       *)
Exchange(kind, r, sent, answer) ==
  last' = [kind |-> kind, request |-> r, sent |-> sent, answer |-> answer]

Has(r) == may_use_cache(r) /\ ResponseKey(r) \in DOMAIN stored
Entry(r) == stored[ResponseKey(r)]
Put(r, e) ==
  stored' = [k \in DOMAIN stored \cup {ResponseKey(r)} |->
               IF k = ResponseKey(r) THEN e ELSE stored[k]]

(* client_response: the origin's own answer goes to the client and, when    *)
(* its body is copied whole, to the store.                                  *)
GivenThrough(r, sent, head) ==
  LET seen == Seen(r.path, sent)
  IN  /\ Exchange("miss", r, sent,
           [seen |-> seen, fields |-> forwardable_fields(head) \cup {<<CACHE_STATUS, "MISS">>}])
      /\ \/ UNCHANGED stored
         \/ may_use_cache(r) /\ Put(r, [seen |-> seen, by |-> r, fields |-> stored_fields(head)])

(* A 304 to the client's own preconditions is the client's.                 *)
NotModifiedForClient(r, sent, head) ==
  /\ \E n \in PRECONDITION_HEADERS : Values(sent, n) \cap Values(r.fields, n) # {}
  /\ Exchange("miss", r, sent,
       [seen |-> None, fields |-> forwardable_fields(head) \cup {<<CACHE_STATUS, "MISS">>}])
  /\ UNCHANGED stored

(* Store::freshen: the origin answered 304, because its answer is the       *)
(* stored one. The updated entry stays out of the store when another        *)
(* response has taken its place.                                            *)
Freshened(r, head) ==
  [Entry(r) EXCEPT !.fields = updated_fields(@, stored_fields(head))]
NotModified(r, sent, head) ==
  /\ validators(Entry(r)) # {}
  /\ Entry(r).seen = Seen(r.path, sent)
  /\ Put(r, Freshened(r, head)) \/ UNCHANGED stored

(* A fresh stored response answers r.                                       *)
Hit(r) ==
  /\ Has(r)
  /\ Exchange("hit", r, {}, cached_response(Entry(r), "HIT"))
  /\ UNCHANGED stored

(* The store has nothing for r, which goes to the origin as it is.          *)
Miss(r, head) ==
  /\ ~Has(r)
  /\ LET sent == upstream_request(r)
     IN  GivenThrough(r, sent, head) \/ NotModifiedForClient(r, sent, head)

(* Mutant of RevalidationSent: a conditional request is revalidated too.    *)
RevalidationSentBoth(r) == upstream_request(r) \cup validators(Entry(r))

(* forward, with a stale entry: a client's preconditions go unchanged.      *)
RevalidationSent(r) ==
  upstream_request(r) \cup IF conditional(r) THEN {} ELSE validators(Entry(r))

Revalidate(r, head) ==
  /\ Has(r)
  /\ LET sent == RevalidationSent(r)
     IN  \/ GivenThrough(r, sent, head)
         \/ NotModifiedForClient(r, sent, head)
         \/ /\ ~conditional(r) /\ NotModified(r, sent, head)
            /\ Exchange("revalidated", r, sent,
                        cached_response(Freshened(r, head), "REVALIDATED"))

(* refresh_in_background: the client has the stale response, and the stored *)
(* validators go to the origin in place of its preconditions.               *)
Refresh(r, head) ==
  /\ Has(r)
  /\ LET sent == Without(upstream_request(r), PRECONDITION_HEADERS)
                   \cup validators(Entry(r))
     IN  /\ Exchange("stale", r, sent, cached_response(Entry(r), "STALE"))
         /\ \/ NotModified(r, sent, head)
            \/ Put(r, [seen |-> Seen(r.path, sent), by |-> r, fields |-> stored_fields(head)])
            \/ UNCHANGED stored

(* An entry expires, is evicted or is invalidated.                          *)
Drop(k) ==
  /\ stored' = [j \in DOMAIN stored \ {k} |-> stored[j]]
  /\ UNCHANGED last

Init == stored = <<>> /\ last = None

Next ==
  \/ \E r \in Requests :
       \/ Hit(r)
       \/ \E head \in Heads : Miss(r, head) \/ Revalidate(r, head) \/ Refresh(r, head)
  \/ \E k \in DOMAIN stored : Drop(k)

Spec == Init /\ [][Next]_vars

-----------------------------------------------------------------------------
(* What may tell two requests for one entry apart at the origin: a field    *)
(* that its answers vary on, and that both clients sent alike as text, is   *)
(* not UTF-8 or is listed in the Connection field of one of them, which     *)
(* keeps it from the origin.                                                *)
AlikeInTheKey(r, s, n) ==
  /\ n \in Vary[r.path]
  /\ from_utf8_lossy(Values(r.fields, n)) = from_utf8_lossy(Values(s.fields, n))
  /\ \/ n \in connection_options(r.fields) \cup connection_options(s.fields)
     \/ (Values(r.fields, n) \cup Values(s.fields, n)) \cap NotText # {}

(* Whether an answer that s fetched fits r.                                 *)
Compared(r) == (ActedOn \cup Vary[r.path]) \ (PRECONDITION_HEADERS \cup {"x-forwarded-for"})

Fits(seen, s, r) ==
  LET own == Seen(r.path, upstream_request(r)) IN
  /\ seen.path = own.path /\ seen.host = own.host
  /\ \A n \in Compared(r) :
       Values(seen.fields, n) = Values(own.fields, n) \/ AlikeInTheKey(r, s, n)

(* "the origin response cache must key on `scheme` and `host` from here, so *)
(* that the key matches the X-Forwarded-Proto and X-Forwarded-Host the      *)
(* origin receives" (src/forwarded.rs): what a request gets from the store  *)
(* was answered to the same scheme, host and path and to the same fields of *)
(* those that an origin acts on or varies on, whoever asked first, although *)
(* the key leaves most of them out. The client's address is not in the key, *)
(* so X-Forwarded-For may differ also where answers vary on it.             *)
StoredAnswerFits ==
  last # None /\ last.kind # "miss" =>
    Fits(last.answer.seen, last.answer.by, last.request)

(* Without those exceptions: what a request gets from the store is what the *)
(* origin would have answered it.                                           *)
StoredAnswerExact ==
  last # None /\ last.kind # "miss" =>
    last.answer.seen = Seen(last.request.path, upstream_request(last.request))

(* The client's address, host and scheme reach the origin once each, as the *)
(* connection has them. Nothing that is for one hop, or that claims another *)
(* of them, reaches it: under a name that the client's Connection lists     *)
(* there are only the proxy's own fields.                                   *)
OriginGetsOurs ==
  last # None /\ last.sent # {} =>
    LET r == last.request
        ours == {"host", "x-forwarded-for", "x-forwarded-proto", "x-forwarded-host"}
        validating == last.kind = "stale" \/ ~conditional(r)
    IN
    /\ Values(last.sent, "host") = {UpstreamHost}
    /\ Values(last.sent, "x-forwarded-for") = {r.ip}
    /\ Values(last.sent, "x-forwarded-proto") = {r.scheme}
    /\ Values(last.sent, "x-forwarded-host") = {ClientHost(r)}
    /\ \A f \in last.sent : f[1] \in Values(r.fields, "connection") =>
         \/ f[1] \in ours
         \/ validating /\ f[1] \in {"if-none-match", "if-modified-since"}
    /\ \A f \in last.sent : f[1] \notin HOP_BY_HOP \cup URL_OVERRIDE_HEADERS

(* The origin never gets a client's preconditions beside the stored         *)
(* validators, whose 304 would then be nobody's ("the origin's answer is    *)
(* for the client, not for the stored response"): a background refresh      *)
(* sends the validators of what the client got, and any other request the   *)
(* client's preconditions or none of them. A 304 makes a stored response    *)
(* good only when it answers stored validators and nothing of the client's. *)
PreconditionsNotMixed ==
  last # None =>
    LET asked == {f \in last.sent : f[1] \in PRECONDITION_HEADERS}
    IN  IF last.kind = "stale" THEN asked = validators(last.answer)
        ELSE /\ asked \subseteq last.request.fields \/ asked \cap last.request.fields = {}
             /\ last.kind = "revalidated" => asked # {} /\ asked \cap last.request.fields = {}

(* A client gets one cache status, the store's own Age and never the        *)
(* origin's stale one, and no field that was for the hop to the proxy,      *)
(* whether the answer came through or was stored and updated since.         *)
ClientGetsEndToEnd ==
  last # None =>
    LET fields == last.answer.fields IN
    /\ Cardinality(Values(fields, CACHE_STATUS)) = 1
    /\ last.kind # "miss" => Values(fields, "age") = {"current"}
    /\ {f[1] : f \in fields} \cap (HOP_BY_HOP \cup {"content-length"}) = {}
    /\ "hop" \notin {f[2] : f \in fields}

-----------------------------------------------------------------------------
(* A stored answer is under the key of the request that fetched it, and is  *)
(* what the origin answered to that request.                                *)
AnsweredTo(s, seen) ==
  LET own == Seen(s.path, upstream_request(s))
  IN  /\ seen.path = own.path /\ seen.host = own.host
      /\ \A n \in Compared(s) : Values(seen.fields, n) = Values(own.fields, n)

StoredUnderKey ==
  \A k \in DOMAIN stored :
    LET s == stored[k].by
    IN  /\ s \in Requests /\ may_use_cache(s) /\ ResponseKey(s) = k
        /\ AnsweredTo(s, stored[k].seen)

(* A stored response leaves out what is for one hop and what the store      *)
(* works out on each use.                                                   *)
StoredClean ==
  \A k \in DOMAIN stored :
    /\ stored[k] = [seen |-> stored[k].seen, by |-> stored[k].by,
                    fields |-> stored[k].fields]
    /\ \A f \in stored[k].fields :
         f[1] \notin HOP_BY_HOP \cup {"age", "content-length", CACHE_STATUS} /\ f[2] # "hop"

IInv ==
  /\ StoredUnderKey /\ StoredClean
  /\ StoredAnswerFits /\ OriginGetsOurs /\ PreconditionsNotMixed /\ ClientGetsEndToEnd
=============================================================================
