----------------------------- MODULE MCHeaders ------------------------------
(* Small instances of Headers: requests that differ in one thing each, some *)
(* of which the key or the origin tells apart.                              *)
EXTENDS Headers

Get == [path |-> "/", scheme |-> "http", authority |-> None, ip |-> "ip1",
        fields |-> {<<"host", "a">>, <<"accept-language", "de">>}]
With(fields) == [Get EXCEPT !.fields = @ \cup fields]

(* values that are not UTF-8 *)
NotUtf8 == {"raw1", "raw2"}
TwoRaw == {[Get EXCEPT !.fields = {<<"host", v>>, <<"accept-language", v>>}] : v \in NotUtf8}

SomeRequests ==
  {Get, [Get EXCEPT !.scheme = "https"], [Get EXCEPT !.authority = "A", !.ip = "ip2"],
   [Get EXCEPT !.fields = {<<"host", "A">>, <<"accept-language", "fr">>}],
   With({<<"x-http-method", "DELETE">>}),
   With({<<"x-forwarded-host", "b">>, <<"x-real-ip", "ip2">>, <<"x-original-url", "/2">>,
         <<"x-forwarded-proto", "https">>, <<"x-forwarded-for", "ip2">>}),
   With({<<"connection", "x-trace">>, <<"x-trace", "hop">>, <<"te", "hop">>,
         <<"connection", "accept-language">>}),
   With({<<"if-none-match", "mine">>})} \cup TwoRaw

LowercaseHosts == [h \in {"a", "A", "b", "listener"} |-> IF h = "A" THEN "a" ELSE h]

SomeHeads ==
  {{<<"etag", "1">>, <<"age", "9">>, <<"x-trace", "end">>, <<"content-length", "5">>},
   {<<"connection", "x-trace">>, <<"x-trace", "hop">>, <<"keep-alive", "hop">>,
    <<CACHE_STATUS, "HIT">>}}

ByLanguage == [p \in {"/"} |-> {"accept-language"}]

(* an origin whose answer goes by the client's address, and says so *)
ByAddress == [p \in {"/"} |-> {"x-forwarded-for"}]
TwoAddresses == {Get, [Get EXCEPT !.ip = "ip2"]}
=============================================================================
