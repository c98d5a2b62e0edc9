------------------------------ MODULE MCPolicy ------------------------------
(* Small instances of Policy: requests, answers and 304s that disagree with *)
(* each other in every way the rules tell apart.                            *)
EXTENDS Policy

D(name, n) == [name |-> name, argument |-> n]
Flag(name) == D(name, Invalid)

Get == [method |-> "GET", cc |-> <<>>, malformed |-> FALSE, override |-> FALSE,
        credentials |-> FALSE, conditional |-> FALSE]
SomeRequests ==
  {Get, [Get EXCEPT !.method = "HEAD"], [Get EXCEPT !.method = "POST"],
   [Get EXCEPT !.method = "OPTIONS"],
   [Get EXCEPT !.credentials = TRUE], [Get EXCEPT !.override = TRUE],
   [Get EXCEPT !.malformed = TRUE], [Get EXCEPT !.conditional = TRUE],
   [Get EXCEPT !.cc = <<D("max-age", 1)>>], [Get EXCEPT !.cc = <<Flag("max-age")>>],
   [Get EXCEPT !.cc = <<Flag("no-cache")>>], [Get EXCEPT !.cc = <<Flag("no-store")>>]}

Controls ==
  {<<>>, <<D("max-age", 2)>>, <<Flag("max-age")>>, <<D("max-age", 1), D("max-age", 3)>>,
   <<D("max-age", 2), D("stale-while-revalidate", 1), D("stale-if-error", 2)>>,
   <<D("s-maxage", 1), D("max-age", 3), D("stale-while-revalidate", 2)>>,
   <<D("max-age", 1), Flag("must-revalidate"), D("stale-if-error", 3)>>,
   <<Flag("public"), D("max-age", Max + 2), D("stale-if-error", Max + 2)>>,
   <<Flag("private"), D("max-age", 2)>>}

Ok == [status |-> 200, cc |-> <<D("max-age", 2)>>, malformed |-> FALSE, expires |-> None,
       date |-> None, age |-> None, set_cookie |-> FALSE, vary_any |-> FALSE,
       validator |-> FALSE]
ByDate == [Ok EXCEPT !.cc = <<>>, !.expires = 3]

SomeResponses ==
  {[Ok EXCEPT !.cc = c, !.age = a, !.validator = v] :
      c \in Controls, a \in {None, Invalid, 1}, v \in BOOLEAN}
    \cup {[ByDate EXCEPT !.expires = e, !.date = d] : e \in {Invalid, 0, 3}, d \in {None, Invalid, 1}}
    \cup {[Ok EXCEPT !.status = 206], [Ok EXCEPT !.malformed = TRUE],
          [Ok EXCEPT !.set_cookie = TRUE], [Ok EXCEPT !.vary_any = TRUE]}

Same == [cc |-> None, malformed |-> FALSE, expires |-> None, date |-> None, age |-> None,
         set_cookie |-> FALSE, vary_any |-> None, validator |-> FALSE]
SomeUpdates ==
  {Same, [Same EXCEPT !.age = 1], [Same EXCEPT !.date = 3], [Same EXCEPT !.set_cookie = TRUE],
   [Same EXCEPT !.vary_any = TRUE], [Same EXCEPT !.validator = TRUE]}
    \cup {[Same EXCEPT !.cc = c] : c \in Controls}

(* an origin that says a very long lifetime, most of which has passed *)
JustGet == {Get}
Aged(n) ==
  [Ok EXCEPT !.cc = <<D("max-age", Max), D("stale-while-revalidate", 2)>>, !.age = n]
NearlyMax == {Aged(Max - 2), Aged(Max - 1)}

(* an origin whose Age does not fit *)
OverMax == {[Ok EXCEPT !.age = Max + 1]}
=============================================================================
