------------------------------- MODULE Policy -------------------------------
(***************************************************************************)
(* The cache's rules (src/cache.rs): what the directives of a request and  *)
(* of a response allow, how long a response is fresh, how long it may be   *)
(* used stale, and what a 304 makes of it. One response is stored, ages    *)
(* and is updated; requests of every kind look at it at every moment.      *)
(*                                                                         *)
(* A Cache-Control field is the list of its directives in order, each with *)
(* a number or an Invalid argument (none, or not all digits). Seconds are  *)
(* ticks, and Max is u64::MAX.                                             *)
(***************************************************************************)
EXTENDS Naturals, Sequences

CONSTANTS
  Requests,             \* the requests
  Responses,            \* the origin's answers
  Updates,              \* the fields of its 304s; None where it sends none
  Max,                  \* the largest number of seconds that fits
  CacheTtl,             \* --cache-ttl-seconds
  MaxTime,              \* bound on the clock
  None, Invalid

(* What the rules look at in a request, an answer and a 304. A moment is a  *)
(* number of seconds, or says that the field is missing or cannot be read.  *)
Directive == [name : STRING, argument : Nat \cup {Invalid}]
Control == Seq(Directive)
Moment == Nat \cup {None, Invalid}
Request == [method : STRING, cc : Control, malformed : BOOLEAN, override : BOOLEAN,
            credentials : BOOLEAN, conditional : BOOLEAN]
Response == [status : Nat, cc : Control, malformed : BOOLEAN, expires : Moment,
             date : Moment, age : Moment, set_cookie : BOOLEAN, vary_any : BOOLEAN,
             validator : BOOLEAN]
Update == [cc : Control \cup {None}, malformed : BOOLEAN, expires : Moment,
           date : Moment, age : Moment, set_cookie : BOOLEAN,
           vary_any : BOOLEAN \cup {None}, validator : BOOLEAN]

(* A stored response: StoredResponse, with the request that fetched it, and *)
(* the age and date that the origin sent.                                   *)
Entry == [fields : Response, by : Request, stored_at : Nat, initial_age : Nat,
          ttl : Nat, real_age : Nat, date : Nat]

ASSUME PolicyAssumption ==
  /\ Requests \subseteq Request /\ Responses \subseteq Response /\ Updates \subseteq Update
  /\ Max \in Nat /\ MaxTime \in Nat /\ CacheTtl \in Nat \ {0}
  /\ None \notin Nat \cup BOOLEAN \cup Control \cup Entry
  /\ Invalid \notin Nat /\ None # Invalid

VARIABLES
  now,                  \* the clock
  entry                 \* the stored response, or None

vars == <<now, entry>>

Least(a, b) == IF a < b THEN a ELSE b
Most(a, b) == IF a > b THEN a ELSE b

-----------------------------------------------------------------------------
(* Directives *)

has(cc, name) == \E i \in DOMAIN cc : cc[i].name = name

First(cc, name) ==
  cc[CHOOSE i \in DOMAIN cc :
       cc[i].name = name /\ \A j \in 1 .. i - 1 : cc[j].name # name].argument

(* Mutant of seconds: an argument that is not a number is as good as none.   *)
seconds_lenient(cc, name) ==
  IF ~has(cc, name) THEN None
  ELSE IF First(cc, name) = Invalid THEN Max
  ELSE Least(First(cc, name), Max)

(* The first occurrence: an invalid value is 0, one too large saturates.    *)
seconds(cc, name) ==
  IF ~has(cc, name) THEN None
  ELSE IF First(cc, name) = Invalid THEN 0
  ELSE Least(First(cc, name), Max)

-----------------------------------------------------------------------------
(* RequestPolicy::new and its methods *)

no_store(q) == q.malformed \/ has(q.cc, "no-store")
cacheable_method(q) == q.method \in {"GET", "HEAD"} /\ ~q.override

may_serve(q) == cacheable_method(q) /\ ~no_store(q) /\ ~has(q.cc, "no-cache")
may_store(q) == cacheable_method(q) /\ q.method = "GET" /\ ~no_store(q)
max_age(q) == seconds(q.cc, "max-age")
may_serve_stale(q) == max_age(q) = None

-----------------------------------------------------------------------------
(* storable *)

CACHEABLE_BY_DEFAULT == {200, 203, 204, 300, 301, 308, 404, 405, 410, 414, 501}
UNSTORABLE_DIRECTIVES == {"no-store", "private", "no-cache"}

(* Mutant of storable_response: Set-Cookie is not looked at.                *)
storable_cookie(f) ==
  /\ f.status \in CACHEABLE_BY_DEFAULT
  /\ ~f.malformed /\ \A d \in UNSTORABLE_DIRECTIVES : ~has(f.cc, d)

(* storable_response_directives: the response itself may be stored.         *)
storable_response(f) ==
  /\ f.status \in CACHEABLE_BY_DEFAULT /\ ~f.set_cookie
  /\ ~f.malformed /\ \A d \in UNSTORABLE_DIRECTIVES : ~has(f.cc, d)

(* Dates are moments of the clock; without a valid Date it is now.          *)
freshness_lifetime(f) ==
  LET shared == seconds(f.cc, "s-maxage")
      any == seconds(f.cc, "max-age")
      date == IF f.date \in {None, Invalid} THEN now ELSE f.date
  IN  IF shared # None THEN shared
      ELSE IF any # None THEN any
      ELSE IF f.expires = None THEN None
      ELSE IF f.expires = Invalid THEN 0
      ELSE Most(f.expires, date) - date

(* An Age that is not a number, or not one that fits, reads as 0.           *)
initial_age(f) == IF f.age \in {None, Invalid} \/ f.age > Max THEN 0 ELSE f.age

storable(q, f) ==
  /\ may_store(q)
  /\ storable_response(f)
  /\ q.credentials => has(f.cc, "public")
  /\ ~f.vary_any
  /\ freshness_lifetime(f) # None
  /\ freshness_lifetime(f) > initial_age(f)

-----------------------------------------------------------------------------
(* StaleRules and StoredResponse *)

OrZero(n) == IF n = None THEN 0 ELSE n

while_revalidate(e) == OrZero(seconds(e.fields.cc, "stale-while-revalidate"))
if_error(e) == OrZero(seconds(e.fields.cc, "stale-if-error"))

(* Mutant of must_revalidate: s-maxage is not among them.                   *)
must_revalidate_named(e) ==
  has(e.fields.cc, "must-revalidate") \/ has(e.fields.cc, "proxy-revalidate")

must_revalidate(e) ==
  \E d \in {"must-revalidate", "proxy-revalidate", "s-maxage"} : has(e.fields.cc, d)

(* Mutant of grace: the stale windows are not counted.                      *)
grace_validator(e) == IF e.fields.validator THEN CacheTtl ELSE 0

grace(e) ==
  LET windows == IF must_revalidate(e) THEN 0 ELSE Most(while_revalidate(e), if_error(e))
      revalidation == IF e.fields.validator THEN CacheTtl ELSE 0
  IN  Least(Most(windows, revalidation), CacheTtl)

(* Store::response: what is kept of the origin's answer to q. Its Age goes  *)
(* into initial_age; real_age is what the origin sent, for the properties.  *)
Stored(q, f) ==
  [fields |-> [f EXCEPT !.age = None], by |-> q, stored_at |-> now,
   initial_age |-> initial_age(f),
   ttl |-> Least(freshness_lifetime(f) - initial_age(f), CacheTtl),
   real_age |-> IF f.age \in {None, Invalid} THEN 0 ELSE f.age,
   date |-> IF f.date \in {None, Invalid} THEN now ELSE f.date]

Elapsed(e) == now - e.stored_at
is_fresh(e) == Elapsed(e) < e.ttl
age(e) == e.initial_age + Elapsed(e)
stale_within(e, window) ==
  ~must_revalidate(e) /\ ~is_fresh(e) /\ Elapsed(e) - e.ttl < window

(* lookup's test.                                                           *)
FreshFor(q, e) == is_fresh(e) /\ (max_age(q) = None \/ age(e) <= max_age(q))

(* EntryExpiry: moka drops the response then, and may drop it before.       *)
Kept(e) == Elapsed(e) < e.ttl + grace(e)

-----------------------------------------------------------------------------
(* store_plan, for an answer f whose body came whole: what was stored gives *)
(* way to it, or is invalidated by an unsafe request's success.             *)
is_safe(method) == method \in {"GET", "HEAD", "OPTIONS", "TRACE"}

Invalidates(q, f) == ~is_safe(q.method) /\ f.status \in 200 .. 399
Answered(q, f) ==
  /\ entry' = IF storable(q, f) THEN Stored(q, f)
              ELSE IF Invalidates(q, f) THEN None ELSE entry
  /\ UNCHANGED now

(* updated_fields: each field of the 304 replaces the stored one. The Age   *)
(* is the 304's own.                                                        *)
Replaced(old, new) == IF new = None THEN old ELSE new
updated_fields(f, u) ==
  [f EXCEPT !.cc = Replaced(@, u.cc),
            !.malformed = IF u.cc = None THEN @ ELSE u.malformed,
            !.expires = Replaced(@, u.expires), !.date = Replaced(@, u.date),
            !.set_cookie = @ \/ u.set_cookie, !.vary_any = Replaced(@, u.vary_any),
            !.validator = @ \/ u.validator, !.age = u.age]

(* Store::freshen, after a 304 to a GET that had found the entry unusable   *)
(* as it was: its own revalidation, which a conditional request does not    *)
(* make, or one in the background since the entry went stale.               *)
Revalidated(q, u) ==
  /\ entry # None /\ Kept(entry)
  /\ q.method = "GET" /\ may_serve(q)
  /\ ~FreshFor(q, entry)
  /\ \/ ~q.conditional
     \/ /\ may_serve_stale(q) /\ ~is_fresh(entry)
        /\ ~must_revalidate(entry) /\ while_revalidate(entry) > 0
  /\ LET f == updated_fields(entry.fields, u)
     IN  entry' = IF storable(q, f) THEN Stored(q, f) ELSE None
  /\ UNCHANGED now

Tick ==
  /\ now < MaxTime /\ now' = now + 1
  /\ UNCHANGED entry

Evict ==
  /\ entry # None /\ entry' = None
  /\ UNCHANGED now

Init == now = 0 /\ entry = None

Next ==
  \/ \E q \in Requests : \/ \E f \in Responses : Answered(q, f)
                         \/ \E u \in Updates : Revalidated(q, u)
  \/ Tick \/ Evict

Spec == Init /\ [][Next]_vars

-----------------------------------------------------------------------------
(* How the entry answers q now: from_cache, while_revalidating, and         *)
(* may_serve_on_error. The last is asked of a response found earlier, which *)
(* the store may have dropped since.                                        *)
AnswersFresh(q) == may_serve(q) /\ entry # None /\ Kept(entry) /\ FreshFor(q, entry)

StaleUse(q, window) ==
  /\ q.method = "GET" /\ may_serve(q)
  /\ ~FreshFor(q, entry) /\ may_serve_stale(q) /\ stale_within(entry, window)

AnswersStale(q) == entry # None /\ Kept(entry) /\ StaleUse(q, while_revalidate(entry))
AnswersError(q) == entry # None /\ StaleUse(q, if_error(entry))

-----------------------------------------------------------------------------
(* The documentation's rules, on numbers of any size. *)

Number(cc, name) ==
  LET at == {i \in DOMAIN cc : cc[i].name = name}
      first == CHOOSE i \in at : \A j \in at : i <= j
  IN  IF at = {} THEN None
      ELSE IF cc[first].argument = Invalid THEN 0 ELSE cc[first].argument

RealAge == entry.real_age + Elapsed(entry)
RealLifetime ==
  LET f == entry.fields
      expires == IF f.expires \in Nat THEN Most(f.expires, entry.date) - entry.date ELSE 0
      named == {n \in {"s-maxage", "max-age"} : Number(f.cc, n) # None}
  IN  CASE "s-maxage" \in named -> Number(f.cc, "s-maxage")
        [] named = {"max-age"} -> Number(f.cc, "max-age")
        [] OTHER -> expires
Names(cc) == {cc[i].name : i \in DOMAIN cc}

(* What is stored has numbers that fit and some freshness left, whatever    *)
(* the origin sent.                                                         *)
TypeOK ==
  /\ now \in 0 .. MaxTime /\ entry \in Entry \cup {None}
  /\ entry # None =>
       /\ entry.ttl \in 1 .. CacheTtl /\ entry.initial_age \in 0 .. Max
       /\ entry.stored_at \in 0 .. now

(* "A response to GET is stored when all of these hold" (README.md): the    *)
(* stored fields meet the list after every update by a 304 too, which may   *)
(* bring a private, a Set-Cookie or a Vary: * that the response did not     *)
(* have, for a request with other credentials.                              *)
StoredByTheRules ==
  entry # None =>
    LET f == entry.fields q == entry.by
    IN  /\ q.method = "GET" /\ f.status \in CACHEABLE_BY_DEFAULT
        /\ Names(f.cc) \cap {"no-store", "private", "no-cache"} = {}
        /\ ~f.set_cookie /\ ~f.vary_any /\ ~f.malformed
        /\ q.credentials => "public" \in Names(f.cc)
        /\ f.expires # None \/ Names(f.cc) \cap {"s-maxage", "max-age"} # {}

(* A stored response answers a request as fresh only while its lifetime, as *)
(* the origin stated it last, exceeds its age, for no longer than the cache *)
(* TTL, and never when the request asks for a younger one, or for the       *)
(* origin's. Saturated and capped numbers only shorten its use.             *)
FreshIsFresh ==
  \A q \in Requests : AnswersFresh(q) =>
    /\ RealAge < RealLifetime /\ Elapsed(entry) < CacheTtl
    /\ Number(q.cc, "max-age") # None => RealAge <= Number(q.cc, "max-age")
    /\ Names(q.cc) \cap {"no-cache", "no-store"} = {} /\ ~q.override

(* "A response with must-revalidate, proxy-revalidate or s-maxage is never  *)
(* served stale, whatever its stale windows. [...] A request with           *)
(* Cache-Control: max-age never gets a stale response" (README.md), and one *)
(* that is served is stale for less than its window.                        *)
StaleIsAllowed ==
  \A q \in Requests, n \in {"stale-while-revalidate", "stale-if-error"} :
    (IF n = "stale-if-error" THEN AnswersError(q) ELSE AnswersStale(q)) =>
      /\ q.method = "GET" /\ "max-age" \notin Names(q.cc)
      /\ Names(entry.fields.cc) \cap {"must-revalidate", "proxy-revalidate", "s-maxage"} = {}
      /\ RealAge < RealLifetime + Number(entry.fields.cc, n)

(* The store does not drop a response before its use is over: one that is   *)
(* fresh, within a stale window or, with a validator, good for a            *)
(* revalidation is kept until the cache TTL has passed since it went stale. *)
UsefulIsKept ==
  LET useful == \/ is_fresh(entry) \/ entry.fields.validator
                \/ stale_within(entry, while_revalidate(entry))
                \/ stale_within(entry, if_error(entry))
  IN  entry # None =>
        (useful /\ Elapsed(entry) < entry.ttl + CacheTtl => Kept(entry))

(* "the response's current age" (StoredResponse::age) that a served         *)
(* response carries fits the Duration it is added up in.                    *)
AgeFits ==
  \A q \in Requests :
    AnswersFresh(q) \/ AnswersStale(q) \/ AnswersError(q) => age(entry) <= Max

-----------------------------------------------------------------------------
(* The origin sends no Age above u64::MAX seconds. Without it FreshIsFresh  *)
(* does not hold: such an Age reads as 0.                                   *)
AgesFit == \A m \in Responses \cup Updates : m.age \in Nat => m.age <= Max

(* The numbers that the store computed once, when the response came, are    *)
(* within what its fields say, read at any later moment.                    *)
WithinLifetime ==
  entry # None =>
    /\ entry.initial_age + entry.ttl <= RealLifetime
    /\ AgesFit => entry.real_age = entry.initial_age

IInv == TypeOK /\ StoredByTheRules /\ WithinLifetime
=============================================================================
