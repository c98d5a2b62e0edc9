---------------------------- MODULE PolicyProof -----------------------------
(***************************************************************************)
(* Proofs about Policy for any requests, answers, 304s and limits, and     *)
(* about Directives for values of any length.                              *)
(*                                                                         *)
(* The rules are checked when a response comes and its numbers are kept;   *)
(* FreshIsFresh and StaleIsAllowed are about what its fields say when it   *)
(* is used.  WithinLifetime is the bridge: what the store computed never   *)
(* exceeds what the fields say, through every update by a 304.  It needs   *)
(* that the saturating reading of a directive (seconds) never exceeds the  *)
(* number it stands for (Number), which is SecondsWithin.                  *)
(*                                                                         *)
(* The scan of a field value keeps two flags; the grammar speaks of whole  *)
(* quoted strings.  Quoting relates them: the flags are those of the       *)
(* string that runs at the place of the scan.  That the grammar has such   *)
(* strings at all, and that the places it chooses exist, comes first;      *)
(* where this needs induction it is over the least place that would refute *)
(* it.                                                                     *)
(***************************************************************************)
EXTENDS Policy, Directives, FiniteSetTheorems, WellFoundedInduction, TLAPS

(* Some number of a set is its least.                                      *)
LEMMA LeastExists ==
    ASSUME NEW S \in SUBSET Nat, S # {}
    PROVE  \E m \in S : \A k \in S : m <= k
<1>1. PICK m \in S : \A k \in S : ~(<<k, m>> \in OpToRel(<, Nat))
  BY NatLessThanWellFounded, WFMin
<1>2. \A k \in S : ~(k < m)
  BY <1>1 DEF OpToRel
<1> QED BY <1>2

-----------------------------------------------------------------------------
(* Directives *)

USE PolicyAssumption

(* A directive that is there has a first occurrence.                       *)
LEMMA FirstExists ==
    ASSUME NEW cc \in Control, NEW name, has(cc, name)
    PROVE  \E n \in DOMAIN cc : cc[n].name = name /\ \A j \in 1 .. n - 1 : cc[j].name # name
<1> DEFINE at == {n \in DOMAIN cc : cc[n].name = name}
<1>1. DOMAIN cc = 1 .. Len(cc) /\ Len(cc) \in Nat
  BY DEF Control
<1>2. at \in SUBSET Nat /\ at # {}
  BY <1>1 DEF has
<1>3. PICK n \in at : \A j \in at : n <= j
  <2> HIDE DEF at
  <2> QED BY <1>2, LeastExists
<1>4. ASSUME NEW j \in 1 .. n - 1 PROVE cc[j].name # name
  BY <1>1, <1>3, <1>4
<1> QED BY <1>4

(* seconds and the rules' Number read the same occurrence.                 *)
LEMMA SameOccurrence ==
    ASSUME NEW cc \in Control, NEW name, has(cc, name)
    PROVE  /\ First(cc, name) \in Nat \cup {Invalid}
           /\ Number(cc, name) = IF First(cc, name) = Invalid THEN 0 ELSE First(cc, name)
<1> DEFINE P(n) == cc[n].name = name /\ \A j \in 1 .. n - 1 : cc[j].name # name
           at == {n \in DOMAIN cc : cc[n].name = name}
           Q(n) == \A j \in at : n <= j
           one == CHOOSE n \in DOMAIN cc : P(n)
           other == CHOOSE n \in at : Q(n)
<1>1. DOMAIN cc = 1 .. Len(cc) /\ Len(cc) \in Nat
  BY DEF Control
<1>2. PICK n \in DOMAIN cc : P(n)
  BY FirstExists
<1>3. one \in DOMAIN cc /\ P(one)
  BY <1>2
<1>4. n \in at /\ Q(n)
  BY <1>1, <1>2
<1>5. other \in at /\ Q(other)
  BY <1>4
<1> HIDE DEF one, other
<1>6. one = other
  BY <1>1, <1>3, <1>5
<1>7. First(cc, name) = cc[one].argument
  BY DEF First, one
<1>8. cc[one].argument \in Nat \cup {Invalid}
  <2>1. cc[one] \in Directive
    BY <1>1, <1>3 DEF Control
  <2> QED BY <2>1 DEF Directive
<1>9. at # {}
  BY <1>4
<1>10. Number(cc, name) = IF cc[other].argument = Invalid THEN 0 ELSE cc[other].argument
  BY <1>9 DEF Number, other
<1> QED BY <1>6, <1>7, <1>8, <1>10

(* A saturated number is never more than the one it stands for.            *)
LEMMA SecondsWithin ==
    ASSUME NEW cc \in Control, NEW name
    PROVE  /\ ~has(cc, name) => seconds(cc, name) = None /\ Number(cc, name) = None
           /\ has(cc, name) => /\ seconds(cc, name) \in 0 .. Max
                               /\ Number(cc, name) \in Nat
                               /\ seconds(cc, name) <= Number(cc, name)
           /\ has(cc, name) <=> name \in Names(cc)
<1>1. has(cc, name) <=> name \in Names(cc)
  BY DEF has, Names
<1>2. CASE ~has(cc, name)
  BY <1>1, <1>2 DEF seconds, Number, has
<1>3. CASE has(cc, name)
  BY <1>1, <1>3, SameOccurrence DEF seconds, Least
<1> QED BY <1>2, <1>3

-----------------------------------------------------------------------------
(* What is stored *)

(* The lifetime that the directives, or Expires and Date, leave.           *)
LEMMA LifetimeTyped ==
    ASSUME now \in Nat, NEW f \in Response
    PROVE  /\ f.cc \in Control /\ f.expires \in Moment /\ f.age \in Moment
           /\ (IF f.date \in {None, Invalid} THEN now ELSE f.date) \in Nat
           /\ freshness_lifetime(f) \in Nat \cup {None}
           /\ initial_age(f) \in 0 .. Max
<1>1. f.cc \in Control /\ f.expires \in Moment /\ f.age \in Moment /\ f.date \in Moment
  BY DEF Response
<1> DEFINE date == IF f.date \in {None, Invalid} THEN now ELSE f.date
<1>2. date \in Nat
  BY <1>1 DEF Moment
<1>3. initial_age(f) \in 0 .. Max
  BY <1>1 DEF initial_age, Moment
<1>4. \A n : seconds(f.cc, n) \in Nat \cup {None}
  BY <1>1, SecondsWithin
<1> HIDE DEF date
<1>5. f.expires \in Nat => Most(f.expires, date) - date \in Nat
  BY <1>2 DEF Most
<1>6. freshness_lifetime(f) \in Nat \cup {None}
  BY <1>1, <1>4, <1>5 DEF freshness_lifetime, Moment, date
<1> QED BY <1>1, <1>2, <1>3, <1>6 DEF date

(* A storable response is stored with numbers that its fields allow.       *)
LEMMA StoredIInv ==
    ASSUME now \in 0 .. MaxTime, NEW q \in Request, NEW f \in Response, storable(q, f),
           AgesFit /\ f.age \in Nat => f.age <= Max,
           entry' = Stored(q, f), now' = now
    PROVE  IInv'
<1> DEFINE date == IF f.date \in {None, Invalid} THEN now ELSE f.date
           kept == [f EXCEPT !.age = None]
           real == IF f.age \in {None, Invalid} THEN 0 ELSE f.age
           life == freshness_lifetime(f)
           spent == initial_age(f)
           ttl == Least(life - spent, CacheTtl)
<1>1. /\ f.cc \in Control /\ f.expires \in Moment /\ f.age \in Moment
      /\ date \in Nat /\ spent \in 0 .. Max
  BY LifetimeTyped
<1>2. life \in Nat /\ life > spent
  BY LifetimeTyped DEF storable
<1>3. real \in Nat /\ (AgesFit => real = spent)
  BY <1>1 DEF Moment, initial_age
<1>4. /\ kept \in Response /\ kept.cc = f.cc /\ kept.expires = f.expires
      /\ kept.status = f.status /\ kept.set_cookie = f.set_cookie
      /\ kept.vary_any = f.vary_any /\ kept.malformed = f.malformed
  BY DEF Response, Moment
<1>5. entry' = [fields |-> kept, by |-> q, stored_at |-> now, initial_age |-> spent,
                ttl |-> ttl, real_age |-> real, date |-> date]
  BY DEF Stored
<1> HIDE DEF date, kept, real, life, spent, ttl
<1>6. ttl \in 1 .. CacheTtl /\ spent + ttl <= life
  BY <1>1, <1>2 DEF ttl, Least
<1>7. entry' \in Entry
  BY <1>1, <1>3, <1>4, <1>5, <1>6 DEF Entry
<1>8. TypeOK'
  BY <1>1, <1>5, <1>6, <1>7 DEF TypeOK
<1>9. RealLifetime' \in Nat /\ life <= RealLifetime'
  <2> DEFINE stated == IF f.expires \in Nat THEN Most(f.expires, date) - date ELSE 0
             named == {n \in {"s-maxage", "max-age"} : Number(f.cc, n) # None}
  <2>1. RealLifetime' =
          CASE "s-maxage" \in named -> Number(f.cc, "s-maxage")
            [] named = {"max-age"} -> Number(f.cc, "max-age")
            [] OTHER -> stated
    <3>1. entry'.fields.cc = f.cc /\ entry'.fields.expires = f.expires /\ entry'.date = date
      BY <1>4, <1>5
    <3> QED BY <3>1 DEF RealLifetime
  <2>2. CASE has(f.cc, "s-maxage")
    <3>1. "s-maxage" \in named /\ life = seconds(f.cc, "s-maxage")
      BY <1>1, <2>2, SecondsWithin DEF life, freshness_lifetime
    <3>2. RealLifetime' = Number(f.cc, "s-maxage")
      BY <2>1, <3>1
    <3> QED BY <1>1, <2>2, <3>1, <3>2, SecondsWithin
  <2>3. CASE ~has(f.cc, "s-maxage") /\ has(f.cc, "max-age")
    <3>1. named = {"max-age"} /\ life = seconds(f.cc, "max-age")
      BY <1>1, <2>3, SecondsWithin DEF life, freshness_lifetime
    <3>2. RealLifetime' = Number(f.cc, "max-age")
      BY <2>1, <3>1
    <3> QED BY <1>1, <2>3, <3>1, <3>2, SecondsWithin
  <2>4. CASE ~has(f.cc, "s-maxage") /\ ~has(f.cc, "max-age")
    <3>1. RealLifetime' = stated
      BY <1>1, <2>1, <2>4, SecondsWithin
    <3>2. life = IF f.expires = None THEN None
                 ELSE IF f.expires = Invalid THEN 0 ELSE Most(f.expires, date) - date
      BY <1>1, <2>4, SecondsWithin DEF life, freshness_lifetime, date
    <3> QED BY <1>1, <1>2, <3>1, <3>2 DEF Moment
  <2> QED BY <2>2, <2>3, <2>4
<1>10. WithinLifetime'
  <2>1. /\ entry'.initial_age = spent /\ entry'.ttl = ttl /\ entry'.real_age = real
    BY <1>5
  <2>2. spent + ttl <= RealLifetime'
    BY <1>1, <1>2, <1>6, <1>9
  <2> QED BY <1>3, <2>1, <2>2 DEF WithinLifetime, AgesFit
<1>11. StoredByTheRules'
  <2>1. \A n : has(f.cc, n) <=> n \in Names(f.cc)
    BY <1>1, SecondsWithin
  <2>2. f.expires # None \/ has(f.cc, "s-maxage") \/ has(f.cc, "max-age")
    BY <1>1, <1>2, SecondsWithin DEF life, freshness_lifetime
  <2>3. /\ entry'.fields.cc = f.cc /\ entry'.by = q /\ entry'.fields.expires = f.expires
        /\ entry'.fields.status = f.status /\ entry'.fields.set_cookie = f.set_cookie
        /\ entry'.fields.vary_any = f.vary_any /\ entry'.fields.malformed = f.malformed
    BY <1>4, <1>5
  <2> QED BY <2>1, <2>2, <2>3
          DEF StoredByTheRules, storable, may_store, storable_response,
              UNSTORABLE_DIRECTIVES, Names
<1> QED BY <1>8, <1>10, <1>11 DEF IInv

(* updated_fields makes a response of the stored one and a 304.            *)
LEMMA UpdateTyped ==
    ASSUME NEW f \in Response, NEW u \in Update
    PROVE  updated_fields(f, u) \in Response /\ updated_fields(f, u).age = u.age
<1> DEFINE cc == Replaced(f.cc, u.cc)
           malformed == IF u.cc = None THEN f.malformed ELSE u.malformed
           expires == Replaced(f.expires, u.expires)
           date == Replaced(f.date, u.date)
           set_cookie == f.set_cookie \/ u.set_cookie
           vary_any == Replaced(f.vary_any, u.vary_any)
           validator == f.validator \/ u.validator
<1>1. cc \in Control /\ expires \in Moment /\ date \in Moment /\ u.age \in Moment
  BY DEF Replaced, Response, Update, Moment
<1>2. /\ malformed \in BOOLEAN /\ set_cookie \in BOOLEAN /\ vary_any \in BOOLEAN
      /\ validator \in BOOLEAN
  BY DEF Replaced, Response, Update
<1>3. updated_fields(f, u) =
        [f EXCEPT !.cc = cc, !.malformed = malformed, !.expires = expires,
                  !.date = date, !.set_cookie = set_cookie,
                  !.vary_any = vary_any, !.validator = validator, !.age = u.age]
  BY DEF updated_fields
<1> HIDE DEF cc, malformed, expires, date, set_cookie, vary_any, validator
<1>4. updated_fields(f, u) =
        [status |-> f.status, cc |-> cc, malformed |-> malformed, expires |-> expires,
         date |-> date, age |-> u.age, set_cookie |-> set_cookie,
         vary_any |-> vary_any, validator |-> validator]
  BY <1>3 DEF Response
<1>5. f.status \in Nat
  BY DEF Response
<1> QED BY ONLY <1>1, <1>2, <1>4, <1>5 DEF Response

(* Every step keeps IInv.                                                  *)
LEMMA NextIInv ==
    ASSUME IInv, [Next]_vars
    PROVE  IInv'
<1>0. now \in 0 .. MaxTime /\ MaxTime \in Nat
  BY DEF IInv, TypeOK
<1>1. CASE UNCHANGED entry /\ now' \in now .. MaxTime
  BY <1>0, <1>1 DEF IInv, TypeOK, StoredByTheRules, WithinLifetime, RealLifetime, AgesFit
<1>2. CASE entry' = None /\ now' = now
  BY <1>0, <1>2 DEF IInv, TypeOK, StoredByTheRules, WithinLifetime
<1>3. ASSUME NEW q \in Requests, NEW f \in Responses, Answered(q, f)
      PROVE  IInv'
  <2>1. q \in Request /\ f \in Response /\ (AgesFit /\ f.age \in Nat => f.age <= Max)
    BY DEF AgesFit
  <2>2. CASE storable(q, f)
    BY <1>0, <1>3, <2>1, <2>2, StoredIInv DEF Answered
  <2>3. CASE ~storable(q, f)
    BY <1>0, <1>1, <1>2, <1>3, <2>3 DEF Answered
  <2> QED BY <2>2, <2>3
<1>4. ASSUME NEW q \in Requests, NEW u \in Updates, Revalidated(q, u)
      PROVE  IInv'
  <2> DEFINE f == updated_fields(entry.fields, u)
  <2>1. entry.fields \in Response
    BY <1>4 DEF Revalidated, IInv, TypeOK, Entry
  <2>2. f \in Response /\ f.age = u.age
    BY <2>1, UpdateTyped
  <2>3. AgesFit /\ f.age \in Nat => f.age <= Max
    BY <2>2 DEF AgesFit
  <2>4. (entry' = IF storable(q, f) THEN Stored(q, f) ELSE None) /\ now' = now
    BY <1>4 DEF Revalidated
  <2> HIDE DEF f
  <2>5. CASE storable(q, f)
    BY <1>0, <2>2, <2>3, <2>4, <2>5, StoredIInv
  <2>6. CASE ~storable(q, f)
    BY <1>2, <2>4, <2>6
  <2> QED BY <2>5, <2>6
<1>5. CASE Tick
  BY <1>0, <1>1, <1>5 DEF Tick
<1>6. CASE Evict
  BY <1>2, <1>6 DEF Evict
<1>7. CASE UNCHANGED vars
  BY <1>0, <1>1, <1>7 DEF vars
<1> QED BY <1>3, <1>4, <1>5, <1>6, <1>7 DEF Next

(* IInv holds in every reachable state (src/cache.rs, storable,            *)
(* Store::response and Store::freshen).                                    *)
THEOREM Inductive == Spec => []IInv
<1>1. Init => IInv
  BY DEF Init, IInv, TypeOK, StoredByTheRules, WithinLifetime
<1>2. IInv /\ [Next]_vars => IInv'
  BY NextIInv
<1> QED BY <1>1, <1>2, PTL DEF Spec

(* What is stored meets the rules for storing it, after any number of      *)
(* updates by 304s (cache.rs, storable and freshen).                       *)
THEOREM RulesMet == Spec => []StoredByTheRules
<1>1. IInv => StoredByTheRules
  BY DEF IInv
<1> QED BY <1>1, Inductive, PTL

-----------------------------------------------------------------------------
(* What is served *)

(* What IInv says of a stored response, in numbers.                        *)
LEMMA EntryNumbers ==
    ASSUME IInv, entry # None
    PROVE  /\ Elapsed(entry) \in Nat /\ entry.ttl \in 1 .. CacheTtl
           /\ entry.initial_age \in Nat /\ entry.real_age \in Nat
           /\ entry.fields \in Response /\ entry.fields.cc \in Control
           /\ entry.fields.validator \in BOOLEAN
  BY DEF IInv, TypeOK, Elapsed, Entry, Response

(* The lifetime that the documentation's rules give is a number.           *)
LEMMA RealLifetimeTyped ==
    ASSUME IInv, entry # None
    PROVE  RealLifetime \in Nat
<1> DEFINE f == entry.fields
           stated == IF f.expires \in Nat THEN Most(f.expires, entry.date) - entry.date ELSE 0
           named == {n \in {"s-maxage", "max-age"} : Number(f.cc, n) # None}
<1>1. f.cc \in Control /\ entry.date \in Nat
  BY DEF IInv, TypeOK, Entry, Response
<1>2. stated \in Nat
  BY <1>1 DEF Most
<1>3. \A n : Number(f.cc, n) # None => Number(f.cc, n) \in Nat
  BY <1>1, SecondsWithin
<1>4. RealLifetime = CASE "s-maxage" \in named -> Number(f.cc, "s-maxage")
                       [] named = {"max-age"} -> Number(f.cc, "max-age")
                       [] OTHER -> stated
  BY DEF RealLifetime
<1> HIDE DEF stated, f
<1>5. named = {"max-age"} => Number(f.cc, "max-age") # None
  OBVIOUS
<1> QED BY <1>2, <1>3, <1>4, <1>5

(* A stored response is served as fresh only within the lifetime and the   *)
(* age that origin and request state (cache.rs, lookup), if the origin's   *)
(* Ages fit 64 bits.                                                       *)
THEOREM FreshServedFresh ==
    ASSUME AgesFit
    PROVE  Spec => []FreshIsFresh
<1>1. IInv => FreshIsFresh
  <2> SUFFICES ASSUME IInv, NEW q \in Requests, AnswersFresh(q)
               PROVE  /\ RealAge < RealLifetime /\ Elapsed(entry) < CacheTtl
                      /\ Number(q.cc, "max-age") # None =>
                           RealAge <= Number(q.cc, "max-age")
                      /\ Names(q.cc) \cap {"no-cache", "no-store"} = {} /\ ~q.override
    BY DEF FreshIsFresh
  <2>1. entry # None /\ q \in Request /\ q.cc \in Control
    BY DEF AnswersFresh, Request
  <2>2. /\ RealLifetime \in Nat /\ entry.initial_age + entry.ttl <= RealLifetime
        /\ RealAge = entry.initial_age + Elapsed(entry)
    BY <2>1, RealLifetimeTyped DEF IInv, WithinLifetime, RealAge
  <2>3. Elapsed(entry) < entry.ttl
    BY DEF AnswersFresh, FreshFor, is_fresh
  <2>4. RealAge < RealLifetime /\ Elapsed(entry) < CacheTtl
    BY <2>1, <2>2, <2>3, EntryNumbers
  <2>5. ASSUME Number(q.cc, "max-age") # None
        PROVE  RealAge <= Number(q.cc, "max-age")
    <3>1. /\ max_age(q) \in Nat /\ Number(q.cc, "max-age") \in Nat
          /\ max_age(q) <= Number(q.cc, "max-age")
      BY <2>1, <2>5, SecondsWithin DEF max_age
    <3>2. entry.initial_age + Elapsed(entry) <= max_age(q)
      BY <3>1 DEF AnswersFresh, FreshFor, age
    <3> QED BY <2>1, <2>2, <3>1, <3>2, EntryNumbers
  <2>6. Names(q.cc) \cap {"no-cache", "no-store"} = {} /\ ~q.override
    BY DEF AnswersFresh, may_serve, cacheable_method, no_store, has, Names
  <2> QED BY <2>4, <2>5, <2>6
<1> QED BY <1>1, Inductive, PTL

(* A response is served stale only to a request that allows it, never past *)
(* a must-revalidate, and within its window (cache.rs, stale_within).      *)
THEOREM StaleServedAllowed ==
    ASSUME AgesFit
    PROVE  Spec => []StaleIsAllowed
<1>1. IInv => StaleIsAllowed
  <2> SUFFICES ASSUME IInv, NEW q \in Requests, entry # None,
                      NEW n \in {"stale-while-revalidate", "stale-if-error"},
                      StaleUse(q, OrZero(seconds(entry.fields.cc, n)))
               PROVE  /\ q.method = "GET" /\ "max-age" \notin Names(q.cc)
                      /\ Names(entry.fields.cc)
                           \cap {"must-revalidate", "proxy-revalidate", "s-maxage"} = {}
                      /\ RealAge < RealLifetime + Number(entry.fields.cc, n)
    BY DEF StaleIsAllowed, AnswersError, AnswersStale, while_revalidate, if_error
  <2> DEFINE cc == entry.fields.cc
             window == OrZero(seconds(cc, n))
  <2>1. q.cc \in Control /\ cc \in Control
    BY EntryNumbers DEF Request
  <2>2. q.method = "GET" /\ "max-age" \notin Names(q.cc)
    BY <2>1, SecondsWithin DEF StaleUse, may_serve_stale, max_age
  <2>3. /\ ~must_revalidate(entry) /\ ~(Elapsed(entry) < entry.ttl)
        /\ Elapsed(entry) - entry.ttl < window
    BY DEF StaleUse, stale_within, is_fresh
  <2>4. Names(cc) \cap {"must-revalidate", "proxy-revalidate", "s-maxage"} = {}
    BY <2>3 DEF must_revalidate, has, Names
  <2>5. window \in Nat /\ Number(cc, n) \in Nat /\ window <= Number(cc, n)
    <3>1. CASE has(cc, n)
      BY <2>1, <3>1, SecondsWithin DEF OrZero
    <3>2. CASE ~has(cc, n)
      \* without the directive the window is empty
      <4>1. window = 0
        BY <2>1, <3>2, SecondsWithin DEF OrZero
      <4> QED BY <2>3, <4>1, EntryNumbers
    <3> QED BY <3>1, <3>2
  <2>6. /\ RealLifetime \in Nat /\ entry.initial_age + entry.ttl <= RealLifetime
        /\ RealAge = entry.initial_age + Elapsed(entry)
    BY RealLifetimeTyped DEF IInv, WithinLifetime, RealAge
  <2> HIDE DEF window, cc
  <2>7. RealAge < RealLifetime + Number(cc, n)
    BY <2>3, <2>5, <2>6, EntryNumbers
  <2> QED BY <2>2, <2>4, <2>7 DEF cc
<1> QED BY <1>1, Inductive, PTL

(* Nothing is dropped before its use is over (cache.rs, StaleRules::grace  *)
(* and entry_ttl).                                                         *)
THEOREM UsefulKept == Spec => []UsefulIsKept
<1>1. IInv => UsefulIsKept
  <2> SUFFICES ASSUME IInv, entry # None, Elapsed(entry) < entry.ttl + CacheTtl,
                      \/ is_fresh(entry) \/ entry.fields.validator
                      \/ stale_within(entry, while_revalidate(entry))
                      \/ stale_within(entry, if_error(entry))
               PROVE  Kept(entry)
    BY DEF UsefulIsKept
  <2>1. while_revalidate(entry) \in Nat /\ if_error(entry) \in Nat
    BY EntryNumbers, SecondsWithin DEF while_revalidate, if_error, OrZero
  <2>2. grace(entry) \in Nat
    BY <2>1 DEF grace, Least, Most
  <2>3. CASE is_fresh(entry)
    BY <2>2, <2>3, EntryNumbers DEF Kept, is_fresh
  <2>4. CASE entry.fields.validator
    <3>1. grace(entry) = CacheTtl
      BY <2>1, <2>4 DEF grace, Least, Most
    <3> QED BY <3>1 DEF Kept
  <2>5. ASSUME NEW w \in {while_revalidate(entry), if_error(entry)}, stale_within(entry, w)
        PROVE  Kept(entry)
    <3>1. ~must_revalidate(entry) /\ Elapsed(entry) - entry.ttl < w
      BY <2>5 DEF stale_within
    <3>2. grace(entry) >= w \/ grace(entry) = CacheTtl
      BY <2>1, <3>1 DEF grace, Least, Most
    <3> QED BY <2>1, <2>2, <3>1, <3>2, EntryNumbers DEF Kept
  <2> QED BY <2>3, <2>4, <2>5
<1> QED BY <1>1, Inductive, PTL

-----------------------------------------------------------------------------
(* What the grammar of a field value chooses *)

HIDE PolicyAssumption

USE MaxLenAssumption

(* A value is a sequence of characters.                                    *)
LEMMA ValueIsText ==
    ASSUME NEW v \in Values
    PROVE  v \in Seq(Char) /\ Len(v) \in Nat /\ DOMAIN v = 1 .. Len(v)
<1>1. PICK n \in 0 .. MaxLen : v \in [1 .. n -> Char]
  BY DEF Values
<1>2. v \in Seq(Char)
  BY <1>1
<1> QED BY <1>2

(* The number of backslashes before a place, from one place to the next.   *)
LEMMA EvenNext ==
    ASSUME NEW v \in Seq(Char), NEW o \in Nat, NEW c \in Nat, o < c
    PROVE  /\ Even(v, o, o + 1)
           /\ v[c] = "backslash" => (Even(v, o, c + 1) <=> ~Even(v, o, c))
           /\ v[c] # "backslash" => Even(v, o, c + 1)
<1>1. Backslashes(v, o, o + 1) = {}
  BY DEF Backslashes
<1>2. ASSUME v[c] # "backslash" PROVE Backslashes(v, o, c + 1) = {}
  <2>1. \A k \in o + 1 .. (c + 1) - 1 : c \in k .. (c + 1) - 1
    OBVIOUS
  <2> QED BY <1>2, <2>1 DEF Backslashes
<1>3. ASSUME v[c] = "backslash"
      PROVE  Backslashes(v, o, c + 1) = Backslashes(v, o, c) \cup {c}
  <2>1. \A k \in o + 1 .. (c + 1) - 1 : k \in o + 1 .. c - 1 \/ k = c
    OBVIOUS
  <2>2. \A k \in o + 1 .. c - 1 : k \in o + 1 .. (c + 1) - 1
    OBVIOUS
  <2>3. c \in o + 1 .. (c + 1) - 1 /\ c .. (c + 1) - 1 = {c}
    OBVIOUS
  <2>4. \A k \in o + 1 .. c - 1 : k .. (c + 1) - 1 = (k .. c - 1) \cup {c}
    OBVIOUS
  <2> QED BY <1>3, <2>1, <2>2, <2>3, <2>4 DEF Backslashes
<1>4. IsFiniteSet(Backslashes(v, o, c)) /\ Cardinality(Backslashes(v, o, c)) \in Nat
  <2>1. IsFiniteSet(o + 1 .. c - 1)
    BY FS_Interval
  <2> QED BY <2>1, FS_Subset, FS_CardinalityType DEF Backslashes
<1>5. c \notin Backslashes(v, o, c)
  BY DEF Backslashes
<1>6. Cardinality({}) = 0
  BY FS_EmptySet
<1>7. v[c] = "backslash" =>
        Cardinality(Backslashes(v, o, c + 1)) = Cardinality(Backslashes(v, o, c)) + 1
  BY <1>3, <1>4, <1>5, FS_AddElement
<1>8. v[c] = "backslash" => (Even(v, o, c + 1) <=> ~Even(v, o, c))
  <2>1. \A n \in Nat : (n + 1) % 2 = 0 <=> ~(n % 2 = 0)
    OBVIOUS
  <2> QED BY <1>4, <1>7, <2>1 DEF Even
<1>9. Even(v, o, o + 1) /\ (v[c] # "backslash" => Even(v, o, c + 1))
  <2>1. 0 % 2 = 0
    OBVIOUS
  <2>2. \A S : S = {} => Cardinality(S) % 2 = 0
    BY <1>6, <2>1
  <2> QED BY <1>1, <1>2, <2>2 DEF Even
<1> QED BY <1>8, <1>9

(* A quoted string ends at the first quote that closes it, or never.       *)
LEMMA CloseIs ==
    ASSUME NEW v \in Seq(Char), NEW o \in Place(v)
    PROVE  /\ Close(v, o) \in o + 1 .. Len(v) + 1
           /\ Close(v, o) <= Len(v) => Close(v, o) \in Closings(v, o)
           /\ \A c \in Closings(v, o) : Close(v, o) <= c
<1>1. CASE Closings(v, o) = {}
  BY <1>1 DEF Close, Place
<1>2. CASE Closings(v, o) # {}
  <2>1. Closings(v, o) \subseteq Nat /\ Closings(v, o) \subseteq o + 1 .. Len(v)
    BY DEF Closings, Place
  <2>2. \E m \in Closings(v, o) : \A k \in Closings(v, o) : m <= k
    BY <1>2, <2>1, LeastExists
  <2>3. Close(v, o) = CHOOSE c \in Closings(v, o) : \A k \in Closings(v, o) : c <= k
    BY <1>2 DEF Close
  <2>4. Close(v, o) \in Closings(v, o) /\ \A k \in Closings(v, o) : Close(v, o) <= k
    BY ONLY <2>2, <2>3
  <2> QED BY <2>1, <2>4 DEF Place
<1> QED BY <1>1, <1>2

(* A value has a set of quotes that begin its quoted strings: those of its *)
(* first places extend, one place at a time.                               *)
LEMMA OpeningsIs ==
    ASSUME NEW v \in Seq(Char)
    PROVE  /\ Openings(v) \subseteq Quotes(v)
           /\ \A o \in Quotes(v) :
                o \in Openings(v) <=> \A p \in Openings(v) : p < o => Close(v, p) < o
<1> DEFINE Begun(S, o) == \A p \in S : p < o => Close(v, p) < o
           Good(n) == \E S \in SUBSET Quotes(v) :
                        \A o \in Quotes(v) : o <= n => (o \in S <=> Begun(S, o))
           bad == {n \in 0 .. Len(v) : ~Good(n)}
<1>0. Len(v) \in Nat /\ Quotes(v) \subseteq 1 .. Len(v)
  BY DEF Quotes, Place
<1>1. bad = {}
  <2> SUFFICES ASSUME bad # {} PROVE FALSE
    OBVIOUS
  <2>1. PICK n \in bad : \A k \in bad : n <= k
    <3>1. bad \subseteq 0 .. Len(v)
      OBVIOUS
    <3> HIDE DEF bad
    <3>2. bad \in SUBSET Nat
      BY <1>0, <3>1
    <3> QED BY <3>2, LeastExists
  <2>2. n # 0
    <3>1. \A o \in Quotes(v) : ~(o <= 0)
      BY <1>0
    <3>2. Good(0)
      BY <3>1
    <3> QED BY <2>1, <3>2
  <2>3. n \in 1 .. Len(v) /\ n - 1 \in 0 .. Len(v)
    BY <1>0, <2>1, <2>2
  <2>4. Good(n - 1)
    <3>1. n - 1 \notin bad
      <4> HIDE DEF bad
      <4> QED BY <2>1, <2>3
    <3> QED BY <2>3, <3>1
  <2>5. PICK S \in SUBSET Quotes(v) :
           \A o \in Quotes(v) : o <= n - 1 => (o \in S <=> Begun(S, o))
    BY <2>4
  <2> DEFINE T == {o \in Quotes(v) : (o < n /\ o \in S) \/ (o = n /\ Begun(S, n))}
  <2>6. \A o \in Quotes(v) : o < n => (o \in T <=> o \in S)
    BY <1>0, <2>3
  <2>7. \A o \in Quotes(v) : o <= n => (Begun(T, o) <=> Begun(S, o))
    <3> SUFFICES ASSUME NEW o \in Quotes(v), o <= n PROVE Begun(T, o) <=> Begun(S, o)
      OBVIOUS
    <3>1. \A p \in Quotes(v) : p < o => (p \in T <=> p \in S)
      BY <1>0, <2>3, <2>6
    <3>2. T \subseteq Quotes(v) /\ S \subseteq Quotes(v)
      OBVIOUS
    <3> HIDE DEF T
    <3> QED BY <3>1, <3>2
  <2>8. \A o \in Quotes(v) : o <= n => (o \in T <=> Begun(T, o))
    <3> SUFFICES ASSUME NEW o \in Quotes(v), o <= n PROVE o \in T <=> Begun(T, o)
      OBVIOUS
    <3>1. Begun(T, o) <=> Begun(S, o)
      BY <2>7
    <3>2. CASE o = n
      <4>1. o \in T <=> Begun(S, n)
        BY <1>0, <2>3, <3>2
      <4> HIDE DEF T, Begun
      <4> QED BY <3>1, <3>2, <4>1
    <3>3. CASE o < n
      <4>1. o \in T <=> o \in S
        BY <2>6, <3>3
      <4>2. o <= n - 1
        BY <1>0, <2>3, <3>3
      <4>3. o \in S <=> Begun(S, o)
        BY <2>5, <4>2
      <4> HIDE DEF T, Begun
      <4> QED BY <3>1, <4>1, <4>3
    <3>4. o = n \/ o < n
      BY <1>0, <2>3
    <3> QED BY <3>2, <3>3, <3>4
  <2>9. Good(n)
    <3>1. T \in SUBSET Quotes(v)
      OBVIOUS
    <3> HIDE DEF T, Begun
    <3> QED BY <2>8, <3>1
  <2> QED BY <2>1, <2>9
<1>2. Good(Len(v))
  BY <1>0, <1>1
<1>3. PICK S \in SUBSET Quotes(v) : \A o \in Quotes(v) : o <= Len(v) => (o \in S <=> Begun(S, o))
  BY <1>2
<1>4. S = {o \in Quotes(v) : Begun(S, o)}
  BY <1>0, <1>3
<1>5. \E R \in SUBSET Quotes(v) : R = {o \in Quotes(v) : Begun(R, o)}
  BY <1>4
<1>6. Openings(v) \in SUBSET Quotes(v) /\ Openings(v) = {o \in Quotes(v) : Begun(Openings(v), o)}
  BY <1>5 DEF Openings
<1>7. \A o \in Quotes(v) : o \in Openings(v) <=> Begun(Openings(v), o)
  BY <1>6
<1> QED BY <1>6, <1>7

(* Two quoted strings do not overlap.                                      *)
LEMMA OpeningsApart ==
    ASSUME NEW v \in Seq(Char), NEW p \in Openings(v), NEW o \in Openings(v)
    PROVE  /\ o \in Place(v) /\ o \in Nat /\ v[o] = "quote"
           /\ p < o => Close(v, p) < o
<1>1. o \in Quotes(v)
  BY OpeningsIs
<1>2. p < o => Close(v, p) < o
  BY <1>1, OpeningsIs
<1> QED BY <1>1, <1>2 DEF Quotes, Place

(* A directive ends before the next separator or with the value.           *)
LEMMA EndIs ==
    ASSUME NEW v \in Seq(Char), NEW b \in Nat, NEW e \in b - 1 .. Len(v),
           e + 1 \in Separators(v) \cup {Len(v) + 1},
           \A j \in b .. e : j \notin Separators(v)
    PROVE  End(v, b) = e
<1> DEFINE Ends(x) == /\ x + 1 \in Separators(v) \cup {Len(v) + 1}
                      /\ \A j \in b .. x : j \notin Separators(v)
<1>1. \A x, y \in b - 1 .. Len(v) : Ends(x) /\ Ends(y) => ~(x < y)
  <2> SUFFICES ASSUME NEW x \in b - 1 .. Len(v), NEW y \in b - 1 .. Len(v),
                      Ends(x), Ends(y), x < y
               PROVE  FALSE
    OBVIOUS
  <2>1. x + 1 \in b .. y /\ x + 1 # Len(v) + 1
    OBVIOUS
  <2> QED BY <2>1
<1>2. \A x \in b - 1 .. Len(v) : Ends(x) => x = e
  <2>1. Ends(e)
    OBVIOUS
  <2>2. \A x, y \in b - 1 .. Len(v) : ~(x < y) /\ ~(y < x) => x = y
    OBVIOUS
  <2> HIDE DEF Ends
  <2> QED BY <1>1, <2>1, <2>2
<1>3. End(v, b) = CHOOSE x \in b - 1 .. Len(v) : Ends(x)
  BY DEF End
<1>4. \E x \in b - 1 .. Len(v) : Ends(x)
  OBVIOUS
<1> HIDE DEF Ends
<1> QED BY <1>2, <1>3, <1>4

(* A directive begins after a separator or with the value, and has an end. *)
LEMMA EndExists ==
    ASSUME NEW v \in Seq(Char), NEW b \in Begins(v)
    PROVE  /\ b \in 1 .. Len(v) + 1 /\ End(v, b) \in b - 1 .. Len(v)
           /\ End(v, b) + 1 \in Separators(v) \cup {Len(v) + 1}
           /\ \A j \in b .. End(v, b) : j \notin Separators(v)
<1> DEFINE after == {j \in Separators(v) \cup {Len(v) + 1} : b <= j}
<1>1. b \in 1 .. Len(v) + 1 /\ Separators(v) \subseteq 1 .. Len(v)
  <2>1. Len(v) \in Nat
    OBVIOUS
  <2>2. \A j \in Separators(v) : j \in 1 .. Len(v)
    BY Zenon DEF Separators, Place
  <2>3. b = 1 \/ \E j \in Separators(v) : b = j + 1
    BY Zenon DEF Begins
  <2> QED BY <2>1, <2>2, <2>3
<1>2. after \in SUBSET Nat /\ Len(v) + 1 \in after
  BY <1>1
<1>3. PICK m \in after : \A k \in after : m <= k
  <2> HIDE DEF after
  <2> QED BY <1>2, LeastExists
<1>4. m - 1 \in b - 1 .. Len(v) /\ (m - 1) + 1 = m
  BY <1>1, <1>3
<1>5. \A j \in b .. m - 1 : j \notin Separators(v)
  BY <1>1, <1>3
<1>6. End(v, b) = m - 1
  BY <1>1, <1>3, <1>4, <1>5, EndIs
<1> QED BY <1>1, <1>3, <1>4, <1>5, <1>6

(* What split_once makes of a part.                                        *)
LEMMA DirectiveIs ==
    ASSUME NEW v \in Seq(Char), NEW from \in Nat \ {0}, NEW to \in from - 1 .. Len(v)
    PROVE  \/ /\ \A j \in from .. to : v[j] # "="
              /\ DirectiveOf(v, from, to) = [name |-> Text(v, from, to), argument |-> NoArgument]
           \/ \E first \in from .. to :
                /\ v[first] = "=" /\ \A j \in from .. first - 1 : v[j] # "="
                /\ DirectiveOf(v, from, to) = [name |-> Text(v, from, first - 1),
                                            argument |-> Unquoted(Text(v, first + 1, to))]
<1> DEFINE equals == {j \in from .. to : v[j] = "="}
           first == CHOOSE j \in equals : \A k \in equals : j <= k
<1>1. CASE equals = {}
  <2>1. \A j \in from .. to : v[j] # "="
    BY <1>1
  <2>2. DirectiveOf(v, from, to) = [name |-> Text(v, from, to), argument |-> NoArgument]
    BY <1>1 DEF DirectiveOf
  <2> QED BY <2>1, <2>2
<1>2. CASE equals # {}
  <2>1. \E j \in equals : \A k \in equals : j <= k
    <3>1. equals \in SUBSET Nat
      OBVIOUS
    <3> HIDE DEF equals
    <3> QED BY <1>2, <3>1, LeastExists
  <2>2. first \in equals /\ \A k \in equals : first <= k
    <3> HIDE DEF equals
    <3> QED BY <2>1
  <2>3. DirectiveOf(v, from, to) = [name |-> Text(v, from, first - 1),
                                  argument |-> Unquoted(Text(v, first + 1, to))]
    BY <1>2 DEF DirectiveOf
  <2> HIDE DEF first
  <2>4. first \in from .. to /\ v[first] = "=" /\ \A j \in from .. first - 1 : v[j] # "="
    BY <2>2
  <2> QED BY <2>3, <2>4
<1> QED BY <1>1, <1>2

-----------------------------------------------------------------------------
(* split_outside_quotes *)

(* A character, or the end, of the quoted string that runs at the scan.    *)
LEMMA QuotingStep ==
    ASSUME ParseTypeOK, Quoting, Step
    PROVE  Quoting'
<1> DEFINE v == value
           c == value[i]
<1>1. /\ v \in Seq(Char) /\ Len(v) \in Nat /\ i \in Nat /\ i \in Place(v)
      /\ value' = v /\ i' = i + 1
      /\ quoted \in BOOLEAN /\ escaped \in BOOLEAN
  BY ValueIsText DEF ParseTypeOK, Step, Place
<1>2. /\ escaped => escaped' = FALSE /\ quoted' = quoted
      /\ ~escaped => /\ escaped' = (c = "backslash" /\ quoted)
                     /\ quoted' = (IF c = "quote" THEN ~quoted ELSE quoted)
  BY DEF Step, Unescaped
<1>3. CASE quoted
  <2>1. PICK o \in Openings(v) : o < i /\ i <= Close(v, o) /\ escaped = ~Even(v, o, i)
    BY <1>3 DEF Quoting
  <2>2. o \in Place(v) /\ o \in Nat
    BY <1>1, OpeningsApart
  <2>3. /\ c = "backslash" => (Even(v, o, i + 1) <=> ~Even(v, o, i))
        /\ c # "backslash" => Even(v, o, i + 1)
    BY <1>1, <2>1, <2>2, EvenNext
  <2>4. /\ Close(v, o) \in Nat
        /\ Close(v, o) = i => c = "quote" /\ Even(v, o, i)
        /\ c = "quote" /\ Even(v, o, i) => Close(v, o) = i
    <3>1. Close(v, o) \in Nat /\ Close(v, o) <= Len(v) => Close(v, o) \in Closings(v, o)
      BY <1>1, <2>2, CloseIs
    <3>2. Close(v, o) \in Nat
      BY <1>1, <2>2, CloseIs DEF Place
    <3>3. c = "quote" /\ Even(v, o, i) => i \in Closings(v, o)
      BY <1>1, <2>1 DEF Closings
    <3>4. i \in Closings(v, o) => Close(v, o) <= i
      BY <1>1, <2>2, CloseIs
    <3> QED BY <1>1, <2>1, <3>1, <3>2, <3>3, <3>4 DEF Closings, Place
  <2>5. CASE c = "quote" /\ ~escaped
    <3>1. quoted' = FALSE /\ escaped' = FALSE /\ Close(v, o) = i
      BY <1>2, <1>3, <2>1, <2>4, <2>5
    <3>2. ASSUME NEW p \in Openings(v), p < i + 1 PROVE Close(v, p) < i + 1
      <4>1. p \in Nat /\ p \in Place(v) /\ (p < o => Close(v, p) < o) /\ (o < p => Close(v, o) < p)
        BY <1>1, OpeningsApart
      <4>2. Close(v, p) \in Nat
        BY <1>1, <4>1, CloseIs DEF Place
      <4>3. p < o \/ p = o \/ o < p
        BY <2>2, <4>1
      <4> QED BY <1>1, <2>1, <2>2, <3>1, <3>2, <4>1, <4>2, <4>3
    <3> QED BY <1>1, <3>1, <3>2 DEF Quoting
  <2>6. CASE ~(c = "quote" /\ ~escaped)
    <3>1. quoted' = TRUE /\ Close(v, o) # i /\ escaped' = ~Even(v, o, i + 1)
      <4>1. CASE escaped
        BY <1>2, <1>3, <2>1, <2>3, <2>4, <4>1
      <4>2. CASE ~escaped
        <5>1. c # "quote" /\ Even(v, o, i) /\ escaped' = (c = "backslash") /\ quoted' = TRUE
          BY <1>2, <1>3, <2>1, <2>6, <4>2
        <5> QED BY <2>3, <2>4, <5>1
      <4> QED BY <4>1, <4>2
    <3>2. o < i + 1 /\ i + 1 <= Close(v, o)
      BY <1>1, <2>1, <2>2, <2>4, <3>1
    <3> QED BY <1>1, <3>1, <3>2 DEF Quoting
  <2> QED BY <2>5, <2>6
<1>4. CASE ~quoted
  <2>1. ~escaped /\ \A o \in Openings(v) : o < i => Close(v, o) < i
    BY <1>4 DEF Quoting
  <2>2. CASE c = "quote"
    <3>1. i \in Openings(v)
      BY <1>1, <2>1, <2>2, OpeningsIs DEF Quotes
    <3>2. i < i + 1 /\ i + 1 <= Close(v, i) /\ Even(v, i, i + 1)
      BY <1>1, CloseIs, EvenNext DEF Place
    <3>3. quoted' = TRUE /\ escaped' = FALSE
      BY <1>2, <1>4, <2>1, <2>2
    <3> QED BY <1>1, <3>1, <3>2, <3>3 DEF Quoting
  <2>3. CASE c # "quote"
    <3>1. quoted' = FALSE /\ escaped' = FALSE
      <4>1. escaped' = (c = "backslash" /\ quoted) /\ quoted' = quoted
        BY <1>2, <2>1, <2>3
      <4> QED BY <1>1, <1>4, <4>1
    <3>2. ASSUME NEW o \in Openings(v), o < i + 1 PROVE Close(v, o) < i + 1
      <4>1. o \in Nat /\ o \in Place(v) /\ v[o] = "quote"
        BY <1>1, OpeningsApart
      <4>2. o < i
        BY <1>1, <2>3, <3>2, <4>1
      <4>3. Close(v, o) \in Nat
        BY <1>1, <4>1, CloseIs DEF Place
      <4> QED BY <1>1, <2>1, <4>2, <4>3
    <3> QED BY <1>1, <3>1, <3>2 DEF Quoting
  <2> QED BY <2>2, <2>3
<1> QED BY <1>1, <1>3, <1>4

(* Away from the quotes themselves, the flag says whether a quoted string  *)
(* runs.                                                                   *)
LEMMA QuotedIs ==
    ASSUME ParseTypeOK, Quoting, i <= Len(value), value[i] # "quote"
    PROVE  (quoted => Inside(value, i)) /\ (~quoted => ~escaped /\ ~Inside(value, i))
<1>1. /\ value \in Seq(Char) /\ Len(value) \in Nat /\ i \in Nat /\ i \in Place(value)
  BY ValueIsText DEF ParseTypeOK, Place
<1>2. ASSUME NEW o \in Openings(value)
      PROVE  o \in Nat /\ Close(value, o) \in Nat /\ Close(value, o) # i
  <2>1. o \in Nat /\ o \in Place(value)
    BY <1>1, OpeningsApart
  <2>2. /\ Close(value, o) \in o + 1 .. Len(value) + 1
        /\ Close(value, o) <= Len(value) => Close(value, o) \in Closings(value, o)
    BY <1>1, <2>1, CloseIs
  <2> QED BY <1>1, <2>1, <2>2 DEF Closings
<1>3. CASE quoted
  <2>1. PICK o \in Openings(value) : o < i /\ i <= Close(value, o)
    BY <1>3 DEF Quoting
  <2>2. i < Close(value, o)
    BY <1>1, <1>2, <2>1
  <2> QED BY <1>3, <2>1, <2>2 DEF Inside
<1>4. CASE ~quoted
  <2>1. ~escaped /\ \A o \in Openings(value) : o < i => Close(value, o) < i
    BY <1>4 DEF Quoting
  <2>2. ~Inside(value, i)
    BY <1>1, <1>2, <2>1 DEF Inside
  <2> QED BY <1>4, <2>1, <2>2
<1> QED BY <1>3, <1>4

(* The comma that ends a part is a separator of the grammar.               *)
LEMMA PartIs ==
    ASSUME ParseTypeOK, Quoting, i <= Len(value)
    PROVE  Part(value[i]) <=> i \in Separators(value)
<1>1. i \in Place(value)
  BY ValueIsText DEF ParseTypeOK, Place
<1>2. CASE value[i] = ","
  <2>1. (quoted => Inside(value, i)) /\ (~quoted => ~escaped /\ ~Inside(value, i))
    BY <1>2, QuotedIs
  <2> QED BY <1>1, <1>2, <2>1 DEF Part, Separators
<1>3. CASE value[i] # ","
  BY <1>3 DEF Part, Separators
<1> QED BY <1>2, <1>3

(* One part more.                                                          *)
LEMMA PartAdded ==
    ASSUME NEW s \in Seq(Nat \X Nat), NEW a \in Nat, NEW b \in Nat
    PROVE  LET t == Append(s, <<a, b>>)
           IN  /\ t \in Seq(Nat \X Nat)
               /\ DOMAIN t = DOMAIN s \cup {Len(s) + 1} /\ Len(s) + 1 \notin DOMAIN s
               /\ t[Len(s) + 1] = <<a, b>> /\ \A k \in DOMAIN s : t[k] = s[k]
  OBVIOUS

(* What Splitting says of the parts alone.                                 *)
LEMMA PartsKept ==
    ASSUME NEW v \in Seq(Char), NEW s \in Seq(Nat \X Nat), NEW a \in Nat, NEW b \in Nat,
           b = End(v, a), a \notin {s[k][1] : k \in DOMAIN s},
           \A k \in DOMAIN s : s[k][2] = End(v, s[k][1]),
           \A k, l \in DOMAIN s : s[k][1] = s[l][1] => k = l
    PROVE  LET t == Append(s, <<a, b>>)
           IN  /\ \A k \in DOMAIN t : t[k][2] = End(v, t[k][1])
               /\ \A k, l \in DOMAIN t : t[k][1] = t[l][1] => k = l
<1> DEFINE t == Append(s, <<a, b>>)
<1>1. /\ DOMAIN t = DOMAIN s \cup {Len(s) + 1}
      /\ t[Len(s) + 1] = <<a, b>> /\ \A k \in DOMAIN s : t[k] = s[k]
  BY PartAdded
<1> HIDE DEF t
<1>2. \A k \in DOMAIN t : t[k][2] = End(v, t[k][1])
  BY <1>1
<1>3. \A k, l \in DOMAIN t : t[k][1] = t[l][1] => k = l
  BY <1>1
<1> QED BY <1>2, <1>3 DEF t

(* One character more.                                                     *)
LEMMA StepSplitting ==
    ASSUME ParseInv, Step
    PROVE  Splitting' /\ ~Done'
<1> DEFINE v == value
           sep == Separators(value)
           ends == {parts[k][2] + 1 : k \in DOMAIN parts}
<1>1. /\ v \in Seq(Char) /\ Len(v) \in Nat /\ i \in Nat /\ i >= 1 /\ i <= Len(v)
      /\ start \in Nat /\ start >= 1 /\ parts \in Seq(Nat \X Nat)
      /\ value' = v /\ i' = i + 1 /\ list' = list
  BY ValueIsText DEF ParseInv, ParseTypeOK, Step
<1>2. ~Done
  BY <1>1 DEF ParseInv, Splitting
<1>3. /\ \A k \in DOMAIN parts : parts[k][2] = End(v, parts[k][1])
      /\ \A k, l \in DOMAIN parts : parts[k][1] = parts[l][1] => k = l
      /\ start <= i /\ start \notin Unread /\ list = <<>>
      /\ Unread \cup {start} = {b \in Begins(v) : b <= i}
      /\ ends = {j \in sep : j < i}
      /\ \A j \in start .. i - 1 : j \notin sep
  BY <1>2 DEF ParseInv, Splitting
<1>4. Part(v[i]) <=> i \in sep
  BY <1>1, PartIs DEF ParseInv
<1>5. IF Part(v[i]) THEN parts' = Append(parts, <<start, i - 1>>) /\ start' = i + 1
      ELSE parts' = parts /\ start' = start
  BY DEF Step
<1>6. \A b \in Nat : b <= i + 1 <=> b <= i \/ b = i + 1
  BY <1>1
<1>7. /\ Begins(v) \subseteq Nat /\ sep \subseteq Nat
      /\ i + 1 \in Begins(v) <=> i \in sep
  <2>0. \A j \in sep : j \in 1 .. Len(v)
    BY Zenon DEF Separators, Place
  <2>1. \A j \in sep : j \in Nat
    <3> HIDE DEF sep
    <3> QED BY <1>1, <2>0
  <2>2. \A b : b \in Begins(v) <=> b = 1 \/ \E j \in sep : b = j + 1
    BY Zenon DEF Begins
  <2> HIDE DEF sep
  <2> QED BY <1>1, <2>1, <2>2
<1> HIDE DEF sep
<1>8. CASE i \in sep
  <2>1. parts' = Append(parts, <<start, i - 1>>) /\ start' = i + 1
    BY <1>4, <1>5, <1>8
  <2>2. i - 1 \in Nat /\ (i - 1) + 1 = i /\ i - 1 \in start - 1 .. Len(v)
    BY <1>1, <1>3
  <2>3. End(v, start) = i - 1
    BY <1>1, <1>3, <1>8, <2>2, EndIs DEF sep
  <2> DEFINE t == Append(parts, <<start, i - 1>>)
  <2>4. /\ \A k \in DOMAIN t : t[k][2] = End(v, t[k][1])
        /\ \A k, l \in DOMAIN t : t[k][1] = t[l][1] => k = l
    <3>1. start \notin {parts[k][1] : k \in DOMAIN parts}
      BY <1>3 DEF Unread
    <3> HIDE DEF v
    <3> QED BY <1>1, <1>3, <2>2, <2>3, <3>1, PartsKept
  <2>5. Unread' = Unread \cup {start} /\ ends' = ends \cup {i}
    <3>1. /\ DOMAIN t = DOMAIN parts \cup {Len(parts) + 1}
          /\ t[Len(parts) + 1] = <<start, i - 1>> /\ \A k \in DOMAIN parts : t[k] = parts[k]
      BY <1>1, <2>2, PartAdded
    <3>2. parts' = t
      BY <2>1
    <3> HIDE DEF t
    <3>3. Unread' = Unread \cup {start}
      BY <3>1, <3>2 DEF Unread
    <3>4. ends' = ends \cup {i}
      BY <2>2, <3>1, <3>2
    <3> QED BY <3>3, <3>4
  <2>6. start' <= i' /\ start' \notin Unread'
    BY <1>1, <1>3, <2>1, <2>5
  <2>7. Unread' \cup {start'} = {b \in Begins(v) : b <= i'}
    BY <1>1, <1>3, <1>6, <1>7, <1>8, <2>1, <2>5
  <2>8. ends' = {j \in sep : j < i'}
    <3> HIDE DEF ends
    <3>1. \A j \in Nat : j < i + 1 <=> j < i \/ j = i
      BY <1>1
    <3> QED BY <1>1, <1>3, <1>7, <1>8, <2>5, <3>1
  <2>9. \A j \in start' .. i' - 1 : j \notin sep
    BY <1>1, <2>1
  <2>10. ~Done'
    BY <1>1, <2>1 DEF Done
  <2>11. parts' = t
    BY <2>1
  <2> HIDE DEF t
  <2> QED BY <1>1, <1>3, <2>4, <2>6, <2>7, <2>8, <2>9, <2>10, <2>11 DEF Splitting, sep
<1>9. CASE i \notin sep
  <2>1. parts' = parts /\ start' = start
    BY <1>4, <1>5, <1>9
  <2>2. Unread' = Unread /\ ends' = ends
    BY <2>1 DEF Unread
  <2>3. {b \in Begins(v) : b <= i + 1} = {b \in Begins(v) : b <= i}
    BY <1>1, <1>6, <1>7, <1>9
  <2>4. {j \in sep : j < i + 1} = {j \in sep : j < i}
    <3>1. \A j \in Nat : j < i + 1 <=> j < i \/ j = i
      BY <1>1
    <3> QED BY <1>7, <1>9, <3>1
  <2>5. \A j \in start .. (i + 1) - 1 : j \notin sep
    <3>1. \A j \in start .. (i + 1) - 1 : j \in start .. i - 1 \/ j = i
      BY <1>1
    <3> QED BY <1>3, <1>9, <3>1
  <2>6. ~Done' /\ start <= i + 1
    BY <1>1, <1>3, <2>1 DEF Done
  <2> QED BY <1>1, <1>3, <2>1, <2>2, <2>3, <2>4, <2>5, <2>6 DEF Splitting, sep
<1> QED BY <1>8, <1>9

(* The rest of the value is the last part, and nothing has been read.      *)
LEMMA LastPartSplitting ==
    ASSUME ParseInv, LastPart
    PROVE  Splitting' /\ Reading' /\ Done'
<1> DEFINE v == value
           t == Append(parts, <<start, Len(value)>>)
<1>1. /\ v \in Seq(Char) /\ Len(v) \in Nat /\ i = Len(v) + 1
      /\ start \in Nat /\ start >= 1 /\ parts \in Seq(Nat \X Nat)
      /\ value' = v /\ i' = i /\ list' = list /\ start' = Len(v) + 2 /\ parts' = t
  BY ValueIsText DEF ParseInv, ParseTypeOK, LastPart
<1>2. ~Done /\ Done'
  BY <1>1 DEF LastPart, Done
<1>3. /\ \A k \in DOMAIN parts : parts[k][2] = End(v, parts[k][1])
      /\ \A k, l \in DOMAIN parts : parts[k][1] = parts[l][1] => k = l
      /\ start <= i /\ start \notin Unread /\ list = <<>>
      /\ Unread \cup {start} = {b \in Begins(v) : b <= i}
      /\ \A j \in start .. i - 1 : j \notin Separators(v)
  BY <1>2 DEF ParseInv, Splitting
<1>4. End(v, start) = Len(v)
  <2>1. Len(v) \in start - 1 .. Len(v) /\ i - 1 = Len(v)
    BY <1>1, <1>3
  <2> QED BY <1>1, <1>3, <2>1, EndIs
<1>5. /\ \A k \in DOMAIN t : t[k][2] = End(v, t[k][1])
      /\ \A k, l \in DOMAIN t : t[k][1] = t[l][1] => k = l
  <2>1. start \notin {parts[k][1] : k \in DOMAIN parts}
    BY <1>3 DEF Unread
  <2> HIDE DEF v
  <2> QED BY <1>1, <1>3, <1>4, <2>1, PartsKept DEF v
<1>6. Unread' = Unread \cup {start}
  <2>1. /\ DOMAIN t = DOMAIN parts \cup {Len(parts) + 1}
        /\ t[Len(parts) + 1] = <<start, Len(v)>> /\ \A k \in DOMAIN parts : t[k] = parts[k]
    BY <1>1, PartAdded
  <2> HIDE DEF t
  <2> QED BY <1>1, <2>1 DEF Unread
<1> HIDE DEF t
<1>7. Unread' = Begins(v)
  <2>1. \A b \in Begins(v) : b <= i
    BY <1>1, EndExists
  <2> QED BY <1>3, <1>6, <2>1
<1>8. Splitting'
  BY <1>1, <1>2, <1>5, <1>7 DEF Splitting
<1>9. Reading'
  <2>1. list' = <<>> /\ DOMAIN list' = {} /\ Begins(v) \ Unread' = {}
    BY <1>1, <1>3, <1>7
  <2>2. list' \in [DOMAIN list' -> Begins(v) \ Unread']
    BY <2>1
  <2> QED BY <1>1, <2>1, <2>2 DEF Reading
<1> QED BY <1>2, <1>8, <1>9

-----------------------------------------------------------------------------
(* Directives::parse *)

(* A directive is a name and an argument.                                  *)
LEMMA DirectiveTyped ==
    ASSUME NEW v \in Seq(Char), NEW b \in Begins(v)
    PROVE  DirectiveOf(v, b, End(v, b)) \in
             [name : Seq(Char), argument : Seq(Char) \cup {NoArgument}]
<1> DEFINE to == End(v, b)
<1>1. b \in Nat \ {0} /\ to \in b - 1 .. Len(v) /\ Len(v) \in Nat /\ to \in Int
  BY EndExists
<1>2. \A m, n \in Int : m >= 1 /\ n <= Len(v) => SubSeq(v, m, n) \in Seq(Char)
  OBVIOUS
<1>3. ASSUME NEW s \in Seq(Char) PROVE Unquoted(s) \in Seq(Char)
  BY DEF Unquoted
<1> HIDE DEF to
<1>4. CASE DirectiveOf(v, b, to) = [name |-> Text(v, b, to), argument |-> NoArgument]
  <2>1. Text(v, b, to) \in Seq(Char)
    BY <1>1, <1>2 DEF Text
  <2> QED BY <1>4, <2>1 DEF to
<1>5. CASE \E first \in b .. to :
             DirectiveOf(v, b, to) = [name |-> Text(v, b, first - 1),
                                      argument |-> Unquoted(Text(v, first + 1, to))]
  <2>1. PICK first \in b .. to :
             DirectiveOf(v, b, to) = [name |-> Text(v, b, first - 1),
                                      argument |-> Unquoted(Text(v, first + 1, to))]
    BY <1>5
  <2>2. Text(v, b, first - 1) \in Seq(Char) /\ Text(v, first + 1, to) \in Seq(Char)
    BY <1>1, <1>2 DEF Text
  <2>3. Unquoted(Text(v, first + 1, to)) \in Seq(Char)
    BY <1>3, <2>2
  <2> QED BY <2>1, <2>2, <2>3 DEF to
<1> QED BY <1>1, <1>4, <1>5, DirectiveIs

(* A part is read once: what was unread but for it stays unread.           *)
LEMMA FirstRead ==
    ASSUME ParseInv, Parse
    PROVE  /\ value' = value /\ i' = i /\ start' = start /\ Done /\ Done'
           /\ parts[1][1] \in Unread /\ Unread' = Unread \ {parts[1][1]}
           /\ parts[1][2] = End(value, parts[1][1])
           /\ Splitting'
<1> DEFINE s == parts
           t == Tail(parts)
<1>1. /\ s \in Seq(Nat \X Nat) /\ s # <<>> /\ Done /\ parts' = t
      /\ value' = value /\ i' = i /\ start' = start
  BY DEF ParseInv, ParseTypeOK, Parse
<1>2. Done'
  BY <1>1 DEF Done
<1>3. /\ Len(s) \in Nat \ {0} /\ DOMAIN s = 1 .. Len(s) /\ 1 \in DOMAIN s
      /\ DOMAIN t = 1 .. Len(s) - 1 /\ \A k \in DOMAIN t : t[k] = s[k + 1]
  BY <1>1
<1>4. /\ \A k \in DOMAIN s : s[k][2] = End(value, s[k][1])
      /\ \A k, l \in DOMAIN s : s[k][1] = s[l][1] => k = l
      /\ i = Len(value) + 1 /\ Unread \subseteq Begins(value)
  BY <1>1 DEF ParseInv, Splitting
<1> HIDE DEF s, t
<1>5. \A k \in DOMAIN t : k + 1 \in DOMAIN s /\ k + 1 # 1 /\ k \in Nat
  BY <1>3
<1>6. \A k \in DOMAIN s : k = 1 \/ (k - 1 \in DOMAIN t /\ (k - 1) + 1 = k)
  BY <1>3
<1>7. {t[k][1] : k \in DOMAIN t} = {s[k][1] : k \in DOMAIN s} \ {s[1][1]}
  <2>1. ASSUME NEW k \in DOMAIN t PROVE t[k][1] \in {s[m][1] : m \in DOMAIN s} \ {s[1][1]}
    BY <1>3, <1>4, <1>5
  <2>2. ASSUME NEW k \in DOMAIN s, s[k][1] # s[1][1] PROVE s[k][1] \in {t[m][1] : m \in DOMAIN t}
    <3>1. k - 1 \in DOMAIN t /\ (k - 1) + 1 = k
      BY <1>6, <2>2
    <3>2. t[k - 1] = s[k]
      BY <1>3, <3>1
    <3> QED BY <3>1, <3>2
  <2> QED BY <2>1, <2>2
<1>8. s[1][1] \in Unread /\ Unread' = Unread \ {s[1][1]}
  <2>1. Unread = {s[k][1] : k \in DOMAIN s}
    BY DEF Unread, s
  <2>2. Unread' = {t[k][1] : k \in DOMAIN t}
    BY <1>1 DEF Unread
  <2> QED BY <1>3, <1>7, <2>1, <2>2
<1>9. /\ \A k \in DOMAIN t : t[k][2] = End(value, t[k][1])
      /\ \A k, l \in DOMAIN t : t[k][1] = t[l][1] => k = l
  <2>1. \A k \in DOMAIN t : t[k][2] = End(value, t[k][1])
    BY <1>3, <1>4, <1>5
  <2>2. \A k, l \in DOMAIN t : k + 1 = l + 1 => k = l
    BY <1>5
  <2>3. \A k, l \in DOMAIN t : t[k][1] = t[l][1] => k + 1 = l + 1
    BY <1>3, <1>4, <1>5
  <2> QED BY <2>1, <2>2, <2>3
<1>10. Splitting'
  BY <1>1, <1>2, <1>4, <1>8, <1>9 DEF Splitting
<1> QED BY <1>1, <1>2, <1>3, <1>4, <1>8, <1>10 DEF s

(* The first part is read into the list, if it has a name.                 *)
LEMMA ParseReading ==
    ASSUME ParseInv, Parse
    PROVE  Reading'
<1> DEFINE B == Begins(value)
           b == parts[1][1]
           d == Read(value, b)
<1>1. /\ value' = value /\ Done /\ Done' /\ b \in Unread /\ Unread' = Unread \ {b}
      /\ parts[1][2] = End(value, b)
  BY FirstRead
<1>2. Unread \subseteq B
  BY <1>1 DEF ParseInv, Splitting
<1>3. list' = IF d.name = <<>> THEN list ELSE Append(list, d)
  BY <1>1 DEF Parse, Read
<1>4. /\ DOMAIN list = 1 .. Len(list) /\ Len(list) \in Nat
  BY DEF ParseInv, ParseTypeOK
<1>5. PICK f \in [DOMAIN list -> B \ Unread] :
         /\ \A m \in DOMAIN list : list[m] = Read(value, f[m]) /\ list[m].name # <<>>
         /\ \A m, n \in DOMAIN list : f[m] = f[n] => m = n
         /\ \A a \in B \ Unread : Read(value, a).name # <<>> => \E m \in DOMAIN list : f[m] = a
  BY <1>1 DEF ParseInv, Reading
<1>6. B \ Unread' = (B \ Unread) \cup {b} /\ b \notin B \ Unread
  BY <1>1, <1>2
<1> SUFFICES \E g \in [DOMAIN list' -> B \ Unread'] :
         /\ \A m \in DOMAIN list' : list'[m] = Read(value, g[m]) /\ list'[m].name # <<>>
         /\ \A m, n \in DOMAIN list' : g[m] = g[n] => m = n
         /\ \A a \in B \ Unread' : Read(value, a).name # <<>> => \E m \in DOMAIN list' : g[m] = a
  BY <1>1 DEF Reading
<1> HIDE DEF B, b
<1>7. CASE d.name = <<>>
  <2>1. list' = list
    BY <1>3, <1>7
  <2>2. f \in [DOMAIN list -> B \ Unread']
    BY <1>6
  <2>3. \A a \in B \ Unread' : Read(value, a).name # <<>> => \E m \in DOMAIN list : f[m] = a
    BY <1>5, <1>6, <1>7
  <2> QED BY <1>5, <2>1, <2>2, <2>3
<1>8. CASE d.name # <<>>
  <2> DEFINE n == Len(list) + 1
             g == [m \in DOMAIN list \cup {n} |-> IF m = n THEN b ELSE f[m]]
  <2>1. list' = Append(list, d)
    BY <1>3, <1>8
  <2>2. /\ n \notin DOMAIN list /\ DOMAIN list' = DOMAIN list \cup {n}
        /\ list'[n] = d /\ \A m \in DOMAIN list : list'[m] = list[m]
    BY <1>4, <2>1 DEF ParseInv, ParseTypeOK
  <2> HIDE DEF n, d
  <2>3. g[n] = b /\ \A m \in DOMAIN list : g[m] = f[m]
    BY <2>2
  <2>4. g \in [DOMAIN list' -> B \ Unread']
    BY <1>6, <2>2
  <2> HIDE DEF g
  <2>5. \A m \in DOMAIN list' : list'[m] = Read(value, g[m]) /\ list'[m].name # <<>>
    BY <1>5, <1>8, <2>2, <2>3 DEF d
  <2>6. \A m, k \in DOMAIN list' : g[m] = g[k] => m = k
    <3>1. \A m \in DOMAIN list : g[m] \in B \ Unread
      BY <2>3
    <3> QED BY <1>5, <1>6, <2>2, <2>3, <3>1
  <2>7. \A a \in B \ Unread' : Read(value, a).name # <<>> => \E m \in DOMAIN list' : g[m] = a
    BY <1>5, <1>6, <2>2, <2>3
  <2> QED BY <2>4, <2>5, <2>6, <2>7
<1> QED BY <1>7, <1>8

(* What is not parsed yet, and what is, keep their types.                  *)
LEMMA ParseTyped ==
    ASSUME ParseInv, ParseNext
    PROVE  ParseTypeOK'
<1>1. /\ value \in Values /\ value \in Seq(Char) /\ Len(value) \in Nat /\ i \in 1 .. Len(value) + 1
      /\ start \in 1 .. Len(value) + 2 /\ quoted \in BOOLEAN /\ escaped \in BOOLEAN
      /\ parts \in Seq(Nat \X Nat)
      /\ list \in Seq([name : Seq(Char), argument : Seq(Char) \cup {NoArgument}])
  BY ValueIsText DEF ParseInv, ParseTypeOK
<1>2. CASE Step
  <2>1. value' = value /\ list' = list /\ i' = i + 1 /\ i' \in 1 .. Len(value) + 1
    BY <1>1, <1>2 DEF Step
  <2>2. quoted' \in BOOLEAN /\ escaped' \in BOOLEAN
    BY <1>1, <1>2 DEF Step, Unescaped
  <2>3. parts' \in Seq(Nat \X Nat) /\ start' \in 1 .. Len(value) + 2
    <3>1. CASE Part(value[i])
      <4>1. parts' = Append(parts, <<start, i - 1>>) /\ start' = i + 1
        BY <1>2, <3>1 DEF Step
      <4>2. <<start, i - 1>> \in Nat \X Nat
        BY <1>1
      <4> QED BY <1>1, <1>2, <4>1, <4>2 DEF Step
    <3>2. CASE ~Part(value[i])
      BY <1>1, <1>2, <3>2 DEF Step
    <3> QED BY <3>1, <3>2
  <2> QED BY <1>1, <2>1, <2>2, <2>3 DEF ParseTypeOK
<1>3. CASE LastPart
  <2>1. /\ value' = value /\ list' = list /\ i' = i /\ quoted' = quoted /\ escaped' = escaped
        /\ start' = Len(value) + 2 /\ parts' = Append(parts, <<start, Len(value)>>)
    BY <1>3 DEF LastPart
  <2>2. <<start, Len(value)>> \in Nat \X Nat
    BY <1>1
  <2>3. parts' \in Seq(Nat \X Nat) /\ start' \in 1 .. Len(value) + 2
    BY <1>1, <2>1, <2>2
  <2> QED BY <1>1, <2>1, <2>3 DEF ParseTypeOK
<1>4. CASE Parse
  <2>1. /\ value' = value /\ i' = i /\ start' = start /\ quoted' = quoted /\ escaped' = escaped
        /\ parts # <<>> /\ parts' = Tail(parts)
    BY <1>4 DEF Parse
  <2>2. parts' \in Seq(Nat \X Nat)
    BY <1>1, <2>1
  <2> DEFINE d == DirectiveOf(value, parts[1][1], parts[1][2])
  <2>3. d \in [name : Seq(Char), argument : Seq(Char) \cup {NoArgument}]
    <3>1. /\ Done /\ parts[1][1] \in Unread /\ parts[1][2] = End(value, parts[1][1])
      BY <1>4, FirstRead
    <3>2. parts[1][1] \in Begins(value)
      BY <3>1 DEF ParseInv, Splitting
    <3> QED BY <1>1, <3>1, <3>2, DirectiveTyped
  <2>4. list' = IF d.name = <<>> THEN list ELSE Append(list, d)
    BY <1>4 DEF Parse
  <2> HIDE DEF d
  <2>5. list' \in Seq([name : Seq(Char), argument : Seq(Char) \cup {NoArgument}])
    <3> DEFINE D == [name : Seq(Char), argument : Seq(Char) \cup {NoArgument}]
    <3> HIDE DEF D
    <3>1. list \in Seq(D) /\ d \in D
      BY <1>1, <2>3 DEF D
    <3>2. list' \in Seq(D)
      BY <2>4, <3>1
    <3> QED BY <3>2 DEF D
  <2> QED BY <1>1, <2>1, <2>2, <2>5 DEF ParseTypeOK
<1> QED BY <1>2, <1>3, <1>4 DEF ParseNext

(* Before the first character nothing is split.                            *)
LEMMA ParseInitInv == ParseInit => ParseInv
<1> SUFFICES ASSUME ParseInit PROVE ParseInv
  OBVIOUS
<1>1. /\ value \in Values /\ value \in Seq(Char) /\ Len(value) \in Nat
      /\ i = 1 /\ start = 1 /\ quoted = FALSE /\ escaped = FALSE /\ parts = <<>> /\ list = <<>>
  BY ValueIsText DEF ParseInit
<1>2. ~Done
  BY <1>1 DEF Done
<1>3. ParseTypeOK
  <2>1. \A S : <<>> \in Seq(S)
    OBVIOUS
  <2>2. 1 \in 1 .. Len(value) + 1 /\ 1 \in 1 .. Len(value) + 2
    BY <1>1
  <2> QED BY <1>1, <2>1, <2>2 DEF ParseTypeOK
<1>4. Quoting
  <2>1. \A o \in Openings(value) : o \in Place(value)
    BY <1>1, OpeningsApart
  <2>2. \A o \in Openings(value) : ~(o < 1)
    BY <1>1, <2>1 DEF Place
  <2> QED BY <1>1, <2>2 DEF Quoting
<1>5. Splitting
  <2>1. DOMAIN parts = {} /\ Unread = {} /\ {parts[k][2] + 1 : k \in DOMAIN parts} = {}
    BY <1>1 DEF Unread
  <2>2. \A j \in Separators(value) : j \in 1 .. Len(value)
    BY Zenon DEF Separators, Place
  <2>3. {j \in Separators(value) : j < i} = {}
    BY <1>1, <2>2
  <2>4. {b \in Begins(value) : b <= i} = {1}
    <3>1. \A b : b \in Begins(value) <=> b = 1 \/ \E j \in Separators(value) : b = j + 1
      BY Zenon DEF Begins
    <3> QED BY <1>1, <2>2, <3>1
  <2>5. \A j \in start .. i - 1 : j \notin Separators(value)
    BY <1>1
  <2> QED BY <1>1, <1>2, <2>1, <2>3, <2>4, <2>5 DEF Splitting
<1>6. Reading
  BY <1>2 DEF Reading
<1> QED BY <1>3, <1>4, <1>5, <1>6 DEF ParseInv

(* Each step keeps the flags, the parts and the list in agreement with the *)
(* grammar.                                                                *)
LEMMA ParseNextInv == ParseInv /\ [ParseNext]_parseVars => ParseInv'
<1> SUFFICES ASSUME ParseInv, [ParseNext]_parseVars PROVE ParseInv'
  OBVIOUS
<1>1. CASE Step
  <2>1. Reading'
    BY <1>1, StepSplitting DEF Reading
  <2> QED BY <1>1, <2>1, ParseTyped, QuotingStep, StepSplitting DEF ParseInv, ParseNext
<1>2. CASE LastPart
  <2>1. Quoting'
    BY <1>2 DEF ParseInv, Quoting, LastPart
  <2> QED BY <1>2, <2>1, ParseTyped, LastPartSplitting DEF ParseInv, ParseNext
<1>3. CASE Parse
  <2>1. Quoting'
    BY <1>3 DEF ParseInv, Quoting, Parse
  <2> QED BY <1>3, <2>1, ParseTyped, FirstRead, ParseReading DEF ParseInv, ParseNext
<1>4. CASE UNCHANGED parseVars
  <2>1. /\ value' = value /\ i' = i /\ start' = start /\ quoted' = quoted
        /\ escaped' = escaped /\ parts' = parts /\ list' = list
    BY <1>4 DEF parseVars, scan
  <2>2. ParseTypeOK'
    BY <2>1 DEF ParseInv, ParseTypeOK
  <2>3. Quoting'
    BY <2>1 DEF ParseInv, Quoting
  <2>4. Unread' = Unread /\ (Done' <=> Done)
    BY <2>1 DEF Unread, Done
  <2>5. Splitting'
    BY <2>1, <2>4 DEF ParseInv, Splitting
  <2>6. Reading'
    BY <2>1, <2>4 DEF ParseInv, Reading
  <2> QED BY <2>2, <2>3, <2>5, <2>6 DEF ParseInv
<1> QED BY <1>1, <1>2, <1>3, <1>4 DEF ParseNext

(* The flags of split_outside_quotes, its parts and the list of            *)
(* Directives::parse agree with the grammar at every step.                 *)
THEOREM ParseInductive == ParseSpec => []ParseInv
  BY ParseInitInv, ParseNextInv, PTL DEF ParseSpec

(* split_outside_quotes splits at the commas that are not inside a quoted  *)
(* string, for a value of any length, whatever its quotes and backslashes. *)
THEOREM SplitsRight == ParseSpec => []SplitsOutsideQuotes
<1>1. ParseInv => SplitsOutsideQuotes
  <2> SUFFICES ASSUME ParseInv PROVE SplitsOutsideQuotes
    OBVIOUS
  <2>1. ~Done => {parts[k][2] + 1 : k \in DOMAIN parts} = {j \in Separators(value) : j < i}
    BY DEF ParseInv, Splitting
  <2>2. ASSUME i <= Len(value), value[i] # "quote" PROVE quoted = Inside(value, i)
    <3>1. (quoted => Inside(value, i)) /\ (~quoted => ~Inside(value, i)) /\ quoted \in BOOLEAN
      BY <2>2, QuotedIs DEF ParseInv, ParseTypeOK
    <3>2. Inside(value, i) \in BOOLEAN
      BY DEF Inside
    <3> QED BY <3>1, <3>2
  <2> QED BY <2>1, <2>2 DEF SplitsOutsideQuotes
<1> QED BY <1>1, ParseInductive, PTL

(* The places of a text.                                                   *)
LEMMA TextIs ==
    ASSUME NEW v \in Seq(Char), NEW m \in Nat \ {0}, NEW n \in m - 1 .. Len(v)
    PROVE  /\ Text(v, m, n) \in Seq(Char) /\ Len(Text(v, m, n)) = n - m + 1
           /\ DOMAIN Text(v, m, n) = 1 .. n - m + 1
           /\ \A k \in 1 .. n - m + 1 : Text(v, m, n)[k] = v[m + k - 1]
           /\ Text(v, m, n) # <<>> <=> m <= n
           /\ Plain(Text(v, m, n)) <=> \A j \in m .. n : v[j] = "x"
<1> DEFINE t == Text(v, m, n)
<1>1. n \in Int /\ n - m + 1 \in Nat /\ Len(v) \in Nat
  OBVIOUS
<1>2. t \in Seq(Char) /\ Len(t) = n - m + 1
  BY <1>1 DEF Text
<1>3. \A k \in 1 .. n - m + 1 : t[k] = v[m + k - 1]
  BY <1>1 DEF Text
<1> HIDE DEF t
<1>4. DOMAIN t = 1 .. n - m + 1 /\ (t # <<>> <=> m <= n)
  BY <1>1, <1>2
<1>5. ASSUME \A j \in m .. n : v[j] = "x" PROVE \A k \in 1 .. n - m + 1 : t[k] = "x"
  <2>1. \A k \in 1 .. n - m + 1 : m + k - 1 \in m .. n
    BY <1>1
  <2> QED BY <1>3, <1>5, <2>1
<1>6. ASSUME \A k \in 1 .. n - m + 1 : t[k] = "x", NEW j \in m .. n PROVE v[j] = "x"
  <2>1. j - m + 1 \in 1 .. n - m + 1 /\ m + (j - m + 1) - 1 = j
    BY <1>1
  <2> QED BY <1>3, <1>6, <2>1
<1> QED BY <1>2, <1>3, <1>4, <1>5, <1>6 DEF t, Plain

(* Taking the quotes off a quoted argument leaves what is between them.    *)
LEMMA UnquotedIs ==
    ASSUME NEW v \in Seq(Char), NEW m \in Nat \ {0}, NEW n \in m .. Len(v)
    PROVE  /\ m < n /\ v[m] = "quote" /\ v[n] = "quote"
                => Unquoted(Text(v, m, n)) = Text(v, m + 1, n - 1)
           /\ v[m] # "quote" => Unquoted(Text(v, m, n)) = Text(v, m, n)
<1> DEFINE t == Text(v, m, n)
<1>1. /\ t \in Seq(Char) /\ Len(t) = n - m + 1 /\ t[1] = v[m] /\ t[Len(t)] = v[n]
      /\ \A k \in 1 .. n - m + 1 : t[k] = v[m + k - 1]
  <2>1. n \in m - 1 .. Len(v) /\ 1 \in 1 .. n - m + 1 /\ n - m + 1 \in 1 .. n - m + 1
    OBVIOUS
  <2>2. m + 1 - 1 = m /\ m + (n - m + 1) - 1 = n
    OBVIOUS
  <2>3. /\ t \in Seq(Char) /\ Len(t) = n - m + 1
        /\ \A k \in 1 .. n - m + 1 : t[k] = v[m + k - 1]
    BY <2>1, TextIs
  <2> QED BY <2>1, <2>2, <2>3
<1>2. ASSUME m < n, v[m] = "quote", v[n] = "quote"
      PROVE  Unquoted(t) = Text(v, m + 1, n - 1)
  <2>1. Unquoted(t) = SubSeq(t, 2, Len(t) - 1)
    BY <1>1, <1>2 DEF Unquoted
  <2>2. /\ Text(v, m + 1, n - 1) \in Seq(Char) /\ Len(Text(v, m + 1, n - 1)) = n - m - 1
        /\ \A k \in 1 .. n - m - 1 : Text(v, m + 1, n - 1)[k] = v[m + k]
    BY <1>2 DEF Text
  <2> HIDE DEF t
  <2>3. /\ SubSeq(t, 2, Len(t) - 1) \in Seq(Char) /\ Len(SubSeq(t, 2, Len(t) - 1)) = n - m - 1
        /\ \A k \in 1 .. n - m - 1 : SubSeq(t, 2, Len(t) - 1)[k] = t[k + 1]
    BY <1>1, <1>2
  <2>4. \A k \in 1 .. n - m - 1 : t[k + 1] = v[m + k]
    <3>1. \A k \in 1 .. n - m - 1 : k + 1 \in 1 .. n - m + 1 /\ m + (k + 1) - 1 = m + k
      OBVIOUS
    <3> QED BY <1>1, <3>1
  <2>5. SubSeq(t, 2, Len(t) - 1) = Text(v, m + 1, n - 1)
    <3> DEFINE p == SubSeq(t, 2, Len(t) - 1)
               q == Text(v, m + 1, n - 1)
    <3>1. p \in Seq(Char) /\ q \in Seq(Char) /\ Len(p) = Len(q) /\ \A k \in 1 .. Len(q) : p[k] = q[k]
      BY <2>2, <2>3, <2>4
    <3> HIDE DEF p, q
    <3>2. p = q
      BY <3>1
    <3> QED BY <3>2 DEF p, q
  <2> QED BY <2>1, <2>5
<1>3. ASSUME v[m] # "quote" PROVE Unquoted(t) = t
  BY <1>1, <1>3 DEF Unquoted
<1> QED BY <1>2, <1>3

(* A directive as it is read has a plain name when the grammar has one     *)
(* there, the same name, with the argument that the grammar has.           *)
LEMMA ReadIs ==
    ASSUME NEW v \in Seq(Char), NEW b \in Begins(v)
    PROVE  LET d == Read(v, b)
               e == b + Len(d.name) - 1
           IN  IF d.name # <<>> /\ Plain(d.name)
               THEN NameEnds(v, b) = {e} /\ Argument(v, b, e) \subseteq {d.argument}
               ELSE NameEnds(v, b) = {}
<1> DEFINE to == End(v, b)
           d == Read(v, b)
           e == b + Len(d.name) - 1
<1>1. b \in Nat \ {0} /\ to \in b - 1 .. Len(v) /\ Len(v) \in Nat /\ to \in Int
  BY EndExists
<1>2. CASE /\ \A j \in b .. to : v[j] # "="
           /\ DirectiveOf(v, b, to) = [name |-> Text(v, b, to), argument |-> NoArgument]
  <2>1. d.name = Text(v, b, to) /\ d.argument = NoArgument
    BY <1>2 DEF Read
  <2>2. /\ Len(d.name) = to - b + 1 /\ (d.name # <<>> <=> b <= to)
        /\ Plain(d.name) <=> \A j \in b .. to : v[j] = "x"
    <3> HIDE DEF d, to
    <3>1. /\ Len(Text(v, b, to)) = to - b + 1 /\ (Text(v, b, to) # <<>> <=> b <= to)
          /\ Plain(Text(v, b, to)) <=> \A j \in b .. to : v[j] = "x"
      BY <1>1, TextIs
    <3> QED BY <2>1, <3>1
  <2> HIDE DEF d
  <2>3. e = to
    BY <1>1, <2>2
  <2> HIDE DEF e, to
  <2>4. \A n \in b .. to : n = to \/ v[n + 1] # "="
    BY <1>1, <1>2
  <2>5. NameEnds(v, b) = {n \in b .. to : n = to /\ \A j \in b .. n : v[j] = "x"}
    BY <2>4 DEF NameEnds, to
  <2>6. IF d.name # <<>> /\ Plain(d.name) THEN NameEnds(v, b) = {to} ELSE NameEnds(v, b) = {}
    BY <1>1, <2>2, <2>5
  <2>7. Argument(v, b, to) = {NoArgument}
    BY DEF Argument, to
  <2> QED BY <2>1, <2>3, <2>6, <2>7 DEF d, e
<1>3. CASE \E first \in b .. to :
             /\ v[first] = "=" /\ \A j \in b .. first - 1 : v[j] # "="
             /\ DirectiveOf(v, b, to) = [name |-> Text(v, b, first - 1),
                                         argument |-> Unquoted(Text(v, first + 1, to))]
  <2>1. PICK first \in b .. to :
             /\ v[first] = "=" /\ \A j \in b .. first - 1 : v[j] # "="
             /\ DirectiveOf(v, b, to) = [name |-> Text(v, b, first - 1),
                                         argument |-> Unquoted(Text(v, first + 1, to))]
    BY <1>3
  <2>2. d.name = Text(v, b, first - 1) /\ d.argument = Unquoted(Text(v, first + 1, to))
    BY <2>1 DEF Read
  <2>3. first \in Nat /\ first - 1 \in b - 1 .. Len(v)
    BY <1>1
  <2>4. /\ Len(d.name) = (first - 1) - b + 1 /\ (d.name # <<>> <=> b <= first - 1)
        /\ Plain(d.name) <=> \A j \in b .. first - 1 : v[j] = "x"
    <3> DEFINE t == Text(v, b, first - 1)
    <3> HIDE DEF d, to
    <3>1. /\ Len(t) = (first - 1) - b + 1 /\ (t # <<>> <=> b <= first - 1)
          /\ Plain(t) <=> \A j \in b .. first - 1 : v[j] = "x"
      BY <1>1, <2>3, TextIs
    <3> QED BY <2>2, <3>1
  <2> HIDE DEF d
  <2>5. e = first - 1
    BY <1>1, <2>3, <2>4
  <2> HIDE DEF e, to
  <2>6. ASSUME NEW n \in NameEnds(v, b)
        PROVE  n = first - 1 /\ b <= n /\ \A j \in b .. first - 1 : v[j] = "x"
    <3>1. n \in b .. to /\ (\A j \in b .. n : v[j] = "x") /\ (n = to \/ v[n + 1] = "=")
      BY DEF NameEnds, to
    <3>2. n < first
      BY <1>1, <2>1, <2>3, <3>1
    <3>3. n # to /\ n + 1 \in b .. first
      BY <1>1, <2>3, <3>1, <3>2
    <3>4. ~(n + 1 \in b .. first - 1)
      BY <2>1, <3>1, <3>3
    <3>5. n = first - 1
      BY <1>1, <2>3, <3>1, <3>3, <3>4
    <3> QED BY <1>1, <3>1, <3>5
  <2>7. ASSUME b <= first - 1, \A j \in b .. first - 1 : v[j] = "x"
        PROVE  first - 1 \in NameEnds(v, b)
    <3>1. first - 1 \in b .. to /\ (first - 1) + 1 = first
      BY <1>1, <2>3, <2>7
    <3> QED BY <2>1, <2>7, <3>1 DEF NameEnds, to
  <2>8. IF d.name # <<>> /\ Plain(d.name) THEN NameEnds(v, b) = {first - 1} ELSE NameEnds(v, b) = {}
    BY <2>4, <2>6, <2>7
  <2>9. Argument(v, b, first - 1) \subseteq {d.argument}
    <3>1. first - 1 # to /\ (first - 1) + 2 = first + 1 /\ (first - 1) + 3 = first + 2
      BY <1>1, <2>3
    <3>2. CASE first + 1 \in Openings(v) /\ Close(v, first + 1) = to
      <4>1. Argument(v, b, first - 1) = {Text(v, first + 2, to - 1)}
        BY <3>1, <3>2 DEF Argument, to
      <4>2. first + 1 \in Place(v) /\ v[first + 1] = "quote"
        BY <3>2, OpeningsApart
      <4>3. to \in (first + 1) + 1 .. Len(v) + 1 /\ to \in Closings(v, first + 1)
        BY <1>1, <3>2, <4>2, CloseIs
      <4>4. v[to] = "quote" /\ first + 1 < to /\ to \in first + 1 .. Len(v)
        BY <1>1, <2>3, <4>3 DEF Closings
      <4>5. Unquoted(Text(v, first + 1, to)) = Text(v, (first + 1) + 1, to - 1)
        BY <2>3, <4>2, <4>4, UnquotedIs
      <4>6. (first + 1) + 1 = first + 2
        BY <2>3
      <4> QED BY <2>2, <4>1, <4>5, <4>6
    <3>3. CASE /\ ~(first + 1 \in Openings(v) /\ Close(v, first + 1) = to)
               /\ \A j \in first + 1 .. to : v[j] # "quote"
      <4>1. Argument(v, b, first - 1) = {Text(v, first + 1, to)}
        BY <3>1, <3>3 DEF Argument, to
      <4>2. Unquoted(Text(v, first + 1, to)) = Text(v, first + 1, to)
        <5>1. CASE first + 1 <= to
          <6>1. to \in first + 1 .. Len(v) /\ v[first + 1] # "quote"
            BY <1>1, <2>3, <3>3, <5>1
          <6> QED BY <2>3, <6>1, UnquotedIs
        <5>2. CASE ~(first + 1 <= to)
          <6>1. to \in (first + 1) - 1 .. Len(v) /\ to - (first + 1) + 1 = 0
            BY <1>1, <2>3, <5>2
          <6>2. Len(Text(v, first + 1, to)) = 0
            BY <2>3, <6>1, TextIs
          <6> QED BY <6>2 DEF Unquoted
        <5> QED BY <5>1, <5>2
      <4> QED BY <2>2, <4>1, <4>2
    <3>4. CASE /\ ~(first + 1 \in Openings(v) /\ Close(v, first + 1) = to)
               /\ ~(\A j \in first + 1 .. to : v[j] # "quote")
      BY <3>1, <3>4 DEF Argument, to
    <3> QED BY <3>2, <3>3, <3>4
  <2> QED BY <2>5, <2>8, <2>9 DEF d, e
<1> QED BY <1>1, <1>2, <1>3, DirectiveIs

(* Directives::parse reads the directives of the value and nothing else,   *)
(* each with its argument, for a value of any length.                      *)
THEOREM ReadsRight == ParseSpec => []ReadsTheDirectives
<1>1. ParseInv => ReadsTheDirectives
  <2> SUFFICES ASSUME ParseInv, Done, parts = <<>> PROVE ReadsTheDirectives
    BY DEF ReadsTheDirectives
  <2> DEFINE B == Begins(value)
             plain == {d \in DOMAIN list : Plain(list[d].name)}
  <2>1. /\ value \in Seq(Char) /\ Len(list) \in Nat /\ DOMAIN list = 1 .. Len(list)
    BY ValueIsText DEF ParseInv, ParseTypeOK
  <2>2. Unread = {}
    BY DEF Unread
  <2>3. PICK f \in [DOMAIN list -> B] :
           /\ \A d \in DOMAIN list : list[d] = Read(value, f[d]) /\ list[d].name # <<>>
           /\ \A d, e \in DOMAIN list : f[d] = f[e] => d = e
           /\ \A b \in B : Read(value, b).name # <<>> => \E d \in DOMAIN list : f[d] = b
    BY <2>2 DEF ParseInv, Reading
  <2>4. ASSUME NEW d \in plain PROVE f[d] \in Named(value)
    <3>1. d \in DOMAIN list /\ f[d] \in B /\ list[d] = Read(value, f[d])
      BY <2>3
    <3>2. Read(value, f[d]).name # <<>> /\ Plain(Read(value, f[d]).name)
      BY <2>3, <3>1
    <3>3. NameEnds(value, f[d]) # {}
      BY <2>1, <3>1, <3>2, ReadIs
    <3> QED BY <3>1, <3>3 DEF Named
  <2>5. ASSUME NEW b \in Named(value)
        PROVE  \E d \in plain :
                 /\ f[d] = b
                 /\ LET e == b + Len(list[d].name) - 1
                    IN  /\ NameEnds(value, b) = {e}
                        /\ Argument(value, b, e) \subseteq {list[d].argument}
    <3>1. b \in B /\ NameEnds(value, b) # {}
      BY DEF Named
    <3>2. Read(value, b).name # <<>> /\ Plain(Read(value, b).name)
      BY <2>1, <3>1, ReadIs
    <3>3. PICK d \in DOMAIN list : f[d] = b
      BY <2>3, <3>1, <3>2
    <3>4. list[d] = Read(value, b)
      BY <2>3, <3>3
    <3>5. d \in plain
      BY <3>2, <3>4
    <3>6. LET e == b + Len(Read(value, b).name) - 1
          IN  /\ NameEnds(value, b) = {e}
              /\ Argument(value, b, e) \subseteq {Read(value, b).argument}
      BY <2>1, <3>1, <3>2, ReadIs
    <3> QED BY <3>3, <3>4, <3>5, <3>6
  <2>6. Cardinality(plain) = Cardinality(Named(value))
    <3> DEFINE g == [d \in plain |-> f[d]]
    <3>1. IsFiniteSet(plain)
      <4>1. IsFiniteSet(1 .. Len(list))
        BY <2>1, FS_Interval
      <4> QED BY <2>1, <4>1, FS_Subset
    <3>2. plain \subseteq DOMAIN list
      OBVIOUS
    <3>3. \A b \in Named(value) : \E d \in plain : f[d] = b
      BY <2>5
    <3> HIDE DEF plain
    <3>4. g \in [plain -> Named(value)] /\ \A d \in plain : g[d] = f[d]
      BY <2>4
    <3> HIDE DEF g
    <3>5. \A d, e \in plain : g[d] = g[e] => d = e
      BY <2>3, <3>2, <3>4
    <3>6. \A b \in Named(value) : \E d \in plain : g[d] = b
      BY <3>3, <3>4
    <3>7. g \in Bijection(plain, Named(value))
      BY <3>4, <3>5, <3>6 DEF Bijection, Injection, Surjection, IsInjective
    <3> QED BY <3>1, <3>7, FS_Bijection DEF ExistsBijection
  <2> QED BY <2>5, <2>6 DEF ReadsTheDirectives
<1> QED BY <1>1, ParseInductive, PTL
=============================================================================
