------------------------------ MODULE MCProxy ------------------------------
(* Small instances of Proxy: what requests ask and what the origin answers. *)
EXTENDS Proxy, TLC

Get == [method |-> "GET", no_cache |-> FALSE, no_store |-> FALSE,
        max_age |-> None, credentials |-> FALSE, conditional |-> FALSE]
HeadRequest == [Get EXCEPT !.method = "HEAD"]
Post == [Get EXCEPT !.method = "POST"]
WithCookie == [Get EXCEPT !.credentials = TRUE]
Conditional == [Get EXCEPT !.conditional = TRUE]
NoCache == [Get EXCEPT !.no_cache = TRUE]
NoStore == [Get EXCEPT !.no_store = TRUE]
MaxAge(n) == [Get EXCEPT !.max_age = n]

(* a response that is fresh for a tick and can be revalidated *)
Short == [status |-> "ok", cacheable |-> TRUE, public |-> FALSE, lifetime |-> 1,
          age |-> 0, while_revalidate |-> 0, if_error |-> 0,
          must_revalidate |-> FALSE, validator |-> TRUE, length |-> "none"]
Public == [Short EXCEPT !.public = TRUE, !.length = "fits"]
Private == [Short EXCEPT !.cacheable = FALSE]
NotFound == [Short EXCEPT !.status = "refused"]
Large == [Short EXCEPT !.length = "over"]
Aged == [Short EXCEPT !.lifetime = 2, !.age = 1, !.if_error = 1]
StaleAllowed == [Short EXCEPT !.while_revalidate = 1, !.if_error = 2, !.length = "fits"]
MustRevalidate == [StaleAllowed EXCEPT !.must_revalidate = TRUE]
NotModified == [StaleAllowed EXCEPT !.status = "not_modified"]
NotModifiedPrivate == [NotModified EXCEPT !.cacheable = FALSE]
Error == [Private EXCEPT !.status = "error"]

(* requests that may share an answer, and answers that may not be shared *)
CoalescingKinds == {Get}
CoalescingHeads == {StaleAllowed, Private}

(* every kind of request and of answer *)
AllKinds == {Get, HeadRequest, Post, WithCookie, Conditional, NoCache, NoStore,
             MaxAge(0), MaxAge(1)}
AllHeads == {Short, Public, NotFound, Private, Large, Aged, StaleAllowed, MustRevalidate,
             NotModified, NotModifiedPrivate, Error}

(* stale responses and their refreshes *)
RefreshHeads == {StaleAllowed, NotModified}

Alike == Permutations(Requests)
=============================================================================
