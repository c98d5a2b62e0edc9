------------------------------ MODULE Flights ------------------------------
(***************************************************************************)
(* Request coalescing (src/coalesce.rs).  While one request for a key is   *)
(* on its way to the origin, its leader, other requests for the key wait   *)
(* for it.                                                                 *)
(*                                                                         *)
(* Every request joins at most once, so a flight is named after the        *)
(* request that leads it: the name stands for the watch channel that the   *)
(* leader creates.  join and the first half of the guard's drop hold the   *)
(* mutex and are one step each; the guard's sender is dropped after the    *)
(* mutex is released, so the drop of a guard is two steps.                 *)
(***************************************************************************)
CONSTANTS Keys,      \* the coalescing keys
          Requests,  \* the requests, and the flights they lead
          NoFlight,  \* no entry in the map, or no channel
          NoKey      \* a request that holds no guard

ASSUME FlightsAssumption == NoFlight \notin Requests /\ NoKey \notin Keys

VARIABLES in_flight, \* in_flight[k]: the flight the shared map has for k
          senders,   \* the flights whose watch::Sender is alive
          role,      \* what part the request has in a flight
          guard,     \* guard[r]: the key of the FlightGuard r holds
          waiter     \* waiter[r]: the flight whose Waiter r holds

vars == <<in_flight, senders, role, guard, waiter>>

(***************************************************************************)
(* new: has not joined.  lead: holds the guard.  ending: the guard's drop  *)
(* has removed the key and not yet dropped the sender.  ended: the guard   *)
(* is gone.  follow: awaits the leader.  woken: the wait returned.         *)
(* gaveup: the wait was abandoned.  alone: goes to the origin by itself.   *)
(***************************************************************************)
Roles == {"new", "lead", "ending", "ended", "follow", "woken", "gaveup", "alone"}

Init ==
    /\ in_flight = [k \in Keys |-> NoFlight]
    /\ senders = {}
    /\ role = [r \in Requests |-> "new"]
    /\ guard = [r \in Requests |-> NoKey]
    /\ waiter = [r \in Requests |-> NoFlight]

(* Flights::join finds a flight for the key and clones its receiver.       *)
JoinFollow(r, k) ==
    /\ in_flight[k] # NoFlight
    /\ role' = [role EXCEPT ![r] = "follow"]
    /\ waiter' = [waiter EXCEPT ![r] = in_flight[k]]
    /\ UNCHANGED <<in_flight, senders, guard>>

(* Mutant of JoinLead: registers without looking under the same lock.      *)
JoinLeadUnchecked(r, k) ==
    /\ role' = [role EXCEPT ![r] = "lead"]
    /\ guard' = [guard EXCEPT ![r] = k]
    /\ in_flight' = [in_flight EXCEPT ![k] = r]
    /\ senders' = senders \cup {r}
    /\ UNCHANGED waiter

(* Flights::join finds none and the request may lead: it creates the       *)
(* channel and registers its receiver under the key.                       *)
JoinLead(r, k) ==
    /\ in_flight[k] = NoFlight
    /\ role' = [role EXCEPT ![r] = "lead"]
    /\ guard' = [guard EXCEPT ![r] = k]
    /\ in_flight' = [in_flight EXCEPT ![k] = r]
    /\ senders' = senders \cup {r}
    /\ UNCHANGED waiter

(* Flights::join finds none and the request may not lead.                  *)
JoinAlone(r, k) ==
    /\ in_flight[k] = NoFlight
    /\ role' = [role EXCEPT ![r] = "alone"]
    /\ UNCHANGED <<in_flight, senders, guard, waiter>>

Join(r, k, may_lead) ==
    /\ role[r] = "new"
    /\ \/ JoinFollow(r, k)
       \/ may_lead /\ JoinLead(r, k)
       \/ ~may_lead /\ JoinAlone(r, k)

(* Mutant of RemoveKey: wakes the followers first and removes nothing.     *)
SenderBeforeKey(r) ==
    /\ role[r] = "lead"
    /\ role' = [role EXCEPT ![r] = "ending"]
    /\ senders' = senders \ {r}
    /\ UNCHANGED <<in_flight, guard, waiter>>

(* FlightGuard::drop: removes the guard's key from the map, whatever the   *)
(* map holds for it.                                                       *)
RemoveKey(r) ==
    /\ role[r] = "lead"
    /\ role' = [role EXCEPT ![r] = "ending"]
    /\ in_flight' = [in_flight EXCEPT ![guard[r]] = NoFlight]
    /\ UNCHANGED <<senders, guard, waiter>>

(* Mutant of DropSender: removes the key once more on the way out.         *)
RemoveKeyAgain(r) ==
    /\ role[r] = "ending"
    /\ role' = [role EXCEPT ![r] = "ended"]
    /\ in_flight' = [in_flight EXCEPT ![guard[r]] = NoFlight]
    /\ guard' = [guard EXCEPT ![r] = NoKey]
    /\ senders' = senders \ {r}
    /\ UNCHANGED waiter

(* Mutant of DropSender: another clone keeps the channel open.             *)
LeakSender(r) ==
    /\ role[r] = "ending"
    /\ role' = [role EXCEPT ![r] = "ended"]
    /\ guard' = [guard EXCEPT ![r] = NoKey]
    /\ UNCHANGED <<in_flight, senders, waiter>>

(* The guard's fields are dropped after its drop method has returned, and  *)
(* with them the channel's only sender.                                    *)
DropSender(r) ==
    /\ role[r] = "ending"
    /\ role' = [role EXCEPT ![r] = "ended"]
    /\ guard' = [guard EXCEPT ![r] = NoKey]
    /\ senders' = senders \ {r}
    /\ UNCHANGED <<in_flight, waiter>>

(* Waiter::wait returns: nothing is ever sent, so changed() fails exactly  *)
(* when the sender is gone.                                                *)
Wake(r) ==
    /\ role[r] = "follow"
    /\ waiter[r] \notin senders
    /\ role' = [role EXCEPT ![r] = "woken"]
    /\ UNCHANGED <<in_flight, senders, guard, waiter>>

(* wait_for_leader's timeout runs out, or the follower's client leaves and *)
(* its future is dropped.                                                  *)
GiveUp(r) ==
    /\ role[r] = "follow"
    /\ role' = [role EXCEPT ![r] = "gaveup"]
    /\ UNCHANGED <<in_flight, senders, guard, waiter>>

Next ==
    \E r \in Requests :
        \/ \E k \in Keys, may_lead \in BOOLEAN : Join(r, k, may_lead)
        \/ RemoveKey(r)
        \/ DropSender(r)
        \/ Wake(r)
        \/ GiveUp(r)

(* A guard whose drop has begun runs to its end on its thread, and a task  *)
(* whose channel is closed is scheduled.  Nothing is assumed about leaders *)
(* ending their flights or about timers.                                   *)
Fairness == \A r \in Requests : WF_vars(DropSender(r)) /\ WF_vars(Wake(r))

Spec == Init /\ [][Next]_vars /\ Fairness

-----------------------------------------------------------------------------
(* Every variable has its type.                                            *)
TypeOK ==
    /\ in_flight \in [Keys -> Requests \cup {NoFlight}]
    /\ senders \subseteq Requests
    /\ role \in [Requests -> Roles]
    /\ guard \in [Requests -> Keys \cup {NoKey}]
    /\ waiter \in [Requests -> Requests \cup {NoFlight}]

(* The first request for a key leads and the others wait: no two requests  *)
(* hold a live guard for one key, even while an earlier guard for the key  *)
(* is still being dropped (coalesce.rs, join and FlightGuard::drop).       *)
OneLeader ==
    \A r, s \in Requests :
        role[r] = "lead" /\ role[s] = "lead" /\ guard[r] = guard[s] => r = s

(* "a woken follower never finds the finished flight" (coalesce.rs, field  *)
(* _sender): once a follower's wait has returned, no key of the map leads  *)
(* to the flight it waited for.                                            *)
FinishedNotFound ==
    \A r \in Requests, k \in Keys :
        role[r] = "woken" => in_flight[k] # waiter[r]

(* A key changes hands only through the drop of its own leader's guard: a  *)
(* guard that is late in dropping never ends the flight of the request     *)
(* that leads the key next.                                                *)
OnlyOwnFlightEnds ==
    [][\A k \in Keys :
          in_flight[k] # NoFlight /\ in_flight'[k] # in_flight[k]
            => in_flight'[k] = NoFlight /\ role'[in_flight[k]] = "ending"]_vars

(* No wake-up is lost: a follower whose leader has begun to drop its guard *)
(* stops waiting, without help from its timeout, also when it cloned the   *)
(* receiver just before the drop.                                          *)
FollowersReleased ==
    \A r, f \in Requests :
        (role[r] = "follow" /\ waiter[r] = f /\ role[f] = "ending")
            ~> (role[r] # "follow")

-----------------------------------------------------------------------------
(* What the proofs add to the invariants above: the map and the guards     *)
(* describe each other, a sender lives exactly as long as its guard, and a *)
(* request waits only for flights that were led.                           *)
MapMatchesGuards ==
    /\ \A k \in Keys : in_flight[k] # NoFlight =>
          role[in_flight[k]] = "lead" /\ guard[in_flight[k]] = k
    /\ \A r \in Requests : role[r] = "lead" =>
          guard[r] \in Keys /\ in_flight[guard[r]] = r

SendersMatchGuards ==
    \A r \in Requests : r \in senders <=> role[r] \in {"lead", "ending"}

WaitersMatchFlights ==
    /\ \A r \in Requests : role[r] \in {"follow", "woken"} =>
          waiter[r] \in Requests /\ role[waiter[r]] \in {"lead", "ending", "ended"}
    /\ \A r \in Requests : role[r] = "woken" => role[waiter[r]] = "ended"

(* The inductive invariant: the map, the guards, the senders and the       *)
(* waiters describe the same flights (coalesce.rs, all of it).             *)
IInv ==
    /\ TypeOK
    /\ MapMatchesGuards
    /\ SendersMatchGuards
    /\ WaitersMatchFlights

=============================================================================
