---------------------------- MODULE FlightsProof ----------------------------
(***************************************************************************)
(* Proofs about Flights for any keys and any number of requests.           *)
(*                                                                         *)
(* OneLeader and FinishedNotFound are not inductive: a state in which the  *)
(* map names a request that holds no guard satisfies both and has a        *)
(* successor with two leaders.  IInv adds that the map, the guards, the    *)
(* senders and the waiters describe the same flights.                      *)
(***************************************************************************)
EXTENDS Flights, TLAPS

USE FlightsAssumption

(* No flight exists when Flights is created (coalesce.rs, Default).        *)
LEMMA InitIInv == Init => IInv
  BY DEF Init, IInv, TypeOK, Roles, MapMatchesGuards, SendersMatchGuards,
         WaitersMatchFlights

(* Flights::join keeps the invariant, whichever way it ends.               *)
LEMMA JoinIInv ==
    ASSUME NEW r \in Requests, NEW k \in Keys, NEW may_lead \in BOOLEAN,
           IInv, Join(r, k, may_lead)
    PROVE  IInv'
<1> USE DEF IInv
<1>0. role[r] = "new"
  BY DEF Join
<1>1. CASE JoinFollow(r, k)
  <2>1. TypeOK'
    BY <1>1 DEF JoinFollow, TypeOK, Roles
  <2>2. MapMatchesGuards'
    BY <1>0, <1>1 DEF JoinFollow, TypeOK, MapMatchesGuards
  <2>3. SendersMatchGuards'
    BY <1>0, <1>1 DEF JoinFollow, TypeOK, SendersMatchGuards
  <2>4. WaitersMatchFlights'
    \* the flight in the map has a leader, so it is not r's own
    <3>1. in_flight[k] \in Requests /\ role[in_flight[k]] = "lead"
      BY <1>1 DEF JoinFollow, TypeOK, MapMatchesGuards
    <3> QED BY <1>0, <1>1, <3>1 DEF JoinFollow, TypeOK, WaitersMatchFlights
  <2> QED BY <2>1, <2>2, <2>3, <2>4
<1>2. CASE JoinLead(r, k)
  <2>1. TypeOK'
    BY <1>2 DEF JoinLead, TypeOK, Roles
  <2>2. MapMatchesGuards'
    BY <1>0, <1>2 DEF JoinLead, TypeOK, MapMatchesGuards
  <2>3. SendersMatchGuards'
    BY <1>0, <1>2 DEF JoinLead, TypeOK, SendersMatchGuards
  <2>4. WaitersMatchFlights'
    BY <1>0, <1>2 DEF JoinLead, TypeOK, WaitersMatchFlights
  <2> QED BY <2>1, <2>2, <2>3, <2>4
<1>3. CASE JoinAlone(r, k)
  <2>1. TypeOK'
    BY <1>3 DEF JoinAlone, TypeOK, Roles
  <2>2. MapMatchesGuards'
    BY <1>0, <1>3 DEF JoinAlone, TypeOK, MapMatchesGuards
  <2>3. SendersMatchGuards'
    BY <1>0, <1>3 DEF JoinAlone, TypeOK, SendersMatchGuards
  <2>4. WaitersMatchFlights'
    BY <1>0, <1>3 DEF JoinAlone, TypeOK, WaitersMatchFlights
  <2> QED BY <2>1, <2>2, <2>3, <2>4
<1> QED BY <1>1, <1>2, <1>3 DEF Join

(* The drop method of a guard keeps it: the key it removes is the one its  *)
(* own flight is registered under.                                         *)
LEMMA RemoveKeyIInv ==
    ASSUME NEW r \in Requests, IInv, RemoveKey(r)
    PROVE  IInv'
<1> USE DEF IInv
<1>1. guard[r] \in Keys /\ in_flight[guard[r]] = r
  BY DEF RemoveKey, MapMatchesGuards
<1>2. TypeOK'
  BY DEF RemoveKey, TypeOK, Roles
<1>3. MapMatchesGuards'
  BY <1>1 DEF RemoveKey, TypeOK, MapMatchesGuards
<1>4. SendersMatchGuards'
  BY DEF RemoveKey, TypeOK, SendersMatchGuards
<1>5. WaitersMatchFlights'
  BY DEF RemoveKey, TypeOK, WaitersMatchFlights
<1> QED BY <1>2, <1>3, <1>4, <1>5

(* The drop of the guard's fields keeps it.                                *)
LEMMA DropSenderIInv ==
    ASSUME NEW r \in Requests, IInv, DropSender(r)
    PROVE  IInv'
<1> USE DEF IInv
<1>1. TypeOK'
  BY DEF DropSender, TypeOK, Roles
<1>2. MapMatchesGuards'
  BY DEF DropSender, TypeOK, MapMatchesGuards
<1>3. SendersMatchGuards'
  BY DEF DropSender, TypeOK, SendersMatchGuards
<1>4. WaitersMatchFlights'
  BY DEF DropSender, TypeOK, WaitersMatchFlights
<1> QED BY <1>1, <1>2, <1>3, <1>4

(* The end of a wait keeps it, whether the leader or the timer ended it.   *)
LEMMA WaitEndsIInv ==
    ASSUME NEW r \in Requests, IInv, Wake(r) \/ GiveUp(r)
    PROVE  IInv'
<1> USE DEF IInv
<1>1. TypeOK'
  BY DEF Wake, GiveUp, TypeOK, Roles
<1>2. MapMatchesGuards'
  BY DEF Wake, GiveUp, TypeOK, MapMatchesGuards
<1>3. SendersMatchGuards'
  BY DEF Wake, GiveUp, TypeOK, SendersMatchGuards
<1>4. WaitersMatchFlights'
  \* a flight that was led and has no sender any more has ended
  <2>1. Wake(r) => role[waiter[r]] = "ended"
    BY DEF Wake, SendersMatchGuards, WaitersMatchFlights
  <2> QED BY <2>1 DEF Wake, GiveUp, TypeOK, WaitersMatchFlights
<1> QED BY <1>1, <1>2, <1>3, <1>4

(* Every step keeps IInv.                                                  *)
LEMMA NextIInv ==
    ASSUME IInv, [Next]_vars
    PROVE  IInv'
<1>1. CASE Next
  BY <1>1, JoinIInv, RemoveKeyIInv, DropSenderIInv, WaitEndsIInv DEF Next
<1>2. CASE UNCHANGED vars
  BY <1>2 DEF vars, IInv, TypeOK, MapMatchesGuards, SendersMatchGuards,
              WaitersMatchFlights
<1> QED BY <1>1, <1>2

(* IInv holds in every reachable state of the coalescing map.              *)
THEOREM Inductive == Spec => []IInv
<1>1. IInv /\ [Next]_vars => IInv'
  BY NextIInv
<1> QED BY InitIInv, <1>1, PTL DEF Spec

(* Every variable keeps its type.                                          *)
THEOREM TypeCorrect == Spec => []TypeOK
<1>1. IInv => TypeOK
  BY DEF IInv
<1> QED BY <1>1, Inductive, PTL

(* No two requests ever lead one key (coalesce.rs, join).                  *)
THEOREM LeaderUnique == Spec => []OneLeader
<1>1. IInv => OneLeader
  BY DEF IInv, MapMatchesGuards, OneLeader
<1> QED BY <1>1, Inductive, PTL

(* A woken follower never finds the finished flight: the drop removes the  *)
(* key before it closes the channel (coalesce.rs, FlightGuard).            *)
THEOREM FinishedFlightGone == Spec => []FinishedNotFound
<1>1. IInv => FinishedNotFound
  <2> SUFFICES ASSUME IInv, NEW r \in Requests, NEW k \in Keys,
                      role[r] = "woken", in_flight[k] = waiter[r]
               PROVE  FALSE
    BY DEF FinishedNotFound
  <2>1. waiter[r] \in Requests /\ role[waiter[r]] = "ended"
    BY DEF IInv, WaitersMatchFlights
  <2>2. role[in_flight[k]] = "lead"
    BY <2>1 DEF IInv, MapMatchesGuards
  <2> QED BY <2>1, <2>2
<1> QED BY <1>1, Inductive, PTL

(* A flight ends only through the drop of its own leader's guard.          *)
THEOREM OwnFlightEnds == Spec => OnlyOwnFlightEnds
<1> DEFINE A == \A k \in Keys :
          in_flight[k] # NoFlight /\ in_flight'[k] # in_flight[k]
            => in_flight'[k] = NoFlight /\ role'[in_flight[k]] = "ending"
<1>1. IInv /\ [Next]_vars => [A]_vars
  <2> SUFFICES ASSUME IInv, Next, NEW k \in Keys,
                      in_flight[k] # NoFlight, in_flight'[k] # in_flight[k]
               PROVE  in_flight'[k] = NoFlight /\ role'[in_flight[k]] = "ending"
    BY DEF vars
  <2>1. PICK r \in Requests :
           \/ \E j \in Keys, may_lead \in BOOLEAN : Join(r, j, may_lead)
           \/ RemoveKey(r) \/ DropSender(r) \/ Wake(r) \/ GiveUp(r)
    BY DEF Next
  <2>2. CASE \E j \in Keys, may_lead \in BOOLEAN : Join(r, j, may_lead)
    \* join registers only under a key the map does not hold
    BY <2>2 DEF Join, JoinFollow, JoinLead, JoinAlone, IInv, TypeOK
  <2>3. CASE RemoveKey(r)
    <3>1. guard[r] \in Keys /\ in_flight[guard[r]] = r
      BY <2>3 DEF RemoveKey, IInv, MapMatchesGuards
    <3> QED BY <2>3, <3>1 DEF RemoveKey, IInv, TypeOK
  <2>4. CASE DropSender(r) \/ Wake(r) \/ GiveUp(r)
    BY <2>4 DEF DropSender, Wake, GiveUp
  <2> QED BY <2>1, <2>2, <2>3, <2>4
<1> QED BY <1>1, Inductive, PTL DEF Spec, OnlyOwnFlightEnds

=============================================================================
