------------------------------ MODULE MCStore ------------------------------
(* Small instances of Store. *)
EXTENDS Store, TLC

CONSTANTS h1, h2, v1, v2, t1, t2

Unvaried == <<>>
VaryOne == {Unvaried, <<h1>>}
VaryTwo == {<<h1>>, <<h2>>}

(* every task has a thread of its own, or all share one *)
Parallel == [t \in Tasks |-> t]
OneThread == [t \in Tasks |-> t1]
(* values and field names are alike, and tasks too: all share a thread or none do *)
StoreSymmetry ==
    Permutations(Tasks) \cup Permutations(Value) \cup Permutations(Header)
=============================================================================
