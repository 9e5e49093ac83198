------------------------------ MODULE KeyedMap ------------------------------
(***************************************************************************)
(* What a Hamt promises its clients: a map from keys to values in which    *)
(* an operation on one key never touches another, with the errors of       *)
(* imhamt/src/operation.rs, or a panic that changes nothing.  did is the   *)
(* last operation, its key and what it answered.                           *)
(***************************************************************************)
CONSTANTS
    Keys, Vals,
    Clashes     \* for every key, the sets of other keys that may make it panic

VARIABLES map, did

Init == map = << >> /\ did = [op |-> "none"]

Answer(op, k, out) == did' = [op |-> op, k |-> k, out |-> out]

Put(k, v) == map' = [x \in DOMAIN map \cup {k} |-> IF x = k THEN v ELSE map[x]]
Drop(k) == map' = [x \in DOMAIN map \ {k} |-> map[x]]

Clashing(k) == \E S \in Clashes[k] : S \subseteq DOMAIN map

Panic(op, k) ==
    Answer(op, k, "panic") /\ k \notin DOMAIN map /\ Clashing(k) /\ UNCHANGED map

Insert(k, v) ==
    \/ Answer("insert", k, "none") /\ k \notin DOMAIN map /\ Put(k, v)
    \/ Answer("insert", k, "EntryExists") /\ k \in DOMAIN map /\ UNCHANGED map

Missing(op, k) ==
    Answer(op, k, "KeyNotFound") /\ k \notin DOMAIN map /\ UNCHANGED map

Remove(k) ==
    \/ Missing("remove", k)
    \/ Answer("remove", k, "none") /\ k \in DOMAIN map /\ Drop(k)

RemoveMatch(k, v) ==
    \/ Missing("remove_match", k)
    \/ /\ Answer("remove_match", k, "none")
       /\ k \in DOMAIN map /\ map[k] = v /\ Drop(k)
    \/ /\ Answer("remove_match", k, "ValueNotMatching")
       /\ k \in DOMAIN map /\ map[k] # v /\ UNCHANGED map

Replace(k, v) ==
    \/ Missing("replace", k)
    \/ Answer("replace", k, "none") /\ k \in DOMAIN map /\ Put(k, v)

\* The callback of an update stores a value, deletes the key or fails.
Update(k) ==
    \/ Missing("update", k)
    \/ /\ Answer("update", k, "none")
       /\ k \in DOMAIN map
       /\ Drop(k) \/ \E v \in Vals : Put(k, v)
    \/ /\ Answer("update", k, "ValueCallbackError")
       /\ k \in DOMAIN map /\ UNCHANGED map

InsertOrUpdate(k, v) ==
    /\ Answer("insert_or_update", k, "none")
    /\ \/ k \notin DOMAIN map /\ Put(k, v)
       \/ k \in DOMAIN map /\ (Drop(k) \/ \E w \in Vals : Put(k, w))

Rebuild ==
    /\ did' \in [op : {"from_iter"}, out : {"none", "panic"}]
    /\ did'.out = "panic" => \E k \in DOMAIN map : Clashing(k)
    /\ UNCHANGED map

Operations == {"insert", "remove", "remove_match", "replace", "update", "insert_or_update"}

Next ==
    \/ \E k \in Keys :
        \/ \E op \in Operations : Panic(op, k)
        \/ Remove(k)
        \/ Update(k)
        \/ \E v \in Vals : \/ Insert(k, v)
                           \/ RemoveMatch(k, v)
                           \/ Replace(k, v)
                           \/ InsertOrUpdate(k, v)
    \/ Rebuild

Spec == Init /\ [][Next]_<<map, did>>
=============================================================================
