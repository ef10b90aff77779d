------------------------------ MODULE KVStore ------------------------------
(***************************************************************************)
(* What the storage Engine interface promises (spec section 4.2): a map   *)
(* from keys to values in which set(k, v) makes get(k) return v and        *)
(* delete(k) makes get(k) return nothing.  Nothing else may change what    *)
(* get returns: crashes, restarts and compaction are invisible.            *)
(***************************************************************************)
CONSTANTS Keys, Vals, NoValue

ASSUME NoValue \notin Vals

VARIABLE dict

TypeOK == dict \in [Keys -> Vals \cup {NoValue}]

Init == dict = [k \in Keys |-> NoValue]

Set(k, v) == dict' = [dict EXCEPT ![k] = v]

Delete(k) == dict' = [dict EXCEPT ![k] = NoValue]

Next == \E k \in Keys : Delete(k) \/ \E v \in Vals : Set(k, v)

Spec == Init /\ [][Next]_dict
=============================================================================
