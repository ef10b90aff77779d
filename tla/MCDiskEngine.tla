---------------------------- MODULE MCDiskEngine ----------------------------
(* Model of DiskEngine for TLC: two keys, a one-cell and a two-cell value, *)
(* so that a torn value can be cut inside the value.                       *)
EXTENDS DiskEngine

MCKeys == {1, 2}
MCVals == {"a", "bb"}
MCValLen == [v \in MCVals |-> IF v = "a" THEN 1 ELSE 2]
=============================================================================
