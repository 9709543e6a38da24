--------------------------- MODULE MCKeyValueStore ---------------------------
(* Instances of KeyValueStore for TLC.  The lines the database starts with  *)
(* are those of src/lab5/database.txt: two of one key, one of another.      *)
EXTENDS KeyValueStore, TLC

CONSTANTS k1, k2, v1, v2

Lines == << [key |-> k1, value |-> v1], [key |-> k1, value |-> v2],
            [key |-> k2, value |-> v1] >>

Symmetry == Permutations(Child)
=============================================================================
