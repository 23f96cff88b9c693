----------------------------- MODULE MCDataStore -----------------------------
(***************************************************************************)
(* Instances of DataStore.                                                 *)
(***************************************************************************)
EXTENDS DataStore, TLC

\* stripes alternate between the instances i0 and i1
CONSTANTS i0, i1
MCHome == [id \in Ids |-> IF id % 2 = 0 THEN i0 ELSE i1]

Symmetry == Permutations(Proc)

\* for properties that do not read the history variables
NoHistory == <<redis, call>>
=============================================================================
