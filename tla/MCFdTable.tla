------------------------------ MODULE MCFdTable -----------------------------
(* Instances of FdTable and its refinement of Descriptors. *)
EXTENDS FdTable, TLC

CONSTANT NoFile

SomeVectors == {<<1>>, <<2>>, <<1, 1>>, <<2, 1>>, <<0, 1>>}
Same == Permutations(Thread) \cup Permutations(Fd)

\* To a thread the three tables are one, and each call is one step of it.
Abstract == INSTANCE Descriptors
  WITH opened <- [f \in Fd |-> IF f \in DOMAIN files THEN files[f] ELSE NoFile],
       other <- {f \in Fd : kernel[f] = "other"}
IsDescriptors == Abstract!Spec
=============================================================================
