------------------------------ MODULE MCStore ------------------------------
(***************************************************************************)
(* Instances of StorePersistence for TLC.                                  *)
(***************************************************************************)
EXTENDS StorePersistence, TLC

\* Sessions and chunk ids are interchangeable.
Symmetry == Permutations(Session) \cup Permutations(Id)

=============================================================================
