--------------------------- MODULE MCBusSession ---------------------------
(***************************************************************************)
(* Instances of BusSession for TLC.                                        *)
(***************************************************************************)
EXTENDS BusSession, TLC

\* Session ids and incarnations are interchangeable.
Symmetry == Permutations(Session) \cup Permutations(Chan)

=============================================================================
