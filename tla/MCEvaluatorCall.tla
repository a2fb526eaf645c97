--------------------------- MODULE MCEvaluatorCall ---------------------------
(***************************************************************************)
(* Instances of EvaluatorCall alone for TLC.                               *)
(***************************************************************************)
EXTENDS EvaluatorCall
=============================================================================
