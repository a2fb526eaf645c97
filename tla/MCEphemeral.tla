---------------------------- MODULE MCEphemeral ----------------------------
(***************************************************************************)
(* Instances of EphemeralLifecycle for TLC.                                *)
(***************************************************************************)
EXTENDS EphemeralLifecycle
=============================================================================
