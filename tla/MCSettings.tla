----------------------------- MODULE MCSettings -----------------------------
(***************************************************************************)
(* Settings on a small instance: the configurations give the constants     *)
(* their values.                                                           *)
(***************************************************************************)
EXTENDS Settings
=============================================================================
