------------------------------- MODULE MCRelay -------------------------------
(***************************************************************************)
(* A session of a few packets for TLC.                                     *)
(***************************************************************************)
EXTENDS Relay
=============================================================================
