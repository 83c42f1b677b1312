------------------------------- MODULE MCRelay --------------------------------
(* An instance of Relay: an override keeps the boot notifications at home.  *)
EXTENDS Relay, TLC
CONSTANT c1
MCOverrides == { "BootNotification" :> "local_only" }
=============================================================================
