------------------------------- MODULE MC_Broker ------------------------------
(***************************************************************************)
(* Model values for Broker: one reload and one ordinary command.           *)
(***************************************************************************)
EXTENDS Broker

CONSTANTS hup, cmd

MCRequesters == {hup, cmd}
MCReloaders == {hup}
=============================================================================
