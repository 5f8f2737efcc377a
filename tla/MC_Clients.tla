----------------------------- MODULE MC_Clients ------------------------------
(***************************************************************************)
(* Model values for Clients and ConfigApi.  Wide has 2..12 static and      *)
(* 13..14 dynamic; Narrow 2..4 and 5..6, so that 10 has the host bits of   *)
(* 2; Tiny is a /30 with the one address 18 and no dynamic pool.           *)
(***************************************************************************)
EXTENDS ConfigApi, TLC

CONSTANTS id1, id2, caller1, caller2

MCIds         == {id1, id2}
MCCallers     == {caller1, caller2}
Symmetry      == Permutations(MCIds) \cup Permutations(MCCallers)
MCNames       == 1..2
MCMaxOps      == [openvpn |-> 3, export |-> 3, delete |-> 4, api |-> 2]
MCMaxNetworks == [openvpn |-> 2, export |-> 2, delete |-> 2, api |-> 3]
Wide          == [base |-> 0, total |-> 16, dyn |-> 2]
Narrow        == [base |-> 0, total |-> 8, dyn |-> 2]
Tiny          == [base |-> 16, total |-> 4, dyn |-> 0]
MCConfigs     == {Wide, Narrow, Tiny}
MCAsked       == {2, 10}
==============================================================================
