-------------------------- MODULE MC_RuntimeControl --------------------------
(***************************************************************************)
(* Model values for RuntimeControl.                                        *)
(***************************************************************************)
EXTENDS RuntimeControl

CONSTANTS a1, a2, x, y

MCAppliers == {a1, a2}
MCConfigs == {x, y}
=============================================================================
