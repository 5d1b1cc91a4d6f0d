------------------------------- MODULE MC_View -------------------------------
(***************************************************************************)
(* The active-controller view for TLC: two controllers, up to two changes  *)
(* of the active one (so a re-render can be overtaken by a second change) *)
(* and up to two observations per controller (so a count event can race a *)
(* re-render of the same controller).                                      *)
(***************************************************************************)
EXTENDS ActiveControllerView, TLC

CONSTANTS c1, c2, kCtrl, kAsset

\* A client id "mainForm:activeControllerObsCnt_<id>": its naming
\* container has no "_".
MCClientIdPrefix == <<"mainForm:">>
=============================================================================
