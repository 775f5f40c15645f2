---------------------------- MODULE MCDispatcher ----------------------------
(* Small instances of Dispatcher for TLC. *)
EXTENDS Dispatcher

CONSTANTS s1, s2, k1

MCTwoSchedulers == <<s1, s2>>
MCOneSatellite == <<k1>>
MCTwoConfs == 0..1
MCFlavors == 1..9
=============================================================================
