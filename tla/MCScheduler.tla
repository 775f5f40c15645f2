---------------------------- MODULE MCScheduler ----------------------------
(* A host and a service that depends on it, for TLC. *)
EXTENDS Scheduler

CONSTANTS host, srv

MCItems == {host, srv}
MCDepend == [it \in MCItems |-> IF it = srv THEN {host} ELSE {}]
MCTwoIds == 0..1

=============================================================================
