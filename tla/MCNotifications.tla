-------------------------- MODULE MCNotifications --------------------------
EXTENDS Notifications

\* One service; its escalation is for the second notification.
MCItem == {"http"}
MCAttempts == [http |-> 2]
MCImpact == [http |-> 1]
MCExit == [http |-> {0, 2}]
MCContact == {"admin", "boss"}
MCNoDep == <<>>
MCNoModulation == [i \in {} |-> <<>>]
=============================================================================
