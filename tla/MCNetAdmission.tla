---------------------------- MODULE MCNetAdmission ----------------------------
(* Small instances of NetAdmission.                                        *)
EXTENDS NetAdmission

Data(p, s, e, g) == [player |-> p, clientSession |-> s, epoch |-> e, gateway |-> g]

\* One player, two epochs; a second client session and a second gateway that
\* reuse an epoch.
OnePlayer == {Data(1, 1, 1, 1), Data(1, 2, 2, 1), Data(1, 3, 2, 1), Data(1, 1, 2, 2)}
AllOnOne == [p \in Players |-> 0]
=============================================================================
