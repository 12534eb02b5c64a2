-------------------------- MODULE MCGatewaySessions --------------------------
(* Small instances of GatewaySessions.                                     *)
EXTENDS GatewaySessions

\* Every session logs in as the same player: each login replaces the last.
SamePlayer == [s \in Sessions |-> {1}]
\* Every session has a player of its own.
OwnPlayer == [s \in Sessions |-> {s}]
\* A session may log in as any player, and later as another.
AnyPlayer == [s \in Sessions |-> Players]
=============================================================================
