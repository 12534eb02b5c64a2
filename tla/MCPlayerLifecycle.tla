-------------------------- MODULE MCPlayerLifecycle --------------------------
(* A small instance of PlayerLifecycle in two scenarios: one player alone   *)
(* with every bound in use, or two players who compete for a single save    *)
(* record, with fewer bindings and mutations and no restart.                *)
EXTENDS PlayerLifecycle

CONSTANTS p1, p2

VARIABLE crowded

\* Bindings 1 and 2 arrive on the first gateway connection, 3 on a new one.
Sessions == [e \in 1..MaxEpoch |-> IF e <= 2 THEN 1 ELSE 2]

InScenario ==
    IF crowded
    THEN latest[p1] <= 1 /\ latest[p2] <= 2 /\ stamp[p1] <= 1 /\ stamp[p2] <= 1 /\ restarts = 0
    ELSE latest[p2] = 0

MCInit == Init /\ crowded \in BOOLEAN
MCNext == UNCHANGED crowded /\ Next /\ InScenario'
MCSpec == MCInit /\ [][MCNext]_<<vars, crowded>> /\ Fairness
=============================================================================
