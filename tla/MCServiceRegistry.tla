-------------------------- MODULE MCServiceRegistry --------------------------
(* A small instance of ServiceRegistry.                                    *)
EXTENDS ServiceRegistry

Scene(s, c, i) == [service |-> 1, scene |-> s, channel |-> c, incarnation |-> i]

\* Two processes of one scene.
OneScene == {Scene(1, c, i) : c \in {0, 1}, i \in {1, 2}}
=============================================================================
