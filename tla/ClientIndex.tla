----------------------------- MODULE ClientIndex -----------------------------
(***************************************************************************)
(* GatewayClientIndex: which gateway connection of the scene server        *)
(* carries which player's binding, and the last binding ever accepted for  *)
(* each player.  The index is a record                                     *)
(*   latest : player -> binding, or NoData   (latest_, never forgotten)    *)
(*   route  : player -> connection, or 0     (connectionByPlayer_)         *)
(*   byConn : connection -> set of bindings  (byConnection_)               *)
(* and a binding (ClientData) is a record with fields player,              *)
(* clientSession, epoch and gateway.  The scene id is left out: onFrame    *)
(* refuses every envelope of another scene before it asks the index.       *)
(***************************************************************************)
EXTENDS Integers

NoData == [player |-> 0, clientSession |-> 0, epoch |-> 0, gateway |-> 0]

EmptyIndex(players, connections) ==
    [latest |-> [p \in players |-> NoData],
     route |-> [p \in players |-> 0],
     byConn |-> [c \in connections |-> {}]]

\* Mutant: Bind accepts the latest binding again after it was unbound.
BindableAgain(x, c, d) ==
    LET old == x.latest[d.player] IN
    \/ old = NoData
    \/ old.gateway = d.gateway /\ (d.epoch > old.epoch \/ old = d)

\* Bind: may connection c carry binding d now?
Bindable(x, c, d) ==
    LET old == x.latest[d.player] IN
    \/ old = NoData
    \/ /\ old.gateway = d.gateway
       /\ \/ d.epoch > old.epoch
          \/ old = d /\ x.route[d.player] = c

Matches(x, c, d) == d \in x.byConn[c]

\* Bind's effect: the player leaves the connection that carried it.
Bind(x, c, d) ==
    [latest |-> [x.latest EXCEPT ![d.player] = d],
     route |-> [x.route EXCEPT ![d.player] = c],
     byConn |-> [y \in DOMAIN x.byConn |->
                   LET rest == {b \in x.byConn[y] : b.player # d.player} IN
                   IF y = c THEN rest \cup {d} ELSE rest]]

Unbind(x, c, d) ==
    [x EXCEPT !.byConn[c] = @ \ {d}, !.route[d.player] = 0]

\* Close: connection c carries nobody any more.
CloseIndex(x, c) ==
    [x EXCEPT !.byConn[c] = {},
              !.route = [p \in DOMAIN @ |-> IF \E d \in x.byConn[c] : d.player = p THEN 0 ELSE @[p]]]
=============================================================================
