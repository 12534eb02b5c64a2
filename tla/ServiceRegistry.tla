--------------------------- MODULE ServiceRegistry ---------------------------
(***************************************************************************)
(* The gateway's registry of backend nodes (ServiceRegistry) and the       *)
(* dispatcher's handlers that change it: a backend connection is accepted  *)
(* without an identity, gets one by its handshake, may be replaced by a    *)
(* reconnection of the same channel or by a restarted process (another     *)
(* incarnation), and is removed when it closes.                            *)
(*                                                                         *)
(* Registry calls are atomic (they hold mtx_).  A handshake is handled in  *)
(* the connection's own IO thread in two steps, Bind and then the removal  *)
(* of the connection Bind reported as replaced.  A connection name is used *)
(* once.  The zone is fixed and the gateway's identity checks (magic,      *)
(* zone, allowed services) are the membership of a handshake in Handshakes.*)
(* The round-robin counter and the registration time are left out.         *)
(***************************************************************************)
EXTENDS Integers, FiniteSets

CONSTANTS
    Conns,            \* names of backend connections, each used once
    Handshakes,       \* identities: service, scene, channel, incarnation
    PoolSize,         \* connPoolSize_
    SceneService      \* ServerID::kScene

NoConn == "none"
Identities == [service : Nat \ {0}, scene : Nat, channel : 0..(PoolSize - 1), incarnation : Nat]

\* ValidBackendHandshake.
Valid(h) ==
    IF h.service = SceneService THEN h.scene # 0 /\ h.incarnation # 0
    ELSE h.scene = 0 /\ h.incarnation = 0 /\ h.channel = 0

ASSUME NamesAssumption == NoConn \notin Conns
ASSUME PoolAssumption == PoolSize \in Nat \ {0}
ASSUME HandshakesAssumption == Handshakes \subseteq Identities /\ \A h \in Handshakes : Valid(h)

VARIABLES
    tcp,          \* the connection: "new", "open", "closing", "closed"
    pending,      \* pendingConn_: names without identity
    byName,       \* byName_: name -> identity, Demoted, or Absent
    pools,        \* backendConnPools_: key -> incarnation and channels
    byInstance,   \* byInstance_
    byService,    \* byService_
    replaced      \* the handshake under way: the connection to close, per IO thread

registry == <<pending, byName, pools, byInstance, byService>>
registryVars == <<tcp, registry, replaced>>

Absent == [service |-> -1, scene |-> 0, channel |-> 0, incarnation |-> 0]
Demoted == [service |-> 0, scene |-> 0, channel |-> 0, incarnation |-> 0]

Key(h) == [service |-> h.service, scene |-> h.scene]
Keys == {Key(h) : h \in Handshakes}
ServiceIds == {h.service : h \in Handshakes}
Registered(n) == byName[n].service > 0

EmptySlot == [name |-> NoConn, incarnation |-> 0]

\* The Ready channels of pool k; a channel is Ready exactly while it has a name.
ReadyChannels(k) == {i \in DOMAIN pools[k].channels : pools[k].channels[i].name # NoConn}

\* SelectByScene and GetPool: the connections a request for k may be sent on.
Selectable(k) ==
    {pools[k].channels[i].name : i \in
       {j \in ReadyChannels(k) : \/ pools[k].incarnation = 0
                                 \/ pools[k].channels[j].incarnation = pools[k].incarnation}}

RegistryInit ==
    /\ tcp = [n \in Conns |-> "new"]
    /\ pending = {}
    /\ byName = [n \in Conns |-> Absent]
    /\ pools = [k \in Keys |-> [incarnation |-> 0,
                                channels |-> [i \in 0..(PoolSize - 1) |-> EmptySlot]]]
    /\ byInstance = [k \in Keys |-> NoConn]
    /\ byService = [s \in ServiceIds |-> NoConn]
    /\ replaced = [n \in Conns |-> NoConn]

\* OnBackendConnected and AddPending.
Accept(n) ==
    /\ tcp[n] = "new"
    /\ tcp' = [tcp EXCEPT ![n] = "open"]
    /\ pending' = pending \cup {n}
    /\ UNCHANGED <<byName, pools, byInstance, byService, replaced>>

-----------------------------------------------------------------------------
(* Bind.                                                                   *)

\* Mutant: a restarted process only takes over its own channel.
NewProcessNever(h) == FALSE

\* A handshake of another process than the one whose channels are Ready.
NewProcess(h) ==
    LET old == pools[Key(h)].incarnation IN
    h.incarnation # 0 /\ old # 0 /\ h.incarnation # old

\* The channels Bind empties: all of an older process, or the one it takes over.
Evicted(h) ==
    IF NewProcess(h) THEN ReadyChannels(Key(h)) ELSE ReadyChannels(Key(h)) \cap {h.channel}

\* The connections of those channels: they lose their identity.
Losers(h) == {pools[Key(h)].channels[i].name : i \in Evicted(h)}

\* The one of them Bind reports: the first.
FirstLoser(h) ==
    LET k == Key(h) IN
    IF Evicted(h) = {} THEN NoConn
    ELSE pools[k].channels[CHOOSE i \in Evicted(h) : \A j \in Evicted(h) : i <= j].name

Bind(n, h) ==
    LET k == Key(h) IN
    /\ byName' = [m \in Conns |-> IF m = n THEN h ELSE IF m \in Losers(h) THEN Demoted ELSE byName[m]]
    /\ pools' = [pools EXCEPT ![k] =
                   [incarnation |-> h.incarnation,
                    channels |-> [i \in DOMAIN pools[k].channels |->
                       IF i = h.channel THEN [name |-> n, incarnation |-> h.incarnation]
                       ELSE IF i \in Evicted(h) THEN EmptySlot
                       ELSE pools[k].channels[i]]]]
    /\ pending' = pending \ {n}
    /\ byInstance' = [byInstance EXCEPT ![k] = n]
    /\ byService' = [byService EXCEPT ![h.service] = n]

\* The handshake frame: Bind; a connection that is not pending is closed.
Handshake(n, h) ==
    /\ tcp[n] \in {"open", "closing"} /\ replaced[n] = NoConn
    /\ IF n \in pending
       THEN /\ Bind(n, h)
            /\ replaced' = [replaced EXCEPT ![n] = FirstLoser(h)]
            /\ UNCHANGED tcp
       ELSE tcp' = [tcp EXCEPT ![n] = "closing"] /\ UNCHANGED <<registry, replaced>>

-----------------------------------------------------------------------------
(* RemoveByName.                                                           *)

\* An index entry that named n may name any of the others, if there are any.
Repoint(entry, n, others) ==
    IF entry # n THEN {entry} ELSE IF others = {} THEN {NoConn} ELSE others

OfInstance(k, n) == {m \in Conns \ {n} : Key(byName[m]) = k}
OfService(s, n) == {m \in Conns \ {n} : byName[m].service = s}

\* The pool without n: it forgets its incarnation with its last channel.
WithoutChannel(pool, n) ==
    LET left == [i \in DOMAIN pool.channels |->
                   IF pool.channels[i].name = n THEN EmptySlot ELSE pool.channels[i]]
        active == \E i \in DOMAIN left :
                    left[i].name # NoConn /\ left[i].incarnation = pool.incarnation
    IN [incarnation |-> IF active THEN pool.incarnation ELSE 0, channels |-> left]

RemoveByName(n) ==
    LET e == byName[n]
        k == Key(e)
    IN
    /\ pending' = pending \ {n}
    /\ IF n \in pending THEN UNCHANGED byName ELSE byName' = [byName EXCEPT ![n] = Absent]
    /\ IF n \notin pending /\ Registered(n)
       THEN /\ pools' = IF pools[k].channels[e.channel].name = n
                        THEN [pools EXCEPT ![k] = WithoutChannel(@, n)] ELSE pools
            /\ \E m \in Repoint(byInstance[k], n, OfInstance(k, n)) :
                 byInstance' = [byInstance EXCEPT ![k] = m]
            /\ \E m \in Repoint(byService[e.service], n, OfService(e.service, n)) :
                 byService' = [byService EXCEPT ![e.service] = m]
       ELSE UNCHANGED <<pools, byInstance, byService>>

ForceClose(m) == tcp' = IF tcp[m] = "open" THEN [tcp EXCEPT ![m] = "closing"] ELSE tcp

\* The handshake's second step: the connection Bind reported is removed, and
\* closed unless its own close was first.
CloseReplaced(n) ==
    LET old == replaced[n] IN
    /\ old # NoConn
    /\ IF byName[old] # Absent \/ old \in pending
       THEN RemoveByName(old) /\ ForceClose(old)
       ELSE UNCHANGED <<registry, tcp>>
    /\ replaced' = [replaced EXCEPT ![n] = NoConn]

\* A frame other than a handshake closes a connection that has no identity.
BusinessFrame(n) ==
    /\ tcp[n] = "open" /\ replaced[n] = NoConn
    /\ ~Registered(n)
    /\ ForceClose(n)
    /\ UNCHANGED <<registry, replaced>>

\* OnBackendClosed.
Closed(n) ==
    /\ tcp[n] \in {"open", "closing"} /\ replaced[n] = NoConn
    /\ tcp' = [tcp EXCEPT ![n] = "closed"]
    /\ RemoveByName(n)
    /\ UNCHANGED replaced

\* Every connection has come and gone.
AllClosed == (\A n \in Conns : tcp[n] = "closed") /\ UNCHANGED registryVars

RegistryNext ==
    \/ \E n \in Conns : \/ Accept(n) \/ CloseReplaced(n) \/ BusinessFrame(n) \/ Closed(n)
                        \/ \E h \in Handshakes : Handshake(n, h)
    \/ AllClosed

RegistrySpec == RegistryInit /\ [][RegistryNext]_registryVars

-----------------------------------------------------------------------------
(* Properties.                                                             *)

Channels == 0..(PoolSize - 1)
ChannelSlots == [name : Conns \cup {NoConn}, incarnation : Nat]
Pools == [incarnation : Nat, channels : [Channels -> ChannelSlots]]

\* Every variable has the shape the code's structures give it, and the maps
\* of pending and of named connections share no name.
RegistryTypes ==
    /\ tcp \in [Conns -> {"new", "open", "closing", "closed"}]
    /\ pending \subseteq {n \in Conns : byName[n] = Absent}
    /\ byName \in [Conns -> Handshakes \cup {Absent, Demoted}]
    /\ pools \in [Keys -> Pools]
    /\ byInstance \in [Keys -> Conns \cup {NoConn}]
    /\ byService \in [ServiceIds -> Conns \cup {NoConn}]
    /\ replaced \in [Conns -> Conns \cup {NoConn}]

\* The channels and the names say the same: a connection has an identity in
\* byName_ exactly if it holds that channel of that pool, with that
\* incarnation.  SelectByScene answers from one and GetByChannel from the other.
ChannelsMatchNames ==
    /\ \A n \in Conns : Registered(n) =>
         pools[Key(byName[n])].channels[byName[n].channel]
           = [name |-> n, incarnation |-> byName[n].incarnation]
    /\ \A k \in Keys : \A i \in ReadyChannels(k) :
         LET slot == pools[k].channels[i] IN
         byName[slot.name] = [service |-> k.service, scene |-> k.scene, channel |-> i,
                              incarnation |-> slot.incarnation]

\* Channels of two processes of a scene are never selectable together, and
\* every Ready channel is selectable.
OneIncarnation ==
    \A k \in Keys : Selectable(k) = {pools[k].channels[i].name : i \in ReadyChannels(k)}

\* The reason: the Ready channels of a pool are of the pool's own process.
OneProcess ==
    \A k \in Keys : \A i \in ReadyChannels(k) : pools[k].channels[i].incarnation = pools[k].incarnation

\* GetByService and byInstance_ find a registered connection of the service
\* (of the instance) whenever there is one: removals and replacements never
\* leave an entry that names a connection that lost its identity.
IndexesLead ==
    /\ \A k \in Keys :
         IF ReadyChannels(k) = {} THEN byInstance[k] = NoConn
         ELSE byInstance[k] # NoConn /\ Key(byName[byInstance[k]]) = k
    /\ \A s \in ServiceIds :
         IF \E n \in Conns : byName[n].service = s
         THEN byService[s] # NoConn /\ byName[byService[s]].service = s
         ELSE byService[s] = NoConn

\* A closed connection leaves nothing behind.
ClosedIsForgotten ==
    \A n \in Conns : tcp[n] = "closed" => n \notin pending /\ byName[n] = Absent

\* A connection name is unknown before it is accepted.
NewIsUnknown ==
    \A n \in Conns : tcp[n] = "new" => n \notin pending /\ byName[n] = Absent

\* A connection that was replaced is closed, or about to be by the handler
\* that replaced it.
ReplacedIsClosed ==
    \A n \in Conns : byName[n] = Demoted =>
      tcp[n] # "open" \/ \E m \in Conns : replaced[m] = n

\* The registry's tables agree: types, every channel with the connection it
\* names and back, the channels of a pool with each other (one incarnation),
\* the two indexes with the pools, and nothing known of a connection before it
\* is accepted or after it is closed.  The invariant is inductive.
RegistryInv ==
    /\ RegistryTypes
    /\ ChannelsMatchNames
    /\ OneIncarnation
    /\ OneProcess
    /\ IndexesLead
    /\ ClosedIsForgotten
    /\ NewIsUnknown
=============================================================================
