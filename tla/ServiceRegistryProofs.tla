------------------------ MODULE ServiceRegistryProofs ------------------------
(***************************************************************************)
(* Proofs about ServiceRegistry, for any connections, any valid handshakes *)
(* and any pool size.                                                      *)
(***************************************************************************)
EXTENDS ServiceRegistry, TLAPS, WellFoundedInduction

\* What the handshakes and their keys are.
LEMMA HandshakeFacts ==
    /\ \A h \in Handshakes :
         /\ Key(h) \in Keys /\ h.service \in ServiceIds /\ h.channel \in Channels /\ h.incarnation \in Nat
         /\ h.service \in Nat /\ h.service > 0 /\ Valid(h)
         /\ h = [service |-> h.service, scene |-> h.scene, channel |-> h.channel, incarnation |-> h.incarnation]
         /\ h # Absent /\ h # Demoted
    /\ \A s \in ServiceIds : s \in Nat /\ s > 0
    /\ \A k \in Keys : k.service \in ServiceIds /\ k.service > 0
    /\ Key(Absent) \notin Keys /\ Key(Demoted) \notin Keys
    /\ Absent.service = -1 /\ Demoted.service = 0
<1>1. \A h \in Handshakes :
         /\ h.channel \in Channels /\ h.incarnation \in Nat /\ h.service \in Nat /\ h.service > 0 /\ Valid(h)
         /\ h = [service |-> h.service, scene |-> h.scene, channel |-> h.channel, incarnation |-> h.incarnation]
  BY HandshakesAssumption DEF Identities, Channels
<1>2. \A h \in Handshakes : Key(h) \in Keys /\ h.service \in ServiceIds
  BY DEF Keys, ServiceIds
<1>3. Absent.service = -1 /\ Demoted.service = 0
  BY DEF Absent, Demoted
<1>4. \A h \in Handshakes : h # Absent /\ h # Demoted
  BY <1>1, <1>3
<1>5. \A s \in ServiceIds : s \in Nat /\ s > 0
  BY <1>1 DEF ServiceIds
<1>6. \A k \in Keys : k.service \in ServiceIds
  BY <1>2 DEF Keys, Key
<1>7. Key(Absent).service = -1 /\ Key(Demoted).service = 0
  BY <1>3 DEF Key
<1>8. Key(Absent) \notin Keys /\ Key(Demoted) \notin Keys
  BY <1>5, <1>6, <1>7
<1> QED
  BY <1>1, <1>2, <1>3, <1>4, <1>5, <1>6, <1>8

\* A connection is registered exactly if its name has a handshake's identity.
LEMMA NameFacts ==
    ASSUME RegistryTypes
    PROVE  \A n \in Conns : /\ byName[n] \in Handshakes \/ byName[n] = Absent \/ byName[n] = Demoted
                            /\ Registered(n) <=> byName[n] \in Handshakes
BY HandshakeFacts DEF RegistryTypes, Registered

\* Channels of the pool's own process are all selectable.
LEMMA ProcessFacts == ASSUME OneProcess PROVE OneIncarnation
BY DEF OneProcess, OneIncarnation, Selectable

\* A Ready channel has a slot with the name of a registered connection.
LEMMA ReadyFacts ==
    ASSUME RegistryTypes
    PROVE  \A k \in Keys :
             /\ pools[k] \in Pools /\ pools[k].channels \in [Channels -> ChannelSlots] /\ pools[k].incarnation \in Nat
             /\ \A i : i \in ReadyChannels(k) <=> i \in Channels /\ pools[k].channels[i].name # NoConn
             /\ \A i \in ReadyChannels(k) : /\ pools[k].channels[i].name \in Conns
                                            /\ pools[k].channels[i].incarnation \in Nat
<1> SUFFICES ASSUME NEW k \in Keys
             PROVE  /\ pools[k] \in Pools /\ pools[k].channels \in [Channels -> ChannelSlots] /\ pools[k].incarnation \in Nat
                    /\ \A i : i \in ReadyChannels(k) <=> i \in Channels /\ pools[k].channels[i].name # NoConn
                    /\ \A i \in ReadyChannels(k) : /\ pools[k].channels[i].name \in Conns
                                                   /\ pools[k].channels[i].incarnation \in Nat
  OBVIOUS
<1>1. pools[k] \in Pools
  BY DEF RegistryTypes
<1>2. pools[k].channels \in [Channels -> ChannelSlots] /\ pools[k].incarnation \in Nat
  BY <1>1 DEF Pools
<1>3. \A i : i \in ReadyChannels(k) <=> i \in Channels /\ pools[k].channels[i].name # NoConn
  BY <1>2 DEF ReadyChannels
<1>4. \A i \in ReadyChannels(k) : pools[k].channels[i] \in ChannelSlots
  BY <1>2, <1>3
<1> QED
  BY <1>1, <1>2, <1>3, <1>4 DEF ChannelSlots

\* The connection of a Ready channel has the identity of that channel.
LEMMA MatchFacts ==
    ASSUME RegistryTypes, ChannelsMatchNames, NEW k \in Keys, NEW i \in ReadyChannels(k),
           NEW m, m = pools[k].channels[i].name
    PROVE  /\ m \in Conns /\ byName[m] \in Handshakes /\ Registered(m)
           /\ Key(byName[m]) = k /\ byName[m].service = k.service /\ byName[m].channel = i
           /\ byName[m].incarnation = pools[k].channels[i].incarnation
<1>1. m \in Conns
  BY ReadyFacts
<1>2. byName[m] = [service |-> k.service, scene |-> k.scene, channel |-> i,
                   incarnation |-> pools[k].channels[i].incarnation]
  BY DEF ChannelsMatchNames
<1>3. /\ byName[m].service = k.service /\ byName[m].scene = k.scene /\ byName[m].channel = i
      /\ byName[m].incarnation = pools[k].channels[i].incarnation
  BY <1>2
<1>4. Registered(m)
  BY <1>3, HandshakeFacts DEF Registered
<1>5. k = [service |-> k.service, scene |-> k.scene]
  BY DEF Keys, Key
<1> QED
  BY <1>1, <1>3, <1>4, <1>5, NameFacts DEF Key

\* And the channel of a registered connection has its name.
LEMMA HolderFacts ==
    ASSUME RegistryTypes, ChannelsMatchNames, NEW m \in Conns, Registered(m)
    PROVE  /\ byName[m] \in Handshakes /\ Key(byName[m]) \in Keys
           /\ byName[m].channel \in ReadyChannels(Key(byName[m]))
           /\ pools[Key(byName[m])].channels[byName[m].channel] = [name |-> m, incarnation |-> byName[m].incarnation]
<1>1. byName[m] \in Handshakes /\ Key(byName[m]) \in Keys /\ byName[m].channel \in Channels
  BY NameFacts, HandshakeFacts
<1>2. pools[Key(byName[m])].channels[byName[m].channel] = [name |-> m, incarnation |-> byName[m].incarnation]
  BY DEF ChannelsMatchNames
<1>3. pools[Key(byName[m])].channels[byName[m].channel].name = m /\ m # NoConn
  BY <1>2, NamesAssumption
<1> QED
  BY <1>1, <1>2, <1>3, ReadyFacts

\* A step that changes no pool and no index, and takes no identity away.
LEMMA QuietInv ==
    ASSUME RegistryInv, RegistryTypes', UNCHANGED <<pools, byInstance, byService>>,
           \A m \in Conns : byName'[m] = byName[m] \/ (~Registered(m) /\ byName'[m] = Absent),
           \A m \in Conns : tcp'[m] \in {"new", "closed"} => m \notin pending' /\ byName'[m] = Absent
    PROVE  RegistryInv'
<1>1. RegistryTypes /\ ChannelsMatchNames /\ OneProcess /\ IndexesLead
  BY DEF RegistryInv
<1>2. \A m \in Conns : Registered(m) => byName'[m] = byName[m] /\ Registered(m)'
  BY DEF Registered
<1>3. \A m \in Conns : Registered(m)' => byName'[m] = byName[m] /\ Registered(m)
  BY HandshakeFacts DEF Registered
<1>4. \A k \in Keys : ReadyChannels(k)' = ReadyChannels(k)
  BY DEF ReadyChannels
<1>5. \A k \in Keys : \A i \in ReadyChannels(k) :
         /\ pools[k].channels[i].name \in Conns /\ Registered(pools[k].channels[i].name)
  BY <1>1, MatchFacts
<1>6. ChannelsMatchNames'
  <2>1. ASSUME NEW m \in Conns, Registered(m)'
        PROVE  pools'[Key(byName'[m])].channels[byName'[m].channel] = [name |-> m, incarnation |-> byName'[m].incarnation]
    BY <1>1, <1>3, <2>1 DEF ChannelsMatchNames
  <2>2. ASSUME NEW k \in Keys, NEW i \in ReadyChannels(k)'
        PROVE  byName'[pools'[k].channels[i].name] =
                 [service |-> k.service, scene |-> k.scene, channel |-> i, incarnation |-> pools'[k].channels[i].incarnation]
    BY <1>1, <1>2, <1>4, <1>5, <2>2 DEF ChannelsMatchNames
  <2> QED
    BY <2>1, <2>2 DEF ChannelsMatchNames
<1>7. OneProcess'
  BY <1>1, <1>4 DEF OneProcess
<1>8. IndexesLead'
  <2>1. ASSUME NEW k \in Keys
        PROVE  IF ReadyChannels(k)' = {} THEN byInstance'[k] = NoConn
               ELSE byInstance'[k] # NoConn /\ Key(byName'[byInstance'[k]]) = k
    <3>1. CASE ReadyChannels(k) = {}
      BY <1>1, <1>4, <3>1 DEF IndexesLead
    <3>2. CASE ReadyChannels(k) # {}
      <4> DEFINE m == byInstance[k]
      <4>1. m \in Conns /\ m # NoConn /\ Key(byName[m]) = k
        BY <1>1, <3>2 DEF IndexesLead, RegistryTypes
      <4>2. Registered(m)
        BY <1>1, <4>1, NameFacts, HandshakeFacts
      <4> QED
        BY <1>2, <1>4, <3>2, <4>1, <4>2
    <3> QED
      BY <3>1, <3>2
  <2>2. ASSUME NEW s \in ServiceIds
        PROVE  IF \E n \in Conns : byName'[n].service = s
               THEN byService'[s] # NoConn /\ byName'[byService'[s]].service = s
               ELSE byService'[s] = NoConn
    <3>1. \A n \in Conns : byName'[n].service = s <=> byName[n].service = s
      BY <1>2, <1>3, HandshakeFacts DEF Registered
    <3>2. byService[s] \in Conns \cup {NoConn}
      BY <1>1 DEF RegistryTypes
    <3> QED
      BY <1>1, <3>1, <3>2 DEF IndexesLead
  <2> QED
    BY <2>1, <2>2 DEF IndexesLead
<1> QED
  BY <1>6, <1>7, <1>8, ProcessFacts DEF RegistryInv, ClosedIsForgotten, NewIsUnknown, OneIncarnation, OneProcess,
     Selectable, ReadyChannels


\* RemoveByName of a connection without an identity.
LEMMA RemoveUnknownInv ==
    ASSUME RegistryInv, NEW n \in Conns, RemoveByName(n), ~Registered(n),
           tcp' \in [Conns -> {"new", "open", "closing", "closed"}], replaced' \in [Conns -> Conns \cup {NoConn}],
           \A m \in Conns : tcp'[m] = "new" => tcp[m] = "new",
           \A m \in Conns : tcp'[m] = "closed" => tcp[m] = "closed" \/ m = n
    PROVE  RegistryInv'
<1>1. RegistryTypes /\ ClosedIsForgotten /\ NewIsUnknown
  BY DEF RegistryInv
<1>2. /\ pending' = pending \ {n} /\ UNCHANGED <<pools, byInstance, byService>>
      /\ IF n \in pending THEN byName' = byName ELSE byName' = [byName EXCEPT ![n] = Absent]
  BY DEF RemoveByName
<1>3. \A m \in Conns : byName'[m] = byName[m] \/ (m = n /\ byName'[m] = Absent)
  BY <1>1, <1>2 DEF RegistryTypes
<1>4. byName'[n] = Absent
  BY <1>1, <1>2 DEF RegistryTypes
<1>5. RegistryTypes'
  BY <1>1, <1>2, <1>3 DEF RegistryTypes
<1>6. \A m \in Conns : tcp'[m] \in {"new", "closed"} => m \notin pending' /\ byName'[m] = Absent
  BY <1>1, <1>2, <1>3, <1>4 DEF ClosedIsForgotten, NewIsUnknown
<1> QED
  BY <1>2, <1>3, <1>5, <1>6, QuietInv

\* RemoveByName of a registered connection: its channel is emptied, and an
\* index entry that named it moves to another connection if there is one.
LEMMA RemoveRegisteredInv ==
    ASSUME RegistryInv, NEW n \in Conns, RemoveByName(n), Registered(n),
           tcp' \in [Conns -> {"new", "open", "closing", "closed"}], replaced' \in [Conns -> Conns \cup {NoConn}],
           \A m \in Conns : tcp'[m] = "new" => tcp[m] = "new",
           \A m \in Conns : tcp'[m] = "closed" => tcp[m] = "closed" \/ m = n
    PROVE  RegistryInv'
<1>1. RegistryTypes /\ ChannelsMatchNames /\ OneProcess /\ IndexesLead /\ ClosedIsForgotten /\ NewIsUnknown
  BY DEF RegistryInv
<1>0. PICK e : e = byName[n]
  OBVIOUS
<1> DEFINE k == Key(e)
           c == e.channel
<1>2. /\ e \in Handshakes /\ k \in Keys /\ c \in ReadyChannels(k)
      /\ pools[k].channels[c] = [name |-> n, incarnation |-> e.incarnation]
  BY <1>0, <1>1, HolderFacts
<1>3. n \notin pending /\ e.service \in ServiceIds /\ c \in Channels /\ e.service = k.service
  BY <1>0, <1>1, <1>2, HandshakeFacts DEF RegistryTypes, Key
<1>4. PICK x \in Repoint(byInstance[k], n, OfInstance(k, n)) : byInstance' = [byInstance EXCEPT ![k] = x]
  BY <1>0, <1>3 DEF RemoveByName
<1>5. PICK y \in Repoint(byService[e.service], n, OfService(e.service, n)) : byService' = [byService EXCEPT ![e.service] = y]
  BY <1>0, <1>3 DEF RemoveByName
<1>6. /\ byName' = [byName EXCEPT ![n] = Absent] /\ pending' = pending
      /\ pools' = [pools EXCEPT ![k] = WithoutChannel(pools[k], n)]
  BY <1>0, <1>2, <1>3 DEF RemoveByName
<1> DEFINE w == WithoutChannel(pools[k], n)
<1> HIDE DEF k, c, w
<1>7. /\ pools[k] \in Pools /\ pools[k].channels \in [Channels -> ChannelSlots] /\ pools[k].incarnation \in Nat
  BY <1>1, <1>2, ReadyFacts
<1>8. \A i \in Channels : pools[k].channels[i].name = n <=> i = c
  <2> SUFFICES ASSUME NEW i \in Channels, pools[k].channels[i].name = n PROVE i = c
    BY <1>2
  <2>1. i \in ReadyChannels(k)
    BY <1>1, <1>2, ReadyFacts, NamesAssumption
  <2> QED
    BY <1>0, <1>1, <1>2, <2>1, MatchFacts DEF c
<1>9. /\ w.channels = [i \in Channels |-> IF i = c THEN EmptySlot ELSE pools[k].channels[i]]
      /\ w.incarnation \in {pools[k].incarnation, 0}
      /\ (\E i \in Channels : i # c /\ pools[k].channels[i].name # NoConn) => w.incarnation = pools[k].incarnation
      /\ w = [incarnation |-> w.incarnation, channels |-> w.channels]
  <2> DEFINE left == [i \in DOMAIN pools[k].channels |->
                        IF pools[k].channels[i].name = n THEN EmptySlot ELSE pools[k].channels[i]]
             active == \E i \in DOMAIN left : left[i].name # NoConn /\ left[i].incarnation = pools[k].incarnation
  <2>1. w = [incarnation |-> IF active THEN pools[k].incarnation ELSE 0, channels |-> left]
    BY DEF w, WithoutChannel
  <2>2. DOMAIN pools[k].channels = Channels
    BY <1>7
  <2>3. left = [i \in Channels |-> IF i = c THEN EmptySlot ELSE pools[k].channels[i]]
    BY <1>8, <2>2
  <2>4. ASSUME NEW i \in Channels, i # c, pools[k].channels[i].name # NoConn PROVE active
    <3>1. i \in ReadyChannels(k)
      BY <1>1, <1>2, <2>4, ReadyFacts
    <3>2. pools[k].channels[i].incarnation = pools[k].incarnation
      BY <1>1, <1>2, <3>1 DEF OneProcess
    <3>3. left[i] = pools[k].channels[i] /\ i \in DOMAIN left
      BY <2>3, <2>4
    <3> QED
      BY <2>4, <3>2, <3>3
  <2> HIDE DEF left, active
  <2> QED
    BY <2>1, <2>3, <2>4
<1>10. w \in Pools
  <2>1. EmptySlot \in ChannelSlots
    BY DEF EmptySlot, ChannelSlots
  <2>2. w.channels \in [Channels -> ChannelSlots] /\ w.incarnation \in Nat
    BY <1>7, <1>9, <2>1
  <2> QED
    BY <1>9, <2>2 DEF Pools
<1>11. x \in Conns \cup {NoConn} /\ y \in Conns \cup {NoConn}
  BY <1>1, <1>2, <1>3, <1>4, <1>5 DEF RegistryTypes, Repoint, OfInstance, OfService
<1>12. RegistryTypes'
  <2>1. pools' \in [Keys -> Pools]
    BY <1>1, <1>6, <1>10 DEF RegistryTypes, w
  <2>2. byName' \in [Conns -> Handshakes \cup {Absent, Demoted}]
    BY <1>1, <1>6 DEF RegistryTypes
  <2>3. pending' \subseteq {m \in Conns : byName'[m] = Absent}
    BY <1>1, <1>6 DEF RegistryTypes
  <2>4. byInstance' \in [Keys -> Conns \cup {NoConn}] /\ byService' \in [ServiceIds -> Conns \cup {NoConn}]
    BY <1>1, <1>4, <1>5, <1>11 DEF RegistryTypes
  <2> QED
    BY <2>1, <2>2, <2>3, <2>4 DEF RegistryTypes
<1>13. /\ pools'[k] = w /\ \A j \in Keys \ {k} : pools'[j] = pools[j]
       /\ byName'[n] = Absent /\ \A m \in Conns \ {n} : byName'[m] = byName[m]
  BY <1>1, <1>2, <1>6 DEF RegistryTypes, w
<1>14. /\ \A j \in Keys \ {k} : ReadyChannels(j)' = ReadyChannels(j)
       /\ ReadyChannels(k)' = ReadyChannels(k) \ {c}
       /\ \A i \in ReadyChannels(k) \ {c} : pools'[k].channels[i] = pools[k].channels[i]
  <2>1. \A j \in Keys \ {k} : ReadyChannels(j)' = ReadyChannels(j)
    BY <1>13 DEF ReadyChannels
  <2>2. DOMAIN w.channels = Channels /\ DOMAIN pools[k].channels = Channels
    BY <1>7, <1>9
  <2>3. /\ \A i \in Channels \ {c} : w.channels[i] = pools[k].channels[i]
        /\ w.channels[c] = EmptySlot /\ EmptySlot.name = NoConn
    BY <1>3, <1>9 DEF EmptySlot
  <2>4. ReadyChannels(k)' = {i \in Channels : w.channels[i].name # NoConn}
    BY <1>13, <2>2 DEF ReadyChannels
  <2>5. ReadyChannels(k) = {i \in Channels : pools[k].channels[i].name # NoConn}
    BY <2>2 DEF ReadyChannels
  <2>6. ReadyChannels(k)' = ReadyChannels(k) \ {c}
    BY <2>3, <2>4, <2>5
  <2> QED
    BY <1>13, <2>1, <2>3, <2>5, <2>6
<1>15. \A j \in Keys : \A i \in ReadyChannels(j)' :
          i \in ReadyChannels(j) /\ pools'[j].channels[i] = pools[j].channels[i] /\ pools[j].channels[i].name # n
  <2> SUFFICES ASSUME NEW j \in Keys, NEW i \in ReadyChannels(j)'
               PROVE  i \in ReadyChannels(j) /\ pools'[j].channels[i] = pools[j].channels[i] /\ pools[j].channels[i].name # n
    OBVIOUS
  <2>1. i \in ReadyChannels(j) /\ pools'[j].channels[i] = pools[j].channels[i] /\ (j = k => i # c)
    BY <1>13, <1>14
  <2>2. pools[j].channels[i].name = n => j = k /\ i = c
    BY <1>0, <1>1, <2>1, MatchFacts DEF k, c
  <2> QED
    BY <2>1, <2>2
<1>16. ChannelsMatchNames'
  <2>1. ASSUME NEW m \in Conns, Registered(m)'
        PROVE  pools'[Key(byName'[m])].channels[byName'[m].channel] = [name |-> m, incarnation |-> byName'[m].incarnation]
    <3>1. m # n /\ byName'[m] = byName[m] /\ Registered(m)
      BY <1>13, <2>1, HandshakeFacts DEF Registered
    <3> DEFINE j == Key(byName[m])
               i == byName[m].channel
    <3>2. /\ j \in Keys /\ i \in ReadyChannels(j) /\ pools[j].channels[i] = [name |-> m, incarnation |-> byName[m].incarnation]
      BY <1>1, <3>1, HolderFacts
    <3>3. ~(j = k /\ i = c)
      BY <1>2, <3>1, <3>2
    <3>4. pools'[j].channels[i] = pools[j].channels[i]
      BY <1>13, <1>14, <3>2, <3>3
    <3> QED
      BY <3>1, <3>2, <3>4
  <2>2. ASSUME NEW j \in Keys, NEW i \in ReadyChannels(j)'
        PROVE  byName'[pools'[j].channels[i].name] =
                 [service |-> j.service, scene |-> j.scene, channel |-> i, incarnation |-> pools'[j].channels[i].incarnation]
    <3>1. i \in ReadyChannels(j) /\ pools'[j].channels[i] = pools[j].channels[i] /\ pools[j].channels[i].name # n
      BY <1>15, <2>2
    <3>2. pools[j].channels[i].name \in Conns
      BY <1>1, <3>1, ReadyFacts
    <3>3. byName[pools[j].channels[i].name] =
            [service |-> j.service, scene |-> j.scene, channel |-> i, incarnation |-> pools[j].channels[i].incarnation]
      BY <1>1, <3>1 DEF ChannelsMatchNames
    <3> QED
      BY <1>13, <3>1, <3>2, <3>3
  <2> QED
    BY <2>1, <2>2 DEF ChannelsMatchNames
<1>17. OneProcess'
  <2> SUFFICES ASSUME NEW j \in Keys, NEW i \in ReadyChannels(j)'
               PROVE  pools'[j].channels[i].incarnation = pools'[j].incarnation
    BY DEF OneProcess
  <2>1. i \in ReadyChannels(j) /\ pools'[j].channels[i] = pools[j].channels[i]
    BY <1>15
  <2>2. pools[j].channels[i].incarnation = pools[j].incarnation
    BY <1>1, <2>1 DEF OneProcess
  <2>3. j = k => i # c /\ i \in Channels /\ pools[k].channels[i].name # NoConn
    BY <1>1, <1>2, <1>14, <2>1, ReadyFacts
  <2>4. pools'[j].incarnation = pools[j].incarnation
    BY <1>9, <1>13, <2>3
  <2> QED
    BY <2>1, <2>2, <2>4
<1>18. IndexesLead'
  <2>1. ASSUME NEW j \in Keys
        PROVE  IF ReadyChannels(j)' = {} THEN byInstance'[j] = NoConn
               ELSE byInstance'[j] # NoConn /\ Key(byName'[byInstance'[j]]) = j
    <3>1. CASE j # k
      <4>1. ReadyChannels(j)' = ReadyChannels(j) /\ byInstance'[j] = byInstance[j] /\ byInstance[j] \in Conns \cup {NoConn}
        BY <1>1, <1>4, <1>14, <3>1 DEF RegistryTypes
      <4>2. byInstance[j] # n \/ ReadyChannels(j) = {}
        BY <1>0, <1>1, <3>1 DEF IndexesLead, k
      <4> QED
        BY <1>1, <1>13, <4>1, <4>2 DEF IndexesLead
    <3>2. CASE j = k
      <4>1. byInstance'[k] = x /\ ReadyChannels(k) # {}
        BY <1>1, <1>2, <1>4 DEF RegistryTypes
      <4>2. byInstance[k] # NoConn /\ Key(byName[byInstance[k]]) = k /\ byInstance[k] \in Conns
        BY <1>1, <1>2, <4>1 DEF IndexesLead, RegistryTypes
      <4>3. \A m \in OfInstance(k, n) : m \in Conns /\ m # n /\ Key(byName'[m]) = k /\ m # NoConn
        BY <1>13, NamesAssumption DEF OfInstance
      <4>4. OfInstance(k, n) = {} <=> ReadyChannels(k)' = {}
        <5>1. ASSUME NEW m \in OfInstance(k, n) PROVE ReadyChannels(k)' # {}
          <6>1. m \in Conns /\ m # n /\ Key(byName[m]) = k
            BY DEF OfInstance
          <6>2. Registered(m)
            BY <1>1, <1>2, <6>1, NameFacts, HandshakeFacts
          <6>3. byName[m].channel \in ReadyChannels(k) /\ pools[k].channels[byName[m].channel].name = m
            <7>1. /\ byName[m].channel \in ReadyChannels(Key(byName[m]))
                  /\ pools[Key(byName[m])].channels[byName[m].channel] = [name |-> m, incarnation |-> byName[m].incarnation]
              BY <1>1, <6>1, <6>2, HolderFacts
            <7> QED
              BY <6>1, <7>1
          <6>4. byName[m].channel # c
            BY <1>2, <6>1, <6>3
          <6> QED
            BY <1>14, <6>3, <6>4
        <5>2. ASSUME NEW i \in ReadyChannels(k)' PROVE OfInstance(k, n) # {}
          <6>1. i \in ReadyChannels(k) /\ pools[k].channels[i].name # n
            BY <1>2, <1>15
          <6>2. pools[k].channels[i].name \in OfInstance(k, n)
            BY <1>1, <1>2, <6>1, MatchFacts DEF OfInstance
          <6> QED
            BY <6>2
        <5> QED
          BY <5>1, <5>2
      <4>5. CASE byInstance[k] # n
        <5>1. x = byInstance[k]
          BY <1>4, <4>5 DEF Repoint
        <5>2. byInstance[k] \in OfInstance(k, n)
          BY <4>2, <4>5 DEF OfInstance
        <5> QED
          BY <3>2, <4>1, <4>3, <4>4, <5>1, <5>2
      <4>6. CASE byInstance[k] = n
        <5>1. (x = NoConn /\ OfInstance(k, n) = {}) \/ x \in OfInstance(k, n)
          BY <1>4, <4>6 DEF Repoint
        <5> QED
          BY <3>2, <4>1, <4>3, <4>4, <5>1
      <4> QED
        BY <4>5, <4>6
    <3> QED
      BY <3>1, <3>2
  <2>2. ASSUME NEW s \in ServiceIds
        PROVE  IF \E m \in Conns : byName'[m].service = s
               THEN byService'[s] # NoConn /\ byName'[byService'[s]].service = s
               ELSE byService'[s] = NoConn
    <3>0. s > 0 /\ Absent.service # s
      BY HandshakeFacts
    <3>1. CASE s # e.service
      <4>1. byService'[s] = byService[s] /\ byService[s] \in Conns \cup {NoConn}
        BY <1>1, <1>5, <3>1 DEF RegistryTypes
      <4>2. \A m \in Conns : byName'[m].service = s <=> byName[m].service = s
        BY <1>0, <1>13, <3>0, <3>1
      <4> QED
        BY <1>1, <4>1, <4>2 DEF IndexesLead
    <3>2. CASE s = e.service
      <4>1. byService'[s] = y
        BY <1>1, <1>5, <3>2 DEF RegistryTypes
      <4>2. byService[s] # NoConn /\ byName[byService[s]].service = s /\ byService[s] \in Conns
        BY <1>0, <1>1, <3>2 DEF IndexesLead, RegistryTypes
      <4>3. \A m \in OfService(s, n) : m \in Conns /\ m # n /\ byName'[m].service = s /\ m # NoConn
        BY <1>13, NamesAssumption DEF OfService
      <4>4. OfService(s, n) = {} <=> ~\E m \in Conns : byName'[m].service = s
        BY <1>13, <3>0 DEF OfService
      <4>5. CASE byService[s] # n
        <5>1. y = byService[s] /\ byService[s] \in OfService(s, n)
          BY <1>5, <3>2, <4>2, <4>5 DEF Repoint, OfService
        <5> QED
          BY <4>1, <4>3, <4>4, <5>1
      <4>6. CASE byService[s] = n
        <5>1. (y = NoConn /\ OfService(s, n) = {}) \/ y \in OfService(s, n)
          BY <1>5, <3>2, <4>6 DEF Repoint
        <5> QED
          BY <4>1, <4>3, <4>4, <5>1
      <4> QED
        BY <4>5, <4>6
    <3> QED
      BY <3>1, <3>2
  <2> QED
    BY <2>1, <2>2 DEF IndexesLead
<1>19. ClosedIsForgotten' /\ NewIsUnknown'
  BY <1>1, <1>3, <1>6, <1>13 DEF ClosedIsForgotten, NewIsUnknown
<1> QED
  BY <1>12, <1>16, <1>17, <1>18, <1>19 DEF RegistryInv, OneIncarnation, OneProcess, Selectable, ReadyChannels


-----------------------------------------------------------------------------
(* Bind *)

\* The connections Bind demotes are registered, in channels of the handshake's
\* pool, and the one that is reported is one of them.
LEMMA LoserFacts ==
    ASSUME RegistryInv, NEW h \in Handshakes, NEW k, k = Key(h)
    PROVE  /\ k \in Keys /\ Evicted(h) \subseteq ReadyChannels(k)
           /\ \A m \in Conns : m \in Losers(h) <=>
                 Registered(m) /\ Key(byName[m]) = k /\ byName[m].channel \in Evicted(h)
           /\ h.channel \in ReadyChannels(k) => h.channel \in Evicted(h)
           /\ FirstLoser(h) \in Conns \cup {NoConn}
<1>1. RegistryTypes /\ ChannelsMatchNames
  BY DEF RegistryInv
<1>2. k \in Keys
  BY HandshakeFacts
<1>3. Evicted(h) \subseteq ReadyChannels(k) /\ (h.channel \in ReadyChannels(k) => h.channel \in Evicted(h))
  BY DEF Evicted
<1>4. ASSUME NEW m \in Conns
      PROVE  m \in Losers(h) <=> Registered(m) /\ Key(byName[m]) = k /\ byName[m].channel \in Evicted(h)
  <2>1. ASSUME m \in Losers(h) PROVE Registered(m) /\ Key(byName[m]) = k /\ byName[m].channel \in Evicted(h)
    <3>1. PICK i \in Evicted(h) : m = pools[k].channels[i].name
      BY <2>1 DEF Losers
    <3> QED
      BY <1>1, <1>2, <1>3, <3>1, MatchFacts
  <2>2. ASSUME Registered(m), Key(byName[m]) = k, byName[m].channel \in Evicted(h) PROVE m \in Losers(h)
    <3>1. pools[Key(byName[m])].channels[byName[m].channel] = [name |-> m, incarnation |-> byName[m].incarnation]
      BY <1>1, <2>2, HolderFacts
    <3>2. pools[k].channels[byName[m].channel].name = m
      BY <2>2, <3>1
    <3> QED
      BY <2>2, <3>2 DEF Losers
  <2> QED
    BY <2>1, <2>2
<1>5. FirstLoser(h) \in Conns \cup {NoConn}
  <2>1. CASE Evicted(h) = {}
    BY <2>1 DEF FirstLoser
  <2>2. CASE Evicted(h) # {}
    <3> DEFINE T == Evicted(h)
    <3>1. T \subseteq Nat
      <4>1. \A i \in ReadyChannels(k) : i \in Nat
        BY <1>1, <1>2, ReadyFacts, PoolAssumption DEF Channels
      <4> QED
        BY <1>3, <4>1
    <3>2. \E x \in T : \A y \in T : ~(<<y, x>> \in OpToRel(<, Nat))
      <4> HIDE DEF T
      <4> QED
        BY <2>2, <3>1, NatLessThanWellFounded, WFMin DEF T
    <3>3. \E x \in T : \A y \in T : x <= y
      <4>1. PICK x \in T : \A y \in T : ~(<<y, x>> \in OpToRel(<, Nat))
        BY <3>2
      <4>2. \A y \in T : ~(y < x)
        BY <3>1, <4>1 DEF OpToRel
      <4> QED
        BY <3>1, <4>2
    <3> DEFINE c == CHOOSE i \in T : \A j \in T : i <= j
    <3>4. c \in T
      BY <3>3
    <3>5. FirstLoser(h) = pools[k].channels[c].name
      BY <2>2 DEF FirstLoser
    <3> HIDE DEF c
    <3> QED
      BY <1>1, <1>2, <1>3, <3>4, <3>5, ReadyFacts
  <2> QED
    BY <2>1, <2>2
<1> QED
  BY <1>2, <1>3, <1>4, <1>5


\* A handshake takes over a channel, or all channels of an older process.
LEMMA BindInv ==
    ASSUME RegistryInv, NEW n \in pending, NEW h \in Handshakes, Bind(n, h), tcp' = tcp,
           replaced' = [replaced EXCEPT ![n] = FirstLoser(h)], tcp[n] \in {"open", "closing"}
    PROVE  RegistryInv'
<1> DEFINE k == Key(h)
           c == h.channel
           slot(i) == IF i = c THEN [name |-> n, incarnation |-> h.incarnation]
                      ELSE IF i \in Evicted(h) THEN EmptySlot ELSE pools[k].channels[i]
<1>1. RegistryTypes /\ ChannelsMatchNames /\ OneProcess /\ IndexesLead /\ ClosedIsForgotten /\ NewIsUnknown
  BY DEF RegistryInv
<1>2. /\ k \in Keys /\ Evicted(h) \subseteq ReadyChannels(k)
      /\ \A m \in Conns : m \in Losers(h) <=> Registered(m) /\ Key(byName[m]) = k /\ byName[m].channel \in Evicted(h)
      /\ c \in ReadyChannels(k) => c \in Evicted(h)
      /\ FirstLoser(h) \in Conns \cup {NoConn}
  BY LoserFacts
<1>3. /\ n \in Conns /\ byName[n] = Absent /\ ~Registered(n) /\ n \notin Losers(h) /\ n # NoConn
  BY <1>1, <1>2, HandshakeFacts, NamesAssumption DEF RegistryTypes, Registered
<1>4. /\ c \in Channels /\ h.incarnation \in Nat /\ h.service \in ServiceIds /\ h.service = k.service
      /\ h = [service |-> k.service, scene |-> k.scene, channel |-> c, incarnation |-> h.incarnation]
      /\ Valid(h) /\ h.service > 0
  BY HandshakeFacts DEF Key
<1>5. /\ pools[k] \in Pools /\ pools[k].channels \in [Channels -> ChannelSlots] /\ DOMAIN pools[k].channels = Channels
      /\ \A i : i \in ReadyChannels(k) <=> i \in Channels /\ pools[k].channels[i].name # NoConn
  BY <1>1, <1>2, ReadyFacts
<1>6. /\ byName' = [m \in Conns |-> IF m = n THEN h ELSE IF m \in Losers(h) THEN Demoted ELSE byName[m]]
      /\ pools' = [pools EXCEPT ![k] = [incarnation |-> h.incarnation, channels |-> [i \in Channels |-> slot(i)]]]
      /\ pending' = pending \ {n} /\ byInstance' = [byInstance EXCEPT ![k] = n]
      /\ byService' = [byService EXCEPT ![h.service] = n]
  BY <1>5 DEF Bind
<1> DEFINE chans == [i \in Channels |-> slot(i)]
           pool == [incarnation |-> h.incarnation, channels |-> chans]
<1>7. /\ EmptySlot \in ChannelSlots /\ EmptySlot.name = NoConn /\ [name |-> n, incarnation |-> h.incarnation] \in ChannelSlots
  BY <1>3, <1>4 DEF EmptySlot, ChannelSlots
<1>8. \A i \in Channels : slot(i) \in ChannelSlots
  BY <1>5, <1>7
<1>9. /\ chans \in [Channels -> ChannelSlots] /\ chans[c] = [name |-> n, incarnation |-> h.incarnation]
      /\ \A i \in Channels \ {c} : IF i \in Evicted(h) THEN chans[i] = EmptySlot ELSE chans[i] = pools[k].channels[i]
  BY <1>4, <1>8
<1> HIDE DEF slot, chans, k, c
<1>10. pool \in Pools /\ pool.channels = chans /\ pool.incarnation = h.incarnation
  BY <1>4, <1>9 DEF Pools
<1>11. pools' = [pools EXCEPT ![k] = pool]
  BY <1>6 DEF chans
<1> HIDE DEF pool
<1>12. RegistryTypes'
  <2>1. pools' \in [Keys -> Pools]
    BY <1>1, <1>10, <1>11 DEF RegistryTypes
  <2>2. byName' \in [Conns -> Handshakes \cup {Absent, Demoted}]
    BY <1>1, <1>6 DEF RegistryTypes
  <2>3. pending' \subseteq {m \in Conns : byName'[m] = Absent}
    <3> SUFFICES ASSUME NEW m \in pending, m # n PROVE m \in Conns /\ byName'[m] = Absent
      BY <1>6
    <3>1. m \in Conns /\ byName[m] = Absent
      BY <1>1 DEF RegistryTypes
    <3>2. m \notin Losers(h)
      BY <1>2, <3>1, HandshakeFacts DEF Registered
    <3> QED
      BY <1>6, <3>1, <3>2
  <2>4. byInstance' \in [Keys -> Conns \cup {NoConn}] /\ byService' \in [ServiceIds -> Conns \cup {NoConn}]
        /\ replaced' \in [Conns -> Conns \cup {NoConn}]
    BY <1>1, <1>2, <1>3, <1>6 DEF RegistryTypes
  <2> QED
    BY <1>1, <2>1, <2>2, <2>3, <2>4 DEF RegistryTypes
<1>13. /\ pools'[k] = pool /\ \A j \in Keys \ {k} : pools'[j] = pools[j]
       /\ byName'[n] = h /\ \A m \in Conns \ {n} : byName'[m] = IF m \in Losers(h) THEN Demoted ELSE byName[m]
  BY <1>1, <1>2, <1>3, <1>6, <1>11 DEF RegistryTypes
<1>14. /\ \A j \in Keys \ {k} : ReadyChannels(j)' = ReadyChannels(j)
       /\ c \in ReadyChannels(k)' /\ pools'[k].channels[c] = [name |-> n, incarnation |-> h.incarnation]
       /\ \A i : i \in ReadyChannels(k)' /\ i # c =>
            /\ i \in ReadyChannels(k) /\ i \notin Evicted(h) /\ pools'[k].channels[i] = pools[k].channels[i]
  <2>1. \A j \in Keys \ {k} : ReadyChannels(j)' = ReadyChannels(j)
    BY <1>13 DEF ReadyChannels
  <2>2. ReadyChannels(k)' = {i \in Channels : chans[i].name # NoConn}
    BY <1>9, <1>10, <1>13 DEF ReadyChannels
  <2>3. c \in ReadyChannels(k)' /\ pools'[k].channels[c] = [name |-> n, incarnation |-> h.incarnation]
    BY <1>3, <1>4, <1>9, <1>10, <1>13, <2>2
  <2>4. ASSUME NEW i, i \in ReadyChannels(k)', i # c
        PROVE  i \in ReadyChannels(k) /\ i \notin Evicted(h) /\ pools'[k].channels[i] = pools[k].channels[i]
    <3>1. i \in Channels \ {c} /\ chans[i].name # NoConn
      BY <2>2, <2>4
    <3>2. i \notin Evicted(h) /\ chans[i] = pools[k].channels[i]
      BY <1>7, <1>9, <3>1
    <3> QED
      BY <1>5, <1>10, <1>13, <3>1, <3>2
  <2> QED
    BY <2>1, <2>3, <2>4
<1>15. ASSUME NEW m \in Conns, Registered(m), m \notin Losers(h)
       PROVE  /\ m # n /\ byName'[m] = byName[m]
              /\ pools'[Key(byName[m])].channels[byName[m].channel] = pools[Key(byName[m])].channels[byName[m].channel]
  <2> DEFINE j == Key(byName[m])
             i == byName[m].channel
  <2>1. m # n /\ byName'[m] = byName[m]
    BY <1>3, <1>13, <1>15
  <2>2. j \in Keys /\ i \in ReadyChannels(j)
    BY <1>1, <1>15, HolderFacts
  <2>3. CASE j # k
    BY <1>13, <2>1, <2>2, <2>3
  <2>4. CASE j = k
    <3>1. i \notin Evicted(h)
      BY <1>2, <1>15, <2>4
    <3>2. i # c /\ i \in Channels
      BY <1>2, <1>5, <2>2, <2>4, <3>1
    <3>3. chans[i] = pools[k].channels[i]
      BY <1>9, <3>1, <3>2
    <3> QED
      BY <1>10, <1>13, <2>1, <2>4, <3>3
  <2> QED
    BY <2>3, <2>4
<1>16. ASSUME NEW j \in Keys, NEW i \in ReadyChannels(j)', ~(j = k /\ i = c)
       PROVE  /\ i \in ReadyChannels(j) /\ pools'[j].channels[i] = pools[j].channels[i]
              /\ pools[j].channels[i].name \in Conns \ {n}
              /\ byName'[pools[j].channels[i].name] = byName[pools[j].channels[i].name]
  <2>1. i \in ReadyChannels(j) /\ pools'[j].channels[i] = pools[j].channels[i] /\ (j = k => i \notin Evicted(h))
    BY <1>13, <1>14, <1>16
  <2> DEFINE m == pools[j].channels[i].name
  <2>2. m \in Conns /\ Registered(m) /\ Key(byName[m]) = j /\ byName[m].channel = i
    BY <1>1, <2>1, MatchFacts
  <2>3. m \notin Losers(h)
    BY <1>2, <2>1, <2>2
  <2> QED
    BY <1>15, <2>1, <2>2, <2>3
<1>17. ChannelsMatchNames'
  <2>1. ASSUME NEW m \in Conns, Registered(m)'
        PROVE  pools'[Key(byName'[m])].channels[byName'[m].channel] = [name |-> m, incarnation |-> byName'[m].incarnation]
    <3>1. CASE m = n
      BY <1>13, <1>14, <3>1 DEF k, c
    <3>2. CASE m # n
      <4>1. m \notin Losers(h) /\ byName'[m] = byName[m] /\ Registered(m)
        BY <1>13, <2>1, <3>2, HandshakeFacts DEF Registered
      <4>2. pools[Key(byName[m])].channels[byName[m].channel] = [name |-> m, incarnation |-> byName[m].incarnation]
        BY <1>1, <4>1, HolderFacts
      <4> QED
        BY <1>15, <4>1, <4>2
    <3> QED
      BY <3>1, <3>2
  <2>2. ASSUME NEW j \in Keys, NEW i \in ReadyChannels(j)'
        PROVE  byName'[pools'[j].channels[i].name] =
                 [service |-> j.service, scene |-> j.scene, channel |-> i, incarnation |-> pools'[j].channels[i].incarnation]
    <3>1. CASE j = k /\ i = c
      BY <1>4, <1>13, <1>14, <3>1
    <3>2. CASE ~(j = k /\ i = c)
      <4>1. /\ i \in ReadyChannels(j) /\ pools'[j].channels[i] = pools[j].channels[i]
            /\ byName'[pools[j].channels[i].name] = byName[pools[j].channels[i].name]
        BY <1>16, <2>2, <3>2
      <4>2. byName[pools[j].channels[i].name] =
              [service |-> j.service, scene |-> j.scene, channel |-> i, incarnation |-> pools[j].channels[i].incarnation]
        BY <1>1, <4>1 DEF ChannelsMatchNames
      <4> QED
        BY <4>1, <4>2
    <3> QED
      BY <3>1, <3>2
  <2> QED
    BY <2>1, <2>2 DEF ChannelsMatchNames
<1>18. OneProcess'
  <2> SUFFICES ASSUME NEW j \in Keys, NEW i \in ReadyChannels(j)'
               PROVE  pools'[j].channels[i].incarnation = pools'[j].incarnation
    BY DEF OneProcess
  <2>1. CASE j # k
    BY <1>1, <1>13, <1>14, <2>1 DEF OneProcess
  <2>2. CASE j = k /\ i = c
    BY <1>10, <1>13, <1>14, <2>2
  <2>3. CASE j = k /\ i # c
    <3> DEFINE old == pools[k].incarnation
               m == pools[k].channels[i].name
    <3>1. i \in ReadyChannels(k) /\ i \notin Evicted(h) /\ pools'[k].channels[i] = pools[k].channels[i]
      BY <1>14, <2>3
    <3>2. ~NewProcess(h)
      BY <3>1 DEF Evicted, k
    <3>3. h.incarnation = 0 \/ old = 0 \/ h.incarnation = old
      BY <3>2 DEF NewProcess, k
    <3>4. byName[m] \in Handshakes /\ byName[m].service = h.service /\ byName[m].incarnation = old
      <4>1. pools[k].channels[i].incarnation = old
        BY <1>1, <1>2, <3>1 DEF OneProcess
      <4> QED
        BY <1>1, <1>2, <1>4, <3>1, <4>1, MatchFacts
    <3>5. Valid(byName[m])
      BY <3>4, HandshakeFacts
    <3>6. old = h.incarnation
      BY <1>4, <3>3, <3>4, <3>5 DEF Valid
    <3>7. pools[k].channels[i].incarnation = old
      BY <1>1, <1>2, <3>1 DEF OneProcess
    <3> QED
      BY <1>10, <1>13, <2>3, <3>1, <3>6, <3>7
  <2> QED
    BY <2>1, <2>2, <2>3
<1>19. IndexesLead'
  <2>1. ASSUME NEW j \in Keys
        PROVE  IF ReadyChannels(j)' = {} THEN byInstance'[j] = NoConn
               ELSE byInstance'[j] # NoConn /\ Key(byName'[byInstance'[j]]) = j
    <3>1. CASE j = k
      BY <1>1, <1>2, <1>3, <1>6, <1>13, <1>14, <3>1 DEF RegistryTypes, k
    <3>2. CASE j # k
      <4>1. byInstance'[j] = byInstance[j] /\ ReadyChannels(j)' = ReadyChannels(j)
        BY <1>1, <1>6, <1>14, <3>2 DEF RegistryTypes
      <4>2. CASE ReadyChannels(j) = {}
        BY <1>1, <4>1, <4>2 DEF IndexesLead
      <4>3. CASE ReadyChannels(j) # {}
        <5> DEFINE m == byInstance[j]
        <5>1. m \in Conns /\ m # NoConn /\ Key(byName[m]) = j
          BY <1>1, <4>3 DEF IndexesLead, RegistryTypes
        <5>2. Registered(m) /\ m \notin Losers(h)
          BY <1>1, <1>2, <3>2, <5>1, NameFacts, HandshakeFacts
        <5> QED
          BY <1>15, <4>1, <4>3, <5>1, <5>2
      <4> QED
        BY <4>2, <4>3
    <3> QED
      BY <3>1, <3>2
  <2>2. ASSUME NEW s \in ServiceIds
        PROVE  IF \E m \in Conns : byName'[m].service = s
               THEN byService'[s] # NoConn /\ byName'[byService'[s]].service = s
               ELSE byService'[s] = NoConn
    <3>1. CASE s = h.service
      BY <1>1, <1>3, <1>6, <1>13, <3>1 DEF RegistryTypes
    <3>2. CASE s # h.service
      <4>1. byService'[s] = byService[s] /\ byService[s] \in Conns \cup {NoConn}
        BY <1>1, <1>6, <3>2 DEF RegistryTypes
      <4>2. ASSUME NEW m \in Conns PROVE byName'[m].service = s <=> byName[m].service = s
        <5>1. s > 0 /\ Absent.service # s /\ Demoted.service # s
          BY HandshakeFacts
        <5>2. CASE m = n
          BY <1>3, <1>13, <3>2, <5>1, <5>2
        <5>3. CASE m # n /\ m \in Losers(h)
          <6>1. Key(byName[m]).service = k.service
            BY <1>2, <5>3
          <6>2. byName[m].service = h.service
            BY <1>4, <6>1 DEF Key
          <6> QED
            BY <1>13, <3>2, <5>1, <5>3, <6>2
        <5>4. CASE m # n /\ m \notin Losers(h)
          BY <1>13, <5>4
        <5> QED
          BY <5>2, <5>3, <5>4
      <4> QED
        BY <1>1, <4>1, <4>2 DEF IndexesLead
    <3> QED
      BY <3>1, <3>2
  <2> QED
    BY <2>1, <2>2 DEF IndexesLead
<1>20. ClosedIsForgotten' /\ NewIsUnknown'
  <2> SUFFICES ASSUME NEW m \in Conns, tcp[m] = "closed" \/ tcp[m] = "new" PROVE m \notin pending' /\ byName'[m] = Absent
    BY DEF ClosedIsForgotten, NewIsUnknown
  <2>1. m \notin pending /\ byName[m] = Absent /\ m # n
    BY <1>1 DEF ClosedIsForgotten, NewIsUnknown
  <2>2. m \notin Losers(h)
    BY <1>2, <2>1, HandshakeFacts DEF Registered
  <2> QED
    BY <1>6, <1>13, <2>1, <2>2
<1> QED
  BY <1>12, <1>17, <1>18, <1>19, <1>20 DEF RegistryInv, OneIncarnation, OneProcess, Selectable, ReadyChannels


-----------------------------------------------------------------------------
(* The specification *)

\* A gateway without backends.
LEMMA RegistryStarts == RegistryInit => RegistryInv
<1> SUFFICES ASSUME RegistryInit PROVE RegistryInv
  OBVIOUS
<1> DEFINE none == [i \in 0..(PoolSize - 1) |-> EmptySlot]
           empty == [incarnation |-> 0, channels |-> none]
<1>1. empty \in Pools
  BY DEF Pools, ChannelSlots, Channels, EmptySlot
<1>2. \A k \in Keys : pools[k] = empty
  BY DEF RegistryInit
<1>3. \A k \in Keys : ReadyChannels(k) = {}
  <2>1. EmptySlot.name = NoConn
    BY DEF EmptySlot
  <2>2. \A k \in Keys : \A i \in DOMAIN pools[k].channels : pools[k].channels[i] = EmptySlot
    <3>1. \A i \in DOMAIN none : none[i] = EmptySlot
      OBVIOUS
    <3> HIDE DEF none
    <3>2. \A k \in Keys : pools[k].channels = none
      BY <1>2
    <3> QED
      BY <3>1, <3>2
  <2> QED
    BY <2>1, <2>2 DEF ReadyChannels
<1>4. \A n \in Conns : ~Registered(n) /\ byName[n] = Absent
  BY HandshakeFacts DEF RegistryInit, Registered
<1>5. RegistryTypes
  BY <1>1 DEF RegistryInit, RegistryTypes
<1>6. ChannelsMatchNames /\ OneProcess /\ OneIncarnation
  BY <1>3, <1>4 DEF ChannelsMatchNames, OneProcess, OneIncarnation, Selectable
<1>7. IndexesLead
  BY <1>3, <1>4, HandshakeFacts DEF IndexesLead, RegistryInit
<1>8. ClosedIsForgotten /\ NewIsUnknown
  BY <1>4 DEF ClosedIsForgotten, NewIsUnknown, RegistryInit
<1> QED
  BY <1>5, <1>6, <1>7, <1>8 DEF RegistryInv

\* Every handler keeps the tables in agreement.
LEMMA RegistryStep == ASSUME RegistryInv, [RegistryNext]_registryVars PROVE RegistryInv'
<1>1. RegistryTypes /\ ClosedIsForgotten /\ NewIsUnknown
  BY DEF RegistryInv
<1>2. ASSUME UNCHANGED registry, tcp' \in [Conns -> {"new", "open", "closing", "closed"}],
             replaced' \in [Conns -> Conns \cup {NoConn}],
             \A m \in Conns : tcp'[m] \in {"new", "closed"} => tcp'[m] = tcp[m]
      PROVE  RegistryInv'
  <2>1. RegistryTypes'
    BY <1>1, <1>2 DEF RegistryTypes, registry
  <2> QED
    BY <1>1, <1>2, <2>1, QuietInv DEF registry, ClosedIsForgotten, NewIsUnknown
<1>3. ASSUME NEW n \in Conns, RemoveByName(n),
             tcp' \in [Conns -> {"new", "open", "closing", "closed"}], replaced' \in [Conns -> Conns \cup {NoConn}],
             \A m \in Conns : tcp'[m] = "new" => tcp[m] = "new",
             \A m \in Conns : tcp'[m] = "closed" => tcp[m] = "closed" \/ m = n
      PROVE  RegistryInv'
  BY <1>3, RemoveUnknownInv, RemoveRegisteredInv
<1>4. ASSUME NEW n \in Conns, Accept(n) PROVE RegistryInv'
  <2>1. byName[n] = Absent
    BY <1>1, <1>4 DEF Accept, NewIsUnknown
  <2>2. RegistryTypes'
    BY <1>1, <1>4, <2>1 DEF Accept, RegistryTypes
  <2>3. \A m \in Conns : tcp'[m] \in {"new", "closed"} => m \notin pending' /\ byName'[m] = Absent
    BY <1>1, <1>4 DEF Accept, RegistryTypes, ClosedIsForgotten, NewIsUnknown
  <2> QED
    BY <1>4, <2>2, <2>3, QuietInv DEF Accept
<1>5. ASSUME NEW n \in Conns, NEW h \in Handshakes, Handshake(n, h) PROVE RegistryInv'
  <2>1. CASE n \in pending
    BY <1>5, <2>1, BindInv DEF Handshake
  <2>2. CASE n \notin pending
    <3>1. tcp' = [tcp EXCEPT ![n] = "closing"] /\ UNCHANGED <<registry, replaced>>
      BY <1>5, <2>2 DEF Handshake
    <3>2. tcp' \in [Conns -> {"new", "open", "closing", "closed"}] /\ replaced' \in [Conns -> Conns \cup {NoConn}]
      BY <1>1, <3>1 DEF RegistryTypes
    <3>3. \A m \in Conns : tcp'[m] \in {"new", "closed"} => tcp'[m] = tcp[m]
      BY <1>1, <3>1 DEF RegistryTypes
    <3> QED
      BY <1>2, <3>1, <3>2, <3>3
  <2> QED
    BY <2>1, <2>2
<1>6. ASSUME NEW m \in Conns, ForceClose(m)
      PROVE  /\ tcp' \in [Conns -> {"new", "open", "closing", "closed"}]
             /\ \A i \in Conns : tcp'[i] \in {"new", "closed"} => tcp'[i] = tcp[i]
  BY <1>1, <1>6 DEF ForceClose, RegistryTypes
<1>7. ASSUME NEW n \in Conns, CloseReplaced(n) PROVE RegistryInv'
  <2> DEFINE old == replaced[n]
  <2>1. old \in Conns /\ replaced' \in [Conns -> Conns \cup {NoConn}]
    BY <1>1, <1>7 DEF CloseReplaced, RegistryTypes
  <2>2. PICK o \in Conns : o = old
    BY <2>1
  <2>3. CASE RemoveByName(o) /\ ForceClose(o)
    <3>1. /\ tcp' \in [Conns -> {"new", "open", "closing", "closed"}]
          /\ \A i \in Conns : tcp'[i] \in {"new", "closed"} => tcp'[i] = tcp[i]
      BY <1>6, <2>3
    <3> QED
      BY <1>3, <2>1, <2>3, <3>1
  <2>4. CASE UNCHANGED <<registry, tcp>>
    BY <1>1, <1>2, <2>1, <2>4 DEF RegistryTypes
  <2> QED
    BY <1>7, <2>2, <2>3, <2>4 DEF CloseReplaced
<1>8. ASSUME NEW n \in Conns, BusinessFrame(n) PROVE RegistryInv'
  <2>1. ForceClose(n) /\ UNCHANGED <<registry, replaced>>
    BY <1>8 DEF BusinessFrame
  <2> QED
    BY <1>1, <1>2, <1>6, <2>1 DEF RegistryTypes
<1>9. ASSUME NEW n \in Conns, Closed(n) PROVE RegistryInv'
  <2>1. tcp' = [tcp EXCEPT ![n] = "closed"] /\ RemoveByName(n) /\ UNCHANGED replaced
    BY <1>9 DEF Closed
  <2>2. tcp' \in [Conns -> {"new", "open", "closing", "closed"}] /\ replaced' \in [Conns -> Conns \cup {NoConn}]
    BY <1>1, <2>1 DEF RegistryTypes
  <2>3. \A m \in Conns : m # n => tcp'[m] = tcp[m]
    BY <1>1, <2>1 DEF RegistryTypes
  <2>4. tcp'[n] = "closed"
    BY <1>1, <2>1 DEF RegistryTypes
  <2> QED
    BY <1>3, <2>1, <2>2, <2>3, <2>4
<1>10. CASE UNCHANGED registryVars
  BY <1>1, <1>2, <1>10 DEF registryVars, RegistryTypes
<1> QED
  BY <1>4, <1>5, <1>7, <1>8, <1>9, <1>10 DEF RegistryNext, AllClosed

\* The registry's tables always agree: SelectByScene, GetByChannel,
\* GetByService and byInstance_ answer from the same set of registered
\* connections, of one process per scene, and never with one that is gone.
THEOREM RegistryAgrees == RegistrySpec => []RegistryInv
<1>1. RegistryInv /\ [RegistryNext]_registryVars => RegistryInv'
  BY RegistryStep
<1> QED
  BY <1>1, RegistryStarts, PTL DEF RegistrySpec

\* A request is never routed to a connection that lost its identity or is
\* closed: what is selectable is registered under that very key.
RoutesToRegistered ==
    \A k \in Keys : \A n \in Selectable(k) :
        n \in Conns /\ Registered(n) /\ Key(byName[n]) = k /\ tcp[n] \in {"open", "closing"}

\* What SelectByScene may answer is registered for that scene and not closed.
THEOREM SelectionIsLive == RegistrySpec => []RoutesToRegistered
<1>1. ASSUME RegistryInv PROVE RoutesToRegistered
  <2>1. RegistryTypes /\ ChannelsMatchNames /\ ClosedIsForgotten /\ NewIsUnknown
    BY <1>1 DEF RegistryInv
  <2> SUFFICES ASSUME NEW k \in Keys, NEW n \in Selectable(k)
               PROVE  n \in Conns /\ Registered(n) /\ Key(byName[n]) = k /\ tcp[n] \in {"open", "closing"}
    BY DEF RoutesToRegistered
  <2>2. PICK i \in ReadyChannels(k) : n = pools[k].channels[i].name
    BY DEF Selectable
  <2>3. n \in Conns /\ Registered(n) /\ Key(byName[n]) = k /\ byName[n] \in Handshakes
    BY <2>1, <2>2, MatchFacts
  <2>4. tcp[n] \in {"open", "closing"}
    BY <2>1, <2>3, HandshakeFacts DEF RegistryTypes, ClosedIsForgotten, NewIsUnknown
  <2> QED
    BY <2>3, <2>4
<1> QED
  BY <1>1, RegistryAgrees, PTL
=============================================================================
