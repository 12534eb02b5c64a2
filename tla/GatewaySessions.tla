--------------------------- MODULE GatewaySessions ---------------------------
(***************************************************************************)
(* The gateway between its clients and one scene server: the session table *)
(* (ClientSessionTable), the table of return routes (ReturnRouteTable) and *)
(* the GatewayDispatcher handlers that use them.                           *)
(*                                                                         *)
(* Every client connection has its own IO thread, every scene channel its  *)
(* own event loop, and the route sweep runs on a third thread.  A call on  *)
(* a table is atomic (it holds the table's lock) and a handler is a        *)
(* sequence of calls on copies, so each handler is split into steps where  *)
(* another thread may come in between: job[s] is what the thread of        *)
(* session s has left to do, with the copy of the session it works on.     *)
(*                                                                         *)
(* A channel is one accepted scene connection, used once: a reconnection   *)
(* is another channel.  Which of several registered channels a name stands *)
(* for is the registry's business (module ServiceRegistry).  Services other*)
(* than the scene are reached by a direct send.  Bodies, modules, methods  *)
(* and the contents of answers are left out.  The scene side keeps its     *)
(* GatewayClientIndex (module ClientIndex) and reads its channels in order.*)
(***************************************************************************)
EXTENDS Integers, Sequences, FiniteSets

SceneIndex == INSTANCE ClientIndex

CONSTANTS
    Players,
    Services,         \* cfg_.allowedServices, with "scene"
    Logins,           \* session -> players its client may authenticate as
    Reauth,           \* may a client authenticate again on the same connection?
    MaxSession,       \* bound: client connections 1..MaxSession
    Channels,         \* bound: scene connections ever accepted
    MaxSessions,      \* cfg_.maxClientSessions
    MaxRoutes,        \* cfg_.maxPendingRoutes
    EpochLimit,       \* numeric_limits<uint32_t>::max()
    MaxSeq,           \* bound: business requests that get a route
    MaxQueued         \* bound: a frame is read while the loops hold fewer submissions

Sessions == 1..MaxSession
Scene == "scene"
Chat == "chat"

ASSUME SetsAssumption ==
    /\ Players \subseteq Nat \ {0} /\ Channels \subseteq Nat \ {0}
    /\ Scene \in Services
    /\ MaxSession \in Nat /\ Logins \in [Sessions -> SUBSET Players] /\ Reauth \in BOOLEAN
ASSUME BoundsAssumption ==
    {MaxSessions, MaxRoutes, EpochLimit, MaxSeq, MaxQueued} \subseteq Nat \ {0}

VARIABLES
    sess,         \* ClientSessionTable::sessions_
    index,        \* playerIndex_; 0: none
    playerEpoch,  \* playerEpoch_
    nextSession,  \* nextSessionId_
    conn,         \* the client's TcpConnection
    job,          \* where the session's IO thread is in a handler
    routes,       \* ReturnRouteTable::routes_
    nextSeq,      \* nextSeq_
    chan,         \* scene channels: "new", "up" (registered) or "down"
    loop,         \* submissions queued in a channel's event loop
    wire,         \* frames on the channel, not yet read by the scene
    scene,        \* the scene's GatewayClientIndex
    due,          \* requests a backend has answered or will answer
    asked         \* history: session, epoch and answers of every routed request

table == <<sess, index, playerEpoch, nextSession>>
backend == <<chan, loop, wire, scene, due>>
requests == <<routes, nextSeq, asked>>
vars == <<table, conn, job, requests, backend>>

NoSession ==
    [live |-> FALSE, authed |-> FALSE, player |-> 0, epoch |-> 0, dst |-> Scene,
     chan |-> 0, online |-> FALSE]

\* The ClientData a session's frames carry.
Data(s, player, epoch) ==
    [player |-> player, clientSession |-> s, epoch |-> epoch, gateway |-> 1]

Idle == [at |-> "idle", copy |-> NoSession, arg |-> Scene, old |-> 0, seq |-> 0]

Frame(kind, data, seq) == [kind |-> kind, data |-> data, seq |-> seq]
EOF == Frame("eof", SceneIndex!NoData, 0)

-----------------------------------------------------------------------------
(* ClientSessionTable and ReturnRouteTable.                                *)

\* FindByPlayer: the session a push for p goes to; 0: none.
FindByPlayer(p) == IF index[p] # 0 /\ sess[index[p]].live THEN index[p] ELSE 0

EraseBySession(rs, s) == {r \in rs : r.session # s}

\* Erase: the player index goes only if it still points to s.
Erase(s) ==
    /\ sess' = [sess EXCEPT ![s] = NoSession]
    /\ index' = [p \in Players |-> IF p = sess[s].player /\ index[p] = s THEN 0 ELSE index[p]]
    /\ UNCHANGED <<playerEpoch, nextSession>>

\* Bind: the player's other session is demoted and leaves the index.
Bind(s, p) ==
    LET old == index[p]
        demoted == IF old \in Sessions \ {s} /\ sess[old].live
                   THEN [sess EXCEPT ![old].authed = FALSE, ![old].player = 0]
                   ELSE sess
    IN
    /\ playerEpoch' = [playerEpoch EXCEPT ![p] = @ + 1]
    /\ sess' = [demoted EXCEPT ![s].player = p, ![s].authed = TRUE,
                               ![s].epoch = playerEpoch[p] + 1, ![s].online = FALSE]
    /\ index' = [index EXCEPT ![p] = s]
    /\ UNCHANGED nextSession

\* SetDstService: another service is another epoch, and leaves the scene.
EpochsUsedUp(s, service) ==
    sess[s].authed /\ sess[s].dst # service /\ playerEpoch[sess[s].player] = EpochLimit

SetDstService(s, service) ==
    LET changed == sess[s].dst # service
        epoch == IF sess[s].authed THEN playerEpoch[sess[s].player] + 1 ELSE sess[s].epoch
    IN
    /\ sess' = IF changed
               THEN [sess EXCEPT ![s].dst = service, ![s].chan = 0, ![s].online = FALSE,
                                 ![s].epoch = epoch]
               ELSE sess
    /\ playerEpoch' = IF changed /\ sess[s].authed
                      THEN [playerEpoch EXCEPT ![sess[s].player] = @ + 1] ELSE playerEpoch
    /\ UNCHANGED <<index, nextSession>>

\* SetSceneBinding: the session's channel, once and for all while it keeps its service.
SetSceneBinding(s, c) ==
    /\ sess' = IF sess[s].live /\ sess[s].authed /\ sess[s].dst = Scene /\ sess[s].chan = 0
               THEN [sess EXCEPT ![s].chan = c] ELSE sess
    /\ UNCHANGED <<index, playerEpoch, nextSession>>

\* Mutant: SubmitScene looks only at the channel.
CurrentUnchecked(item, c) == sess[item.data.clientSession].chan = c

\* SubmitScene's re-check, under the lock, of the binding a submission was made for.
Current(item, c) ==
    LET s == item.data.clientSession IN
    /\ sess[s].live /\ sess[s].authed
    /\ sess[s].dst = Scene /\ sess[s].chan = c
    /\ sess[s].player = item.data.player /\ sess[s].epoch = item.data.epoch

-----------------------------------------------------------------------------
(* The answers a client sees: SendToClient on a connection that is open.   *)

\* The session still has the epoch in which it made request q.
SameEpoch(r) == sess[r.session].live /\ sess[r.session].authed /\ sess[r.session].epoch = r.epoch

\* Mutant: the route is read, not taken.
AnswerKeepsRoute(r) ==
    /\ asked' = IF SameEpoch(r) /\ conn[r.session] = "open"
                THEN [asked EXCEPT ![r.seq].answers = IF @ < 2 THEN @ + 1 ELSE @] ELSE asked
    /\ UNCHANGED <<routes, nextSeq>>

\* Take the route of a request and answer it, if its asker is still there.
Answer(r) ==
    /\ routes' = routes \ {r}
    /\ asked' = IF SameEpoch(r) /\ conn[r.session] = "open"
                THEN [asked EXCEPT ![r.seq].answers = @ + 1] ELSE asked
    /\ UNCHANGED nextSeq

-----------------------------------------------------------------------------
(* NotifySceneBinding and QueueSceneSubmission: the submission always goes *)
(* through the channel's event loop.                                       *)

\* Mutant: a notification runs at once, ahead of what is queued.
QueueFirst(c, kind, data, seq) ==
    loop' = [loop EXCEPT ![c] = IF seq = 0 THEN <<Frame(kind, data, seq)>> \o @
                                ELSE Append(@, Frame(kind, data, seq))]

Queue(c, kind, data, seq) == loop' = [loop EXCEPT ![c] = Append(@, Frame(kind, data, seq))]

\* Mutant: only a binding that the copy saw declared goes offline.
NotifyOnlyDeclared(s, copy, kind) ==
    IF /\ copy.authed /\ copy.dst = Scene /\ copy.chan # 0 /\ chan[copy.chan] = "up"
       /\ kind = "online" \/ copy.online
    THEN Queue(copy.chan, kind, Data(s, copy.player, copy.epoch), 0)
    ELSE UNCHANGED loop

Notify(s, copy, kind) ==
    IF copy.authed /\ copy.dst = Scene /\ copy.chan # 0 /\ chan[copy.chan] = "up"
    THEN Queue(copy.chan, kind, Data(s, copy.player, copy.epoch), 0)
    ELSE UNCHANGED loop

-----------------------------------------------------------------------------
Init ==
    /\ sess = [s \in Sessions |-> NoSession]
    /\ index = [p \in Players |-> 0]
    /\ playerEpoch = [p \in Players |-> 0]
    /\ nextSession = 1
    /\ conn = [s \in Sessions |-> "none"]
    /\ job = [s \in Sessions |-> Idle]
    /\ routes = {} /\ nextSeq = 1
    /\ chan = [c \in Channels |-> "new"]
    /\ loop = [c \in Channels |-> <<>>]
    /\ wire = [c \in Channels |-> <<>>]
    /\ scene = SceneIndex!EmptyIndex(Players, Channels)
    /\ due = {}
    /\ asked = <<>>

\* OnClientConnected: a connection over the limit is closed at once.
Connect ==
    /\ nextSession \in Sessions
    /\ sess' = [sess EXCEPT ![nextSession] = [NoSession EXCEPT !.live = TRUE]]
    /\ conn' = [conn EXCEPT ![nextSession] =
                  IF Cardinality({s \in Sessions : sess[s].live}) < MaxSessions
                  THEN "open" ELSE "closing"]
    /\ nextSession' = nextSession + 1
    /\ UNCHANGED <<index, playerEpoch, job, requests, backend>>

\* The session's thread is free to handle a frame, and the session is there.
Ready(s) ==
    /\ conn[s] \in {"open", "closing"} /\ job[s] = Idle /\ sess[s].live
    /\ \A c \in Channels : Len(loop[c]) < MaxQueued

Continue(s, at, copy, arg, old) ==
    job' = [job EXCEPT ![s] = [at |-> at, copy |-> copy, arg |-> arg, old |-> old, seq |-> 0]]

Done(s) == job' = [job EXCEPT ![s] = Idle]

\* kAuth, first step: Bind.
Auth(s, p) ==
    /\ Ready(s) /\ p \in Logins[s] /\ (sess[s].authed => Reauth)
    /\ playerEpoch[p] < EpochLimit
    /\ Bind(s, p)
    /\ LET kicked == IF index[p] \in Sessions \ {s} THEN index[p] ELSE 0 IN
       Continue(s, IF kicked # 0 THEN "kick" ELSE "notify", NoSession, Scene, kicked)
    /\ UNCHANGED <<conn, requests, backend>>

\* kAuth: the routes of the session that had the player are void.
KickRoutes(s) ==
    /\ job[s].at = "kick"
    /\ routes' = EraseBySession(routes, job[s].old)
    /\ Continue(s, "kickClose", NoSession, Scene, job[s].old)
    /\ UNCHANGED <<table, conn, nextSeq, asked, backend>>

\* kAuth: close the connection of that session and forget the session.
KickClose(s) ==
    LET old == job[s].old IN
    /\ job[s].at = "kickClose"
    /\ conn' = IF sess[old].live /\ conn[old] = "open"
               THEN [conn EXCEPT ![old] = "closing"] ELSE conn
    /\ Erase(old)
    /\ Continue(s, "notify", NoSession, Scene, 0)
    /\ UNCHANGED <<requests, backend>>

\* kAuth, last step: declare the new epoch on the channel the session has.
AuthNotify(s) ==
    /\ job[s].at = "notify"
    /\ IF sess[s].live THEN Notify(s, sess[s], "online") ELSE UNCHANGED loop
    /\ Done(s)
    /\ UNCHANGED <<table, conn, requests, chan, wire, scene, due>>

\* kBindService, in two steps: the copy, then SetDstService.
BindService(s, service) ==
    /\ Ready(s) /\ sess[s].authed
    /\ Continue(s, "setDst", sess[s], service, 0)
    /\ UNCHANGED <<table, conn, requests, backend>>

BindServiceSet(s) ==
    /\ job[s].at = "setDst"
    /\ IF sess[s].live /\ ~EpochsUsedUp(s, job[s].arg)
       THEN SetDstService(s, job[s].arg) /\ Continue(s, "moved", job[s].copy, job[s].arg, 0)
       ELSE UNCHANGED table /\ Done(s)
    /\ UNCHANGED <<conn, requests, backend>>

\* kBindService, last step: the copy's binding goes offline; a session that
\* kept its service declares its binding (one that moved has no channel yet).
BindServiceNotify(s) ==
    /\ job[s].at = "moved"
    /\ IF job[s].arg # job[s].copy.dst THEN Notify(s, job[s].copy, "offline")
       ELSE IF sess[s].live THEN Notify(s, sess[s], "online")
       ELSE UNCHANGED loop
    /\ Done(s)
    /\ UNCHANGED <<table, conn, requests, chan, wire, scene, due>>

\* The threads that will still take a sequence number.
Waiting == {s \in Sessions : job[s].at \in {"select", "bind", "reread", "forward"}}

\* A business request, first step: the copy, and the service it is for (the
\* session's own, or another that has a module of its own).
Business(s, service) ==
    /\ Ready(s) /\ sess[s].authed
    /\ nextSeq + Cardinality(Waiting) <= MaxSeq
    /\ service \in {sess[s].dst} \cup (Services \ {Scene})
    /\ Continue(s, IF service = Scene /\ sess[s].chan = 0 THEN "select" ELSE "forward",
                sess[s], service, 0)
    /\ UNCHANGED <<table, conn, requests, backend>>

\* A first scene request chooses a registered channel (SelectByScene), ...
Select(s, c) ==
    /\ job[s].at = "select"
    /\ chan[c] = "up"
    /\ Continue(s, "bind", [job[s].copy EXCEPT !.chan = c], Scene, 0)
    /\ UNCHANGED <<table, conn, requests, backend>>

\* ... binds the session to it, ...
BindScene(s) ==
    /\ job[s].at = "bind"
    /\ SetSceneBinding(s, job[s].copy.chan)
    /\ Continue(s, "reread", NoSession, Scene, 0)
    /\ UNCHANGED <<conn, requests, backend>>

\* ... and reads the session again: a login of the player on another
\* connection may have demoted it or erased it by now.
Reread(s) ==
    /\ job[s].at = "reread"
    /\ IF sess[s].live THEN Continue(s, "forward", sess[s], Scene, 0) ELSE Done(s)
    /\ UNCHANGED <<table, conn, requests, backend>>

\* "backend service unavailable" and "too many pending requests".
Unavailable(s) ==
    /\ \/ job[s].at = "select" /\ \A c \in Channels : chan[c] # "up"
       \/ /\ job[s].at = "forward"
          /\ \/ job[s].arg # Scene
             \/ job[s].copy.chan = 0
             \/ job[s].copy.chan # 0 /\ chan[job[s].copy.chan] # "up"
             \/ Cardinality(routes) >= MaxRoutes
    /\ Done(s)
    /\ UNCHANGED <<table, conn, requests, backend>>

\* GatewayPlayer::Valid of the data a scene request would carry.
CarriesPlayer(s) == job[s].arg = Scene => job[s].copy.player # 0

\* routes_.Add, for a thread whose backend is registered.
AddRoute(s) ==
    LET copy == job[s].copy
        viaScene == job[s].arg = Scene
    IN
    /\ job[s].at = "forward"
    /\ viaScene => copy.chan # 0 /\ chan[copy.chan] = "up"
    /\ Cardinality(routes) < MaxRoutes
    /\ routes' = routes \cup {[seq |-> nextSeq, session |-> s, epoch |-> copy.epoch,
                               via |-> IF viaScene THEN copy.chan ELSE 0]}
    /\ nextSeq' = nextSeq + 1
    /\ asked' = Append(asked, [session |-> s, epoch |-> copy.epoch, answers |-> 0])
    /\ UNCHANGED <<table, conn, chan, wire, scene>>

\* The route and the forwarding: a scene request through the channel's loop,
\* another one directly.
Forward(s) ==
    LET copy == job[s].copy IN
    /\ AddRoute(s)
    /\ CarriesPlayer(s)
    /\ IF job[s].arg = Scene
       THEN Queue(copy.chan, "online", Data(s, copy.player, copy.epoch), nextSeq) /\ UNCHANGED due
       ELSE due' = due \cup {nextSeq} /\ UNCHANGED loop
    /\ Done(s)

\* A request that is refused when it has its route already: a scene request of
\* a session demoted before the second copy or (any of them) to the module the
\* gateway keeps for itself, or a private chat without a target.
ForwardInvalid(s) ==
    /\ AddRoute(s)
    /\ job[s].arg \in {Scene, Chat}
    /\ job' = [job EXCEPT ![s] = [Idle EXCEPT !.at = "refuse", !.seq = nextSeq]]
    /\ UNCHANGED <<loop, due>>

\* Mutant: the route is taken back and the client hears nothing.
RefuseSilent(s) ==
    /\ job[s].at = "refuse"
    /\ routes' = {r \in routes : r.seq # job[s].seq}
    /\ Done(s)
    /\ UNCHANGED <<table, conn, nextSeq, asked, backend>>

\* The refusal: Take, whether or not the route is still there, and
\* RejectClient, which looks at the connection and not at the session.
Refuse(s) ==
    /\ job[s].at = "refuse"
    /\ routes' = {r \in routes : r.seq # job[s].seq}
    /\ asked' = IF conn[s] = "open" THEN [asked EXCEPT ![job[s].seq].answers = @ + 1] ELSE asked
    /\ Done(s)
    /\ UNCHANGED <<table, conn, nextSeq, backend>>

-----------------------------------------------------------------------------
(* OnClientClosed.                                                         *)

Close(s) ==
    /\ conn[s] \in {"open", "closing"} /\ job[s] = Idle
    /\ conn' = [conn EXCEPT ![s] = "closed"]
    /\ Continue(s, "closeNotify", sess[s], Scene, 0)
    /\ UNCHANGED <<table, requests, backend>>

CloseNotify(s) ==
    /\ job[s].at = "closeNotify"
    /\ IF job[s].copy.live THEN Notify(s, job[s].copy, "offline") ELSE UNCHANGED loop
    /\ Continue(s, "closeErase", NoSession, Scene, 0)
    /\ UNCHANGED <<table, conn, requests, chan, wire, scene, due>>

\* Mutant: the close of a session that is gone already has nothing to do.
CloseEraseReturns(s) ==
    /\ job[s].at = "closeErase"
    /\ Erase(s)
    /\ IF sess[s].live THEN Continue(s, "closeRoutes", NoSession, Scene, 0) ELSE Done(s)
    /\ UNCHANGED <<conn, requests, backend>>

CloseErase(s) ==
    /\ job[s].at = "closeErase"
    /\ Erase(s)
    /\ Continue(s, "closeRoutes", NoSession, Scene, 0)
    /\ UNCHANGED <<conn, requests, backend>>

CloseRoutes(s) ==
    /\ job[s].at = "closeRoutes"
    /\ routes' = EraseBySession(routes, s)
    /\ Done(s)
    /\ UNCHANGED <<table, conn, nextSeq, asked, backend>>

-----------------------------------------------------------------------------
(* The scene channels.                                                     *)

ChannelUp(c) ==
    /\ chan[c] = "new"
    /\ chan' = [chan EXCEPT ![c] = "up"]
    /\ UNCHANGED <<table, conn, job, requests, loop, wire, scene, due>>

\* OnBackendClosed: the channel is gone, with what it had not delivered.
ChannelDown(c) ==
    /\ chan[c] = "up"
    /\ chan' = [chan EXCEPT ![c] = "down"]
    /\ \E n \in 0..Len(wire[c]) : wire' = [wire EXCEPT ![c] = Append(SubSeq(@, 1, n), EOF)]
    /\ UNCHANGED <<table, conn, job, requests, loop, scene, due>>

\* The frames of a submission: OFFLINE, or the request after an ONLINE that
\* is not declared yet.
Frames(item, declared) ==
    (IF item.kind = "offline" \/ ~declared THEN <<Frame(item.kind, item.data, 0)>> ELSE <<>>)
      \o (IF item.seq # 0 THEN <<Frame("business", item.data, item.seq)>> ELSE <<>>)

\* The task QueueSceneSubmission queued: an ONLINE or a request is sent only
\* if its binding is current; a request that is not sent is answered.
Submit(c) ==
    LET item == Head(loop[c])
        s == item.data.clientSession
        accepted == chan[c] = "up" /\ (item.kind = "offline" \/ Current(item, c))
    IN
    /\ loop[c] # <<>>
    /\ loop' = [loop EXCEPT ![c] = Tail(@)]
    /\ wire' = IF accepted THEN [wire EXCEPT ![c] = @ \o Frames(item, sess[s].online)] ELSE wire
    /\ sess' = IF accepted /\ item.kind = "online" THEN [sess EXCEPT ![s].online = TRUE] ELSE sess
    /\ IF ~accepted /\ \E r \in routes : r.seq = item.seq
       THEN Answer(CHOOSE r \in routes : r.seq = item.seq)
       ELSE UNCHANGED requests
    /\ UNCHANGED <<index, playerEpoch, nextSession, conn, job, chan, scene, due>>

\* NetServer::onFrame and handleClose of the scene, on the next thing channel
\* c brings: a request whose binding the channel does not carry is ignored.
SceneReceive(c) ==
    LET m == Head(wire[c]) IN
    /\ wire[c] # <<>>
    /\ wire' = [wire EXCEPT ![c] = Tail(@)]
    /\ scene' =
         IF m.kind = "eof" THEN SceneIndex!CloseIndex(scene, c)
         ELSE IF m.kind = "online" /\ SceneIndex!Bindable(scene, c, m.data)
         THEN SceneIndex!Bind(scene, c, m.data)
         ELSE IF m.kind = "offline" /\ SceneIndex!Matches(scene, c, m.data)
         THEN SceneIndex!Unbind(scene, c, m.data)
         ELSE scene
    /\ due' = IF m.kind = "business" /\ SceneIndex!Matches(scene, c, m.data)
              THEN due \cup {m.seq} ELSE due
    /\ UNCHANGED <<table, conn, job, requests, chan, loop>>

\* HandleBackendFrame, a response: it counts once, while its channel is
\* registered, and a repetition finds no route.
Respond(r) ==
    /\ r.seq \in due
    /\ r.via # 0 => chan[r.via] = "up"
    /\ Answer(r)
    /\ UNCHANGED <<table, conn, job, backend>>

\* The thread that added the route is still in its handler.  The model assumes
\* that the statements it has left take less than routeTtlMs (15 s by default).
BeingRefused(r) == \E s \in Sessions : job[s].at = "refuse" /\ job[s].seq = r.seq

\* SweepRoutes, one expired route: the asker hears of a timeout.
Expire(r) ==
    /\ ~BeingRefused(r)
    /\ Answer(r)
    /\ UNCHANGED <<table, conn, job, backend>>

\* Every client has gone and nothing is left to do.
Quiescent ==
    /\ nextSession \notin Sessions
    /\ \A s \in Sessions : conn[s] = "closed" /\ job[s] = Idle
    /\ \A c \in Channels : chan[c] = "down" /\ loop[c] = <<>> /\ wire[c] = <<>>
    /\ routes = {}
    /\ UNCHANGED vars

ClientStep(s) ==
    \/ \E p \in Players : Auth(s, p)
    \/ \E service \in Services : BindService(s, service) \/ Business(s, service)
    \/ Close(s)

\* The rest of the handler a session's thread is in.
HandlerStep(s) ==
    \/ KickRoutes(s) \/ KickClose(s) \/ AuthNotify(s)
    \/ BindServiceSet(s) \/ BindServiceNotify(s)
    \/ (\E c \in Channels : Select(s, c)) \/ BindScene(s) \/ Reread(s)
    \/ Unavailable(s) \/ Forward(s) \/ ForwardInvalid(s) \/ Refuse(s)
    \/ CloseNotify(s) \/ CloseErase(s) \/ CloseRoutes(s)

Next ==
    \/ Connect
    \/ \E s \in Sessions : ClientStep(s) \/ HandlerStep(s)
    \/ \E c \in Channels : ChannelUp(c) \/ ChannelDown(c) \/ Submit(c) \/ SceneReceive(c)
    \/ \E r \in routes : Respond(r) \/ Expire(r)
    \/ Quiescent

Spec == Init /\ [][Next]_vars

\* Threads and event loops keep running, the sweep's timer keeps firing, and
\* the scene keeps reading.
Fairness ==
    /\ \A s \in Sessions : WF_vars(HandlerStep(s))
    /\ \A c \in Channels : WF_vars(Submit(c)) /\ WF_vars(SceneReceive(c))
    /\ \A q \in 1..MaxSeq : WF_vars(\E r \in routes : r.seq = q /\ Expire(r))

FairSpec == Spec /\ Fairness

-----------------------------------------------------------------------------
(* Properties.                                                             *)

Datas == [player : Players, clientSession : Sessions, epoch : 1..EpochLimit, gateway : {1}]

SessionType ==
    [live : BOOLEAN, authed : BOOLEAN, player : Players \cup {0}, epoch : 0..EpochLimit,
     dst : Services, chan : Channels \cup {0}, online : BOOLEAN]

\* Where a session's thread may be: in a client's request, or in its close.
RequestSteps == {"kick", "kickClose", "notify", "setDst", "moved",
                 "select", "bind", "reread", "forward", "refuse"}
CloseSteps == {"closeNotify", "closeErase", "closeRoutes"}

Jobs == [at : {"idle"} \cup RequestSteps \cup CloseSteps, copy : SessionType,
         arg : Services, old : 0..MaxSession, seq : 0..MaxSeq]

Routes == [seq : 1..MaxSeq, session : Sessions, epoch : 1..EpochLimit, via : Channels \cup {0}]

\* What a channel's loop holds, and what is on the channel: only the code that
\* forwards a request gives a submission a sequence number.
Submissions ==
    [kind : {"online"}, data : Datas, seq : 0..MaxSeq] \cup
    [kind : {"offline"}, data : Datas, seq : {0}]

FrameType ==
    [kind : {"online", "offline"}, data : Datas, seq : {0}] \cup
    [kind : {"business"}, data : Datas, seq : 1..MaxSeq] \cup {EOF}

SceneType ==
    [latest : [Players -> Datas \cup {SceneIndex!NoData}], route : [Players -> Channels \cup {0}],
     byConn : [Channels -> SUBSET Datas]]

Asked == [session : Sessions, epoch : 1..EpochLimit, answers : Nat]

\* Every variable has the shape the code's structures give it.
TypeOK ==
    /\ sess \in [Sessions -> SessionType]
    /\ index \in [Players -> Sessions \cup {0}]
    /\ playerEpoch \in [Players -> 0..EpochLimit]
    /\ nextSession \in 1..(MaxSession + 1)
    /\ conn \in [Sessions -> {"none", "open", "closing", "closed"}]
    /\ job \in [Sessions -> Jobs]
    /\ routes \subseteq Routes
    /\ nextSeq \in 1..(MaxSeq + 1)
    /\ chan \in [Channels -> {"new", "up", "down"}]
    /\ loop \in [Channels -> Seq(Submissions)]
    /\ wire \in [Channels -> Seq(FrameType)]
    /\ scene \in SceneType
    /\ due \subseteq 1..MaxSeq
    /\ asked \in Seq(Asked) /\ Len(asked) = nextSeq - 1

\* A player has one authenticated session, the one the index knows: Bind,
\* the demotion and erasure of a replaced session, and the replaced
\* session's own thread leave no second one, however they interleave.
OneSessionPerPlayer ==
    \A s \in Sessions : sess[s].authed => sess[s].live /\ index[sess[s].player] = s

\* A push for a player goes to a session authenticated as that player
\* (FindByPlayer looks only at the index).
PushGoesHome ==
    \A p \in Players : FindByPlayer(p) # 0 => sess[FindByPlayer(p)].player = p

\* A request on its way to the scene is never ignored there for want of a
\* declaration: its ONLINE is ahead of it on the same channel or has been
\* applied, unless a later login of the player got there first.
DeclaredFirst ==
    \A c \in Channels : \A i \in DOMAIN wire[c] :
      LET d == wire[c][i].data IN
      wire[c][i].kind = "business" =>
        \/ \E k \in 1..(i - 1) : wire[c][k] = Frame("online", d, 0)
        \/ SceneIndex!Matches(scene, c, d)
        \/ scene.latest[d.player].epoch > d.epoch

\* Nothing of a binding follows its OFFLINE: neither its business nor a
\* declaration that would bring the player back.
SilentAfterOffline ==
    /\ \A c \in Channels : \A i, k \in DOMAIN wire[c] :
         i < k /\ wire[c][i].kind = "offline" => wire[c][k].data # wire[c][i].data
    /\ \A p \in Players :
         scene.latest[p] # SceneIndex!NoData /\ scene.route[p] = 0 =>
           \A c \in Channels : \A i \in DOMAIN wire[c] : wire[c][i].data # scene.latest[p]

\* The scene sees the business of a binding between its ONLINE and its OFFLINE,
\* although the frames of a session are queued by two threads.
BindingBracketed == DeclaredFirst /\ SilentAfterOffline

\* What is sent for a player, OFFLINE apart, belongs to its newest epoch: a
\* replaced session, or one that changed its service, sends nothing more,
\* whatever its thread or the event loop still had in hand.
NewestEpochOnly ==
    [][\A c \in Channels : \A i \in DOMAIN wire'[c] \ DOMAIN wire[c] :
         wire'[c][i].kind \in {"online", "business"} =>
           wire'[c][i].data.epoch = playerEpoch[wire'[c][i].data.player]]_vars

\* A client gets at most one answer to a request, whichever of the response,
\* a repetition of it, the refusal in the event loop and the timeout comes.
AnsweredOnce == \A q \in DOMAIN asked : asked[q].answers <= 1

\* Once a connection's close has been handled no route is left that leads to
\* its session, even if the session was replaced while its thread was
\* forwarding a request.
RoutesDieWithSession ==
    \A r \in routes : conn[r.session] = "closed" => job[r.session] # Idle

\* Nothing is under way between the clients and the scene.
Drained ==
    /\ \A s \in Sessions : job[s] = Idle
    /\ \A c \in Channels : loop[c] = <<>> /\ wire[c] = <<>>

\* When nothing is under way, the scene has a player online only for a
\* session that is still there with that binding.
NoGhost ==
    Drained => \A p \in Players :
      scene.route[p] # 0 =>
        LET d == scene.latest[p] IN
        /\ sess[d.clientSession].live
        /\ sess[d.clientSession].player = p /\ sess[d.clientSession].epoch = d.epoch

\* A route that expires is only reclaimed: the client gets no answer from it.
SilentExpiry ==
    [][\A r \in routes : Expire(r) /\ r.seq \notin due => asked' = asked]_vars

\* A request that got a route is answered, unless its session leaves or
\* moves to another epoch first.
EveryRequestSettled ==
    \A q \in 1..MaxSeq :
      (q < nextSeq) ~>
        /\ q < nextSeq
        /\ LET s == asked[q].session IN
           \/ asked[q].answers = 1
           \/ conn[s] # "open" \/ ~sess[s].live \/ sess[s].epoch # asked[q].epoch

\* The epoch of an authenticated session is its player's newest.
EpochIsNewest ==
    \A s \in Sessions : sess[s].authed =>
      /\ sess[s].player \in Players
      /\ sess[s].epoch = playerEpoch[sess[s].player] /\ sess[s].epoch >= 1

\* A session has a player only while it is authenticated: a demotion clears both.
PlayerIsAuthed == \A s \in Sessions : sess[s].player # 0 => sess[s].authed

\* A thread handles requests only on a connection that has not closed, and
\* the close only on one that has.
HandlersOpen ==
    \A s \in Sessions :
      /\ s >= nextSession => conn[s] = "none"
      /\ job[s].at \in RequestSteps => conn[s] \in {"open", "closing"}
      /\ job[s].at \in CloseSteps => conn[s] = "closed"

\* What a handler goes on with after other threads came in between names a
\* player, an epoch and a replaced session that were there when it read them.
\* A session may have been demoted when it is read again: then the copy has no
\* player, and the thread refuses the request.
CopyValid(s) ==
    LET j == job[s] IN
    /\ j.at \in {"kick", "kickClose"} => j.old \in Sessions
    /\ j.copy.authed => j.copy.player \in Players /\ j.copy.epoch >= 1
    /\ j.at \in {"select", "bind"} => sess[s].chan = 0
    /\ j.at \in {"select", "bind", "reread"} /\ sess[s].live => sess[s].epoch >= 1
    /\ j.at = "forward" => j.copy.epoch >= 1 /\ (j.copy.player # 0 => j.copy.authed)

CopiesValid == \A s \in Sessions : CopyValid(s)

\* The channel a thread has chosen was registered, though it may be gone by now.
ChosenChannels ==
    \A s \in Sessions :
      job[s].at = "bind" => job[s].copy.chan # 0 /\ chan[job[s].copy.chan] # "new"

\* A route stands for a request of its own that nobody has answered.
RoutesUnanswered ==
    /\ nextSeq + Cardinality(Waiting) <= MaxSeq + 1
    /\ \A r \in routes : r.seq < nextSeq /\ asked[r.seq].answers = 0
    /\ \A q, r \in routes : q.seq = r.seq => q = r

\* The request with this number is on its way to a backend, or has reached it.
UnderWay(q) ==
    \/ q \in due
    \/ \E c \in Channels :
         \/ \E i \in DOMAIN loop[c] : loop[c][i].seq = q
         \/ \E i \in DOMAIN wire[c] : wire[c][i].seq = q

\* Only a request that was given its number is on its way.
NumbersGiven == \A q \in 1..MaxSeq : UnderWay(q) => q < nextSeq

\* A request that is being refused has gone to no backend and has had no answer.
RefusedUnsent ==
    \A s \in Sessions :
      LET q == job[s].seq IN
      job[s].at = "refuse" =>
        /\ q \in 1..(nextSeq - 1) /\ asked[q].answers = 0
        /\ ~UnderWay(q)
        /\ \A t \in Sessions \ {s} : job[t].at = "refuse" => job[t].seq # q

\* The session table keeps its types and at most one authenticated session of
\* a player, with the player's newest epoch, whatever the threads of two logins
\* do to each other; what a thread has copied stays usable; a request that is
\* refused reaches no backend; and a session that is gone leaves no route
\* behind, nor does an answered request.
GatewayInv ==
    /\ TypeOK
    /\ OneSessionPerPlayer
    /\ EpochIsNewest
    /\ PlayerIsAuthed
    /\ HandlersOpen
    /\ CopiesValid
    /\ ChosenChannels
    /\ RoutesUnanswered
    /\ NumbersGiven
    /\ RefusedUnsent
    /\ RoutesDieWithSession
=============================================================================
