------------------------------ MODULE AoiViews ------------------------------
(***************************************************************************)
(* What one worker shows its clients of the scene: the grid and the dirty  *)
(* marks of AoiReplica, the observers of AoiViewSet (committed baseline,   *)
(* view sequence, resynchronisation), ProcessAoiClientObserver, the epoch  *)
(* check of WorkerPushSink::sendToClient, and the callers in PlayerService *)
(* and LogicThread (EnterScene, Move, LeaveScene, onPlayerBinding, logout, *)
(* ViewResyncReq).                                                         *)
(*                                                                         *)
(* Entities of other workers change as module AoiReplication allows: by    *)
(* newer generations and versions, or by disappearing.  The parts of a     *)
(* view snapshot are sent inside one handler, so snapshotTasks_ is empty   *)
(* between steps; resyncRevision, which only guards such tasks, is left    *)
(* out.  markPending has no caller and the pending sets stay empty.        *)
(***************************************************************************)
EXTENDS Integers, FiniteSets, AoiGrid

CONSTANTS
    Locals,         \* players of this worker; entity and player share a name
    Foreign,        \* entities of other workers
    Positions,
    PartSize,       \* kPartSize: entities in a part of a view snapshot
    MaxEpoch,       \* bound: client epochs
    MaxChanges      \* bound: changes of the scene and requests of clients

Ids == Locals \cup Foreign

ASSUME ViewsAssumption ==
    /\ Locals \cap Foreign = {} /\ {PartSize, MaxEpoch} \subseteq Nat \ {0} /\ MaxChanges \in Nat
    /\ \A pos \in Positions : pos[1] \in 0..(Cols * CellSize - 1) /\ pos[2] \in 0..(Rows * CellSize - 1)

VARIABLES
    ents,           \* ents_
    generation,     \* LocalIdentity::generation; for Foreign, the newest seen
    entys,          \* AoiCell::entys_ of every cell
    watchers,       \* AoiCell::watchers_ of every cell
    dirty,          \* dirtyObservers_
    views,          \* AoiViewSet::views_
    binding,        \* clientEpoch of the player's binding; 0: no player
    latest,         \* clientEpoch in latestClientBindings_
    client,         \* history: what a client makes of the pushes it is sent
    changes         \* changes so far (bounded)

scene == <<ents, generation, entys, watchers>>
sessions == <<binding, latest>>
vars == <<scene, dirty, views, sessions, client, changes>>

Absent == [gen |-> 0, ver |-> 0, pos |-> <<0, 0>>]
Nothing == [gen |-> 0, ver |-> 0]
NoView == [epoch |-> 0, base |-> [e \in Ids |-> Nothing], seq |-> 1, resync |-> FALSE]
NewClient == [seq |-> 0, view |-> [e \in Ids |-> Absent], broken |-> FALSE]

Here(e) == ents[e] # Absent
Observes(o) == views[o].epoch # 0
Sent(s) == [gen |-> s.gen, ver |-> s.ver]

Change == changes < MaxChanges /\ changes' = changes + 1

-----------------------------------------------------------------------------
(* AoiReplica: entities in the grid and the marks of those who see them.   *)

\* removeEntity and addEntity for the entities that get the states new.
Placed(new) ==
    [c \in Cells |->
        {e \in Ids : IF e \in DOMAIN new
                     THEN new[e] # Absent /\ CellOf(new[e].pos) = c ELSE e \in entys[c]}]

\* Mutant: only the watchers of the new cell are marked.
MarksNewOnly(w, e, s) == IF s # Absent THEN w[CellOf(s.pos)] ELSE {}

\* The observers an entity marks on its way from its state to s, when w are
\* the watchers: those of the cell it was in and those of the cell it is in.
Marks(w, e, s) ==
    (IF Here(e) THEN w[CellOf(ents[e].pos)] ELSE {})
        \cup (IF s # Absent THEN w[CellOf(s.pos)] ELSE {})

\* The watchers when local entity e watches from pos, or nowhere.
WatchFrom(e, cells) == [c \in Cells |-> IF c \in cells THEN watchers[c] \cup {e} ELSE watchers[c] \ {e}]

\* onLocalEntry, onLocalMove, onLocalLeave: the entity watches from its new cell.
PlaceLocal(e, s) ==
    LET w == WatchFrom(e, IF s = Absent THEN {} ELSE WatchCells(s.pos)) IN
    /\ ents' = [ents EXCEPT ![e] = s]
    /\ entys' = Placed([x \in {e} |-> s])
    /\ watchers' = w
    /\ dirty' = (dirty \cup Marks(w, e, s)) \ (IF s = Absent THEN {e} ELSE {})

\* onRemoteEntry, onRemoteMove, onRemoteLeave, and ApplyOwnerSnapshot for the
\* entities it writes: they watch nothing.
PlaceForeign(new) ==
    /\ ents' = [e \in Ids |-> IF e \in DOMAIN new THEN new[e] ELSE ents[e]]
    /\ entys' = Placed(new)
    /\ dirty' = dirty \cup UNION {Marks(watchers, e, new[e]) : e \in DOMAIN new}
    /\ UNCHANGED <<watchers, views, sessions, client>>

\* An event of another worker, applied by Apply.
RemoteEntry(e, pos) ==
    /\ Change
    /\ generation' = [generation EXCEPT ![e] = @ + 1]
    /\ PlaceForeign([x \in {e} |-> [gen |-> generation[e] + 1, ver |-> 1, pos |-> pos]])

RemoteMove(e, pos) ==
    /\ Here(e) /\ ents[e].pos # pos
    /\ Change
    /\ PlaceForeign([x \in {e} |-> [ents[e] EXCEPT !.ver = @ + 1, !.pos = pos]])
    /\ UNCHANGED generation

RemoteLeave(e) ==
    /\ Here(e)
    /\ Change
    /\ PlaceForeign([x \in {e} |-> Absent])
    /\ UNCHANGED generation

\* What an owner snapshot may make of an entity: it disappears, stays, moves
\* on, or has entered anew.
NewerStates(e) ==
    {Absent, ents[e]}
      \cup {[gen |-> generation[e] + 1, ver |-> 1, pos |-> pos] : pos \in Positions}
      \cup (IF Here(e) THEN {[ents[e] EXCEPT !.ver = @ + 1, !.pos = pos] : pos \in Positions} ELSE {})

\* ApplyOwnerSnapshot rewrites several entities in one step.
RemoteSnapshot ==
    /\ Change
    /\ \E new \in [Foreign -> UNION {NewerStates(e) : e \in Foreign}] :
         /\ \A e \in Foreign : new[e] \in NewerStates(e)
         /\ PlaceForeign(new)
         /\ generation' = [e \in Ids |-> IF e \in Foreign /\ new[e].gen > generation[e]
                                         THEN new[e].gen ELSE generation[e]]

-----------------------------------------------------------------------------
(* AoiViewSet and the handlers that maintain observers.                    *)

\* registryObserver and OnPlayerOnline.
Observer(epoch) == [NoView EXCEPT !.epoch = epoch, !.resync = TRUE]

\* PlayerService::EnterScene: a new generation, observed at once.
EnterScene(p, pos) ==
    LET s == [gen |-> generation[p] + 1, ver |-> 1, pos |-> pos]
        w == WatchFrom(p, WatchCells(pos))
    IN
    /\ binding[p] # 0 /\ ~Here(p)
    /\ Change
    /\ ents' = [ents EXCEPT ![p] = s]
    /\ entys' = Placed([x \in {p} |-> s])
    /\ watchers' = w
    /\ generation' = [generation EXCEPT ![p] = @ + 1]
    /\ views' = [views EXCEPT ![p] = IF @.epoch >= binding[p] THEN @ ELSE Observer(binding[p])]
    /\ dirty' = dirty \cup Marks(w, p, s) \cup {p}
    /\ UNCHANGED <<sessions, client>>

\* PlayerService::Move.
Move(p, pos) ==
    /\ Here(p) /\ ents[p].pos # pos
    /\ Change
    /\ PlaceLocal(p, [ents[p] EXCEPT !.ver = @ + 1, !.pos = pos])
    /\ UNCHANGED <<generation, views, sessions, client>>

\* PlayerService::LeaveScene (also called by scripts): the observer goes too.
LeaveScene(p) ==
    /\ Here(p)
    /\ Change
    /\ PlaceLocal(p, Absent)
    /\ views' = [views EXCEPT ![p] = NoView]
    /\ UNCHANGED <<generation, sessions, client>>

\* resetObserver.
Rebind(v, old, new) ==
    IF v.epoch = old /\ v.epoch < new THEN Observer(new) ELSE v

\* onPlayerBinding for ONLINE of a player that is loaded: a newer client
\* session starts with nothing and the observer is reset or registered.
Bind(p, epoch) ==
    /\ epoch > latest[p]
    /\ binding' = [binding EXCEPT ![p] = epoch]
    /\ latest' = [latest EXCEPT ![p] = epoch]
    /\ client' = [client EXCEPT ![p] = NewClient]
    /\ IF Here(p)
       THEN /\ views' = [views EXCEPT ![p] = IF Observes(p) THEN Rebind(@, binding[p], epoch)
                                             ELSE Observer(epoch)]
            /\ dirty' = IF views'[p] = views[p] THEN dirty ELSE dirty \cup {p}
       ELSE UNCHANGED <<views, dirty>>
    /\ UNCHANGED <<scene, changes>>

\* onPlayerBinding for OFFLINE and PLAYER_LOGOUT: OnPlayerOffline, then
\* logoutPlayer, which leaves the scene and removes the actor unless its
\* snapshot finds no room (kept).
Offline(p, kept) ==
    /\ binding[p] # 0
    /\ Change
    /\ IF Here(p) THEN PlaceLocal(p, Absent) ELSE UNCHANGED <<ents, entys, watchers, dirty>>
    /\ views' = [views EXCEPT ![p] = NoView]
    /\ binding' = IF kept THEN binding ELSE [binding EXCEPT ![p] = 0]
    /\ UNCHANGED <<generation, latest, client>>

\* AOI_VIEW_RESYNC_REQ: markNeedResync under the current epoch.
ViewResync(p) ==
    /\ binding[p] # 0 /\ views[p].epoch = binding[p]
    /\ Change
    /\ views' = [views EXCEPT ![p].resync = TRUE]
    /\ dirty' = dirty \cup {p}
    /\ UNCHANGED <<scene, sessions, client>>

-----------------------------------------------------------------------------
(* ProcessObservers and ProcessAoiClientObserver.                          *)

\* getVisibleEntity without the observer itself.
ViewOf(o) ==
    {e \in Ids \ {o} : \E c \in WatchCells(ents[o].pos) :
                          e \in entys[c] /\ Here(e) /\ CellOf(ents[e].pos) = c}

Baseline(o) == [e \in Ids |-> IF e \in ViewOf(o) THEN Sent(ents[e]) ELSE Nothing]

\* sendToClient takes a push only for the epoch of the player's binding.
SameSession(o) == views[o].epoch = binding[o]

\* What SendDelta puts into the frame.
Entered(o) == {e \in ViewOf(o) : views[o].base[e].gen # ents[e].gen}
Moved(o) == {e \in ViewOf(o) \ Entered(o) : views[o].base[e].ver # ents[e].ver}
Left(o) == {e \in Ids \ ViewOf(o) : views[o].base[e] # Nothing}

\* A client that applies frames in view_seq order: it is confused by a gap,
\* by a move of an entity it does not know in that generation and by the
\* departure of one it does not know.
Replay(cl, o) ==
    IF /\ views[o].seq = cl.seq + 1
       /\ \A e \in Moved(o) : cl.view[e].gen = ents[e].gen
       /\ \A e \in Left(o) : cl.view[e].gen = views[o].base[e].gen
    THEN [cl EXCEPT !.seq = @ + 1,
                    !.view = [e \in Ids |-> IF e \in Entered(o) \cup Moved(o) THEN ents[e]
                                            ELSE IF e \in Left(o) THEN Absent ELSE cl.view[e]]]
    ELSE [cl EXCEPT !.broken = TRUE]

\* commitAccepted's checks of the items (processEntry, processMove).
CommitAccepts(o) ==
    /\ \A e \in Entered(o) : ents[e].gen >= views[o].base[e].gen
    /\ \A e \in Moved(o) : ents[e].ver >= views[o].base[e].ver

Unsent(o) == Entered(o) \cup Moved(o) \cup Left(o)

\* The push is refused: the observer stays dirty.
DeltaRefused(o) ==
    /\ Unsent(o) # {}
    /\ UNCHANGED <<views, dirty, client>>

\* SendDelta: nothing to send, or a frame accepted and committed.
SendDelta(o) ==
    \/ /\ Unsent(o) = {}
       /\ dirty' = dirty \ {o}
       /\ UNCHANGED <<views, client>>
    \/ /\ Unsent(o) # {} /\ SameSession(o)
       /\ client' = [client EXCEPT ![o] = Replay(@, o)]
       /\ IF CommitAccepts(o)
          THEN /\ views' = [views EXCEPT ![o].base = Baseline(o), ![o].seq = @ + 1]
               /\ dirty' = dirty \ {o}
          ELSE UNCHANGED <<views, dirty>>

\* Parts of the snapshot of n entities.
Parts(n) == IF n = 0 THEN 1 ELSE (n + PartSize - 1) \div PartSize

\* Mutant: the snapshot counts as sent after its first part.
CompleteEarly(o, accepted) == accepted > 0

\* All parts have been accepted.
Complete(o, accepted) == accepted = Parts(Cardinality(ViewOf(o)))

\* The view snapshot, of which the first parts are accepted: only when all
\* are does the client replace its view and the baseline follow; otherwise
\* the task is aborted and OnClientSendFailed keeps the observer waiting.
SendSnapshot(o, accepted) ==
    /\ accepted <= Parts(Cardinality(ViewOf(o)))
    /\ accepted > 0 => SameSession(o)
    /\ client' = IF accepted = Parts(Cardinality(ViewOf(o)))
                 THEN [client EXCEPT ![o].seq = views[o].seq,
                                     ![o].view = [e \in Ids |-> IF e \in ViewOf(o) THEN ents[e] ELSE Absent]]
                 ELSE client
    /\ IF Complete(o, accepted)
       THEN /\ views' = [views EXCEPT ![o].base = Baseline(o), ![o].seq = @ + 1, ![o].resync = FALSE]
            /\ dirty' = dirty \ {o}
       ELSE /\ views' = [views EXCEPT ![o].resync = TRUE]
            /\ dirty' = dirty \cup {o}

\* One observer in the worker's tick.
ProcessObserver(o) ==
    /\ Observes(o) /\ (o \in dirty \/ views[o].resync)
    /\ IF views[o].resync
       THEN \E accepted \in 0..Parts(Cardinality(Ids)) : SendSnapshot(o, accepted)
       ELSE DeltaRefused(o) \/ SendDelta(o)
    /\ UNCHANGED <<scene, sessions, changes>>

-----------------------------------------------------------------------------
Init ==
    /\ ents = [e \in Ids |-> Absent]
    /\ generation = [e \in Ids |-> 0]
    /\ entys = [c \in Cells |-> {}]
    /\ watchers = [c \in Cells |-> {}]
    /\ dirty = {}
    /\ views = [p \in Locals |-> NoView]
    /\ binding = [p \in Locals |-> 0]
    /\ latest = [p \in Locals |-> 0]
    /\ client = [p \in Locals |-> NewClient]
    /\ changes = 0

Next ==
    \/ \E p \in Locals, pos \in Positions : EnterScene(p, pos) \/ Move(p, pos)
    \/ \E p \in Locals : LeaveScene(p) \/ ViewResync(p) \/ ProcessObserver(p)
    \/ \E p \in Locals, epoch \in 1..MaxEpoch : Bind(p, epoch)
    \/ \E p \in Locals, kept \in BOOLEAN : Offline(p, kept)
    \/ \E e \in Foreign, pos \in Positions : RemoteEntry(e, pos) \/ RemoteMove(e, pos)
    \/ \E e \in Foreign : RemoteLeave(e)
    \/ RemoteSnapshot

Spec == Init /\ [][Next]_vars

-----------------------------------------------------------------------------
(* Properties.                                                             *)

\* The states of an entity, what an observer keeps, and what a client has.
States == [gen : Nat \ {0}, ver : Nat \ {0}, pos : Positions] \cup {Absent}
Views == [epoch : 0..MaxEpoch, base : [Ids -> [gen : Nat, ver : Nat]], seq : Nat, resync : BOOLEAN]
Clients == [seq : Nat, view : [Ids -> States], broken : BOOLEAN]

TypeOK ==
    /\ ents \in [Ids -> States] /\ generation \in [Ids -> Nat]
    /\ entys \in [Cells -> SUBSET Ids] /\ watchers \in [Cells -> SUBSET Locals]
    /\ dirty \subseteq Locals
    /\ views \in [Locals -> Views] /\ client \in [Locals -> Clients]
    /\ binding \in [Locals -> 0..MaxEpoch] /\ latest \in [Locals -> 0..MaxEpoch]

\* No client is ever confused: the frames it is sent have consecutive view
\* sequence numbers and speak of entities it knows, and what it has is the
\* baseline its observer has committed.
ClientFollows ==
    \A p \in Locals : Observes(p) =>
        /\ ~client[p].broken
        /\ ~views[p].resync => /\ client[p].seq + 1 = views[p].seq
                               /\ \A e \in Ids : Sent(client[p].view[e]) = views[p].base[e]

\* What the client of p should see: the entities in range, as they are now.
Scenery(p) ==
    [e \in Ids |-> IF e # p /\ Here(e) /\ Visible(CellOf(ents[p].pos), CellOf(ents[e].pos))
                   THEN ents[e] ELSE Absent]

Settled(p) == Observes(p) /\ p \notin dirty /\ ~views[p].resync

\* The grid says where the entities are: every entity is in its cell and no
\* other, and every local one watches exactly the cells within its radius.
GridInv ==
    /\ \A c \in Cells : entys[c] = {e \in Ids : Here(e) /\ CellOf(ents[e].pos) = c}
    /\ \A c \in Cells : watchers[c] = {p \in Locals : Here(p) /\ Visible(CellOf(ents[p].pos), c)}

\* An observer belongs to an entity in the scene and has the epoch of its
\* player's binding, so that sendToClient never finds the session changed.
ObserverInv ==
    \A p \in Locals :
        /\ Observes(p) => Here(p) /\ views[p].epoch = binding[p]
        /\ binding[p] <= latest[p]

\* State s of e is the one it is in now or an earlier one.
HadState(s, e) ==
    s # Absent =>
        /\ s.gen <= generation[e]
        /\ (Here(e) /\ s.gen = ents[e].gen) =>
             s.ver <= ents[e].ver /\ (s.ver = ents[e].ver => s = ents[e])

\* An entity in the scene has its newest generation, no client was ever
\* confused, and clients know only states that were there.
HistoryInv ==
    /\ \A e \in Ids : Here(e) => ents[e].gen = generation[e]
    /\ \A p \in Locals : ~client[p].broken /\ \A e \in Ids : HadState(client[p].view[e], e)

\* Whatever changed, by whichever worker, no mark is forgotten: an observer
\* that waits for nothing has a client that sees the scene as it is.  The
\* grid, the observers and the history say why.
ViewInv ==
    /\ TypeOK
    /\ GridInv
    /\ ObserverInv
    /\ HistoryInv
    /\ \A p \in Locals : Settled(p) => client[p].view = Scenery(p)
=============================================================================
