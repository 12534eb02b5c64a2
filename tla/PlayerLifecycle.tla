--------------------------- MODULE PlayerLifecycle ---------------------------
(***************************************************************************)
(* The life of a player on its logic worker: the gateway's ONLINE and      *)
(* OFFLINE notifications (LogicThread::onPlayerBinding), the load from the *)
(* database (advancePlayerLoads, handlePlayerLoadResult), the save records *)
(* of PlayerPersistence, logout, the drain before shutdown, a killed and   *)
(* restarted process, and the versioned row that save and load             *)
(* transactions work on (executeTransaction, PlayerSnapshotDao).           *)
(*                                                                         *)
(* Database tasks are delivered as DbTaskContract says: decided once and   *)
(* handed over once, in any order.  A player's data (hp, gold, position,   *)
(* bag) is a stamp: the number of the mutation that produced it.  Client   *)
(* bindings of a player come from one gateway and scene and differ by      *)
(* their clientEpoch; each belongs to one connection (MsgHead::session).   *)
(* Persistence is enabled (cfg_.persistenceEnabled).                       *)
(***************************************************************************)
EXTENDS Integers, FiniteSets

CONSTANTS
    Players,       \* players of this worker
    SessionOf,     \* SessionOf[e]: connection of the binding with clientEpoch e
    MaxEpoch,      \* bound: client epochs 1..MaxEpoch occur
    MaxStamp,      \* bound: mutations per player
    MaxRecords,    \* PlayerPersistence::kMaxPlayers
    MaxRestarts    \* bound: how often the process is killed

ASSUME LifecycleBounds == MaxEpoch \in Nat /\ MaxStamp \in Nat /\ MaxRestarts \in Nat
ASSUME RecordsAssumption == MaxRecords \in Nat \ {0}
ASSUME SessionAssumption == DOMAIN SessionOf = 1..MaxEpoch

Epochs == 1..MaxEpoch

VARIABLES
    actor,     \* PlayerManager::actors_; epoch 0: the player has no actor
    load,      \* playerLoads_; binding 0: the player is not loading
    latest,    \* latestClientBindings_: highest client epoch seen
    rec,       \* PlayerPersistence::records_; state "none": no record
    inScene,   \* the player's AOI entity is active
    phase,     \* "running", "draining", "stopped" (drain ok), "failed" (deadline)
    ids,       \* last actor epoch and last task identity used for the player
    tasks,     \* database tasks registered and not yet handed back
    row,       \* the player's committed state in MySQL
    last,      \* history: stamp of the player's latest loaded or mutated state
    saved,     \* history: highest stamp whose save was confirmed to the worker
    stamp,     \* history: mutations so far
    restarts

worker == <<actor, load, latest, rec, inScene, ids>>
history == <<saved, stamp, restarts>>
vars == <<worker, phase, tasks, row, last, history>>

NoActor == [epoch |-> 0, binding |-> 0, stamp |-> 0, revision |-> 0,
            persistedVersion |-> 0, persistedRevision |-> 0, dirty |-> FALSE]
NoLoad == [binding |-> 0, taskId |-> 0, actorEpoch |-> 0, failed |-> FALSE, enter |-> FALSE]
NoSnapshot == [version |-> 0, revision |-> 0, stamp |-> 0]
NoRecord == [state |-> "none", actorEpoch |-> 0, nextVersion |-> 0, confirmedRevision |-> 0,
             taskId |-> 0, offline |-> FALSE, active |-> NoSnapshot, queued |-> NoSnapshot]

Online(p) == actor[p].epoch # 0
Loading(p) == load[p].binding # 0
HasRecord(p) == rec[p].state # "none"

Actors == [epoch : Nat, binding : 0..MaxEpoch, stamp : 0..MaxStamp, revision : 0..MaxStamp,
           persistedVersion : Nat, persistedRevision : 0..MaxStamp, dirty : BOOLEAN]
Loads == [binding : 0..MaxEpoch, taskId : Nat, actorEpoch : Nat, failed : BOOLEAN, enter : BOOLEAN]
Snapshots == [version : Nat, revision : 0..MaxStamp, stamp : 0..MaxStamp]
Records == [state : {"none", "Idle", "AwaitResult", "Blocked"}, actorEpoch : Nat,
            nextVersion : Nat, confirmedRevision : 0..MaxStamp, taskId : Nat,
            offline : BOOLEAN, active : Snapshots, queued : Snapshots]
Rows == [version : Nat, stamp : 0..MaxStamp]
DbTasks == [player : Players, id : Nat, kind : {"load", "save"}, snapshot : Snapshots,
            class : {"pending", "success", "failure"}]

\* Every variable has the type of the structure it stands for.
TypeOK ==
    /\ actor \in [Players -> Actors]
    /\ load \in [Players -> Loads]
    /\ latest \in [Players -> 0..MaxEpoch]
    /\ rec \in [Players -> Records]
    /\ inScene \in [Players -> BOOLEAN]
    /\ phase \in {"running", "draining", "stopped", "failed"}
    /\ ids \in [Players -> [epoch : Nat, task : Nat]]
    /\ tasks \subseteq DbTasks
    /\ row \in [Players -> Rows]
    /\ last \in [Players -> 0..MaxStamp]
    /\ saved \in [Players -> 0..MaxStamp]
    /\ stamp \in [Players -> 0..MaxStamp]
    /\ restarts \in 0..MaxRestarts

Init ==
    /\ actor = [p \in Players |-> NoActor]
    /\ load = [p \in Players |-> NoLoad]
    /\ latest = [p \in Players |-> 0]
    /\ rec = [p \in Players |-> NoRecord]
    /\ inScene = [p \in Players |-> FALSE]
    /\ ids = [p \in Players |-> [epoch |-> 0, task |-> 0]]
    /\ phase = "running"
    /\ tasks = {}
    /\ row = [p \in Players |-> [version |-> 0, stamp |-> 0]]
    /\ last = [p \in Players |-> 0]
    /\ saved = [p \in Players |-> 0]
    /\ stamp = [p \in Players |-> 0]
    /\ restarts = 0

NewTask(p, kind, snapshot) ==
    [player |-> p, id |-> ids[p].task + 1, kind |-> kind, snapshot |-> snapshot,
     class |-> "pending"]

-----------------------------------------------------------------------------
(* Binding and loading *)

\* PlayerManager::getOrCreate for the binding e: the actor keeps its epoch
\* only for the same connection.
KeepsEpoch(p, e) == Online(p) /\ SessionOf[actor[p].binding] = SessionOf[e]

\* One visit of advancePlayerLoads for the load l: create the actor and submit
\* the load task; `accepted' tells whether PendingDbTasks registers it.  The
\* epoch is a fresh one when `renewed' or when getOrCreate makes one.
StartLoad(p, l, renewed, accepted) ==
    LET keep == KeepsEpoch(p, l.binding) /\ ~renewed
        epoch == IF keep THEN actor[p].epoch ELSE ids[p].epoch + 1
    IN  /\ actor' = [actor EXCEPT ![p] =
                        [(IF Online(p) THEN @ ELSE NoActor)
                            EXCEPT !.epoch = epoch, !.binding = l.binding]]
        /\ latest' = [latest EXCEPT ![p] = l.binding]
        /\ load' = [load EXCEPT ![p] = IF accepted
                      THEN [l EXCEPT !.taskId = ids[p].task + 1, !.actorEpoch = epoch]
                      ELSE l]
        /\ tasks' = IF accepted THEN tasks \cup {NewTask(p, "load", NoSnapshot)} ELSE tasks
        /\ ids' = [ids EXCEPT ![p] =
                     [epoch |-> IF keep THEN @.epoch ELSE @.epoch + 1,
                      task |-> IF accepted THEN @.task + 1 ELSE @.task]]

\* PlayerPersistence::blocksLogin
BlocksLogin(p) == rec[p].offline

\* ONLINE for a player without a loaded actor: a newer binding replaces the
\* load in progress, and the visit of advancePlayerLoads follows at once.
BindLoading(p, e) ==
    /\ phase = "running"
    /\ latest[p] < e
    /\ Loading(p) => load[p].binding < e
    /\ ~Online(p) \/ Loading(p)
    /\ Loading(p) \/ Cardinality({q \in Players : Loading(q)}) < MaxRecords
    /\ LET l == [NoLoad EXCEPT !.binding = e] IN
       IF BlocksLogin(p)
         THEN /\ load' = [load EXCEPT ![p] = l]
              /\ UNCHANGED <<actor, latest, ids, tasks>>
         ELSE \E accepted \in BOOLEAN : StartLoad(p, l, Online(p), accepted)
    /\ UNCHANGED <<rec, inScene, phase, row, last, history>>

\* Mutant of BindLive: an older binding is not refused.
BindAnyEpoch(p, e) ==
    /\ phase = "running"
    /\ latest[p] # e
    /\ Online(p) /\ ~Loading(p)
    /\ actor' = [actor EXCEPT ![p].epoch = ids[p].epoch + 1, ![p].binding = e]
    /\ latest' = [latest EXCEPT ![p] = e]
    /\ ids' = [ids EXCEPT ![p].epoch = @ + 1]
    /\ UNCHANGED <<load, rec, inScene, phase, tasks, row, last, history>>

\* ONLINE for a loaded player: the actor changes hands and gets a fresh epoch,
\* which invalidates asynchronous work of the previous binding.
BindLive(p, e) ==
    /\ phase = "running"
    /\ latest[p] < e
    /\ Online(p) /\ ~Loading(p)
    /\ actor' = [actor EXCEPT ![p].epoch = ids[p].epoch + 1, ![p].binding = e]
    /\ latest' = [latest EXCEPT ![p] = e]
    /\ ids' = [ids EXCEPT ![p].epoch = @ + 1]
    /\ UNCHANGED <<load, rec, inScene, phase, tasks, row, last, history>>

\* advancePlayerLoads in the main loop, for a load not submitted yet.
AdvanceLoad(p) ==
    /\ phase = "running"
    /\ Loading(p) /\ ~load[p].failed /\ load[p].taskId = 0 /\ ~BlocksLogin(p)
    /\ StartLoad(p, load[p], FALSE, TRUE)
    /\ UNCHANGED <<rec, inScene, phase, row, last, history>>

\* Mutant of LoadSucceeds: the task identity is not compared.
LoadAnyResult(t) ==
    LET p == t.player IN
    /\ t.kind = "load" /\ t.class = "success"
    /\ Loading(p) /\ load[p].taskId # 0
    /\ actor' = [actor EXCEPT ![p] = [@ EXCEPT !.stamp = t.snapshot.stamp, !.revision = 0,
                    !.persistedVersion = t.snapshot.version, !.persistedRevision = 0,
                    !.dirty = FALSE]]
    /\ inScene' = [inScene EXCEPT ![p] = load[p].enter]
    /\ load' = [load EXCEPT ![p] = NoLoad]
    /\ tasks' = tasks \ {t}
    /\ UNCHANGED <<latest, rec, ids, phase, row, last, history>>

\* handlePlayerLoadResult, success: restoreSaveSnapshot starts a new revision
\* count, and the ENTER_SCENE request kept meanwhile is carried out.
LoadSucceeds(t) ==
    LET p == t.player IN
    /\ t.kind = "load" /\ t.class = "success"
    /\ load[p].taskId = t.id /\ Loading(p)
    /\ Online(p) /\ actor[p].epoch = load[p].actorEpoch /\ actor[p].binding = load[p].binding
    /\ actor' = [actor EXCEPT ![p] = [@ EXCEPT !.stamp = t.snapshot.stamp, !.revision = 0,
                    !.persistedVersion = t.snapshot.version, !.persistedRevision = 0,
                    !.dirty = FALSE]]
    /\ inScene' = [inScene EXCEPT ![p] = load[p].enter]
    /\ load' = [load EXCEPT ![p] = NoLoad]
    /\ tasks' = tasks \ {t}
    /\ UNCHANGED <<latest, rec, ids, phase, row, last, history>>

\* handlePlayerLoadResult, failure: the load stays, marked failed.
LoadFails(t) ==
    LET p == t.player IN
    /\ t.kind = "load" /\ t.class = "failure"
    /\ load[p].taskId = t.id /\ Loading(p)
    /\ load' = [load EXCEPT ![p] = [@ EXCEPT !.failed = TRUE, !.enter = FALSE]]
    /\ tasks' = tasks \ {t}
    /\ UNCHANGED <<actor, latest, rec, inScene, ids, phase, row, last, history>>

\* The result of a load that was replaced or given up is dropped.
DropLoad(t) ==
    /\ t.kind = "load" /\ t.class # "pending"
    /\ ~Loading(t.player) \/ load[t.player].taskId # t.id
    /\ tasks' = tasks \ {t}
    /\ UNCHANGED <<worker, phase, row, last, history>>

\* onNetMsg, PLAYER_ENTER_SCENE: kept while loading, otherwise carried out.
EnterScene(p) ==
    /\ phase = "running"
    /\ IF Loading(p)
         THEN /\ ~load[p].failed /\ ~load[p].enter
              /\ load' = [load EXCEPT ![p].enter = TRUE]
              /\ UNCHANGED inScene
         ELSE /\ Online(p) /\ ~inScene[p]
              /\ inScene' = [inScene EXCEPT ![p] = TRUE]
              /\ UNCHANGED load
    /\ UNCHANGED <<actor, latest, rec, ids, phase, tasks, row, last, history>>

\* onNetMsg, a Lua handler that changes the player's data (recordMutation).
Mutate(p) ==
    /\ phase = "running"
    /\ Online(p) /\ ~Loading(p)
    /\ stamp[p] < MaxStamp
    /\ stamp' = [stamp EXCEPT ![p] = @ + 1]
    /\ last' = [last EXCEPT ![p] = stamp[p] + 1]
    /\ actor' = [actor EXCEPT ![p] = [@ EXCEPT !.stamp = stamp[p] + 1,
                                               !.revision = actor[p].revision + 1, !.dirty = TRUE]]
    /\ UNCHANGED <<load, latest, rec, inScene, ids, phase, tasks, row, saved, restarts>>

-----------------------------------------------------------------------------
(* Saving: PlayerPersistence *)

\* The record request works on: a new one, or the old one with the current
\* epoch of the same living actor.
RecordFor(p, offline) ==
    IF HasRecord(p)
      THEN [rec[p] EXCEPT !.actorEpoch = actor[p].epoch, !.offline = @ \/ offline]
      ELSE [NoRecord EXCEPT !.state = "Idle", !.actorEpoch = actor[p].epoch,
              !.nextVersion = actor[p].persistedVersion,
              !.confirmedRevision = actor[p].persistedRevision, !.offline = offline]

\* request returns false: too many records, or a final save is under way.
RequestRefused(p) ==
    \/ ~HasRecord(p) /\ Cardinality({q \in Players : HasRecord(q)}) >= MaxRecords
    \/ HasRecord(p) /\ rec[p].offline /\ rec[p].actorEpoch # actor[p].epoch

\* The current data is already in a snapshot of this record.
Covered(p, r) ==
    \/ r.active.version # 0 /\ r.active.revision = actor[p].revision /\ r.queued.version = 0
    \/ r.queued.version # 0 /\ r.queued.revision = actor[p].revision

\* The current data is what the database has.
Clean(p, r) ==
    ~actor[p].dirty /\ actor[p].revision = r.confirmedRevision /\ r.active.version = 0

\* freezeSaveSnapshot into `queued', replacing a snapshot not yet sent.
Freeze(p, r) ==
    [r EXCEPT !.nextVersion = @ + 1,
              !.queued = [version |-> r.nextVersion + 1, revision |-> actor[p].revision,
                          stamp |-> actor[p].stamp]]

\* Mutant of Dispatch: a save is sent while another is under way.
DispatchAnyTime(p, r, accepted) ==
    IF r.queued.version # 0 /\ accepted
      THEN /\ rec' = [rec EXCEPT ![p] = [r EXCEPT !.state = "AwaitResult", !.active = r.queued,
                                            !.queued = NoSnapshot, !.taskId = ids[p].task + 1]]
           /\ tasks' = tasks \cup {NewTask(p, "save", r.queued)}
           /\ ids' = [ids EXCEPT ![p].task = @ + 1]
      ELSE /\ rec' = [rec EXCEPT ![p] = r]
           /\ UNCHANGED <<tasks, ids>>

\* dispatch: one save at a time; `accepted' is PendingDbTasks::submit.
Dispatch(p, r, accepted) ==
    IF r.state = "Idle" /\ r.queued.version # 0 /\ accepted
      THEN /\ rec' = [rec EXCEPT ![p] = [r EXCEPT !.state = "AwaitResult", !.active = r.queued,
                                            !.queued = NoSnapshot, !.taskId = ids[p].task + 1]]
           /\ tasks' = tasks \cup {NewTask(p, "save", r.queued)}
           /\ ids' = [ids EXCEPT ![p].task = @ + 1]
      ELSE /\ rec' = [rec EXCEPT ![p] = r]
           /\ UNCHANGED <<tasks, ids>>

\* request, when it takes responsibility for the data.
Request(p, offline) ==
    LET r == RecordFor(p, offline) IN
    /\ ~RequestRefused(p)
    /\ IF Covered(p, r) THEN rec' = [rec EXCEPT ![p] = r] /\ UNCHANGED <<tasks, ids>>
       ELSE IF Clean(p, r)
         THEN /\ rec' = [rec EXCEPT ![p] = IF offline THEN NoRecord ELSE r]
              /\ UNCHANGED <<tasks, ids>>
         ELSE \E accepted \in BOOLEAN : Dispatch(p, Freeze(p, r), accepted)

\* flushDirtyPlayers, for one player.
Flush(p) ==
    /\ phase = "running"
    /\ Online(p) /\ ~Loading(p) /\ actor[p].dirty
    /\ Request(p, FALSE)
    /\ UNCHANGED <<actor, load, latest, inScene, phase, row, last, history>>

\* PlayerPersistence::tick, for a snapshot PendingDbTasks refused before.
PersistTick(p) ==
    /\ phase \in {"running", "draining"}
    /\ rec[p].state = "Idle" /\ rec[p].queued.version # 0
    /\ Dispatch(p, rec[p], TRUE)
    /\ UNCHANGED <<actor, load, latest, inScene, phase, row, last, history>>

\* Mutant of Confirmed: newer changes are marked saved as well.
ConfirmedAll(a, s) ==
    IF s.revision > a.revision \/ s.version < a.persistedVersion THEN a
    ELSE [a EXCEPT !.persistedVersion = s.version, !.persistedRevision = s.revision,
                   !.dirty = FALSE]

\* Player::confirmSave
Confirmed(a, s) ==
    IF s.revision > a.revision \/ s.version < a.persistedVersion THEN a
    ELSE [a EXCEPT !.persistedVersion = s.version, !.persistedRevision = s.revision,
                   !.dirty = @ /\ s.revision # a.revision]

\* Mutant of SaveSucceeds: the last save of an offline player is forgotten when
\* an earlier one ends.
SaveForgetsQueued(t) ==
    LET p == t.player
        r == rec[p]
        s == r.active
        done == [r EXCEPT !.confirmedRevision = s.revision, !.active = NoSnapshot,
                          !.taskId = 0, !.state = "Idle"]
    IN  /\ t.kind = "save" /\ t.class = "success"
        /\ r.state = "AwaitResult" /\ r.taskId = t.id
        /\ actor' = IF Online(p) /\ actor[p].epoch = r.actorEpoch /\ ~r.offline
                      THEN [actor EXCEPT ![p] = Confirmed(@, s)]
                      ELSE actor
        /\ rec' = [rec EXCEPT ![p] = IF r.offline THEN NoRecord ELSE done]
        /\ saved' = [saved EXCEPT ![p] = IF s.stamp > @ THEN s.stamp ELSE @]
        /\ tasks' = tasks \ {t}
        /\ UNCHANGED <<load, latest, inScene, ids, phase, row, last, stamp, restarts>>

\* complete, success: the save is confirmed to a living actor of the record's
\* epoch; the record of a player gone offline ends with its last save.
SaveSucceeds(t) ==
    LET p == t.player
        r == rec[p]
        s == r.active
        done == [r EXCEPT !.confirmedRevision = s.revision, !.active = NoSnapshot,
                          !.taskId = 0, !.state = "Idle"]
    IN  /\ t.kind = "save" /\ t.class = "success"
        /\ r.state = "AwaitResult" /\ r.taskId = t.id
        /\ actor' = IF Online(p) /\ actor[p].epoch = r.actorEpoch /\ ~r.offline
                      THEN [actor EXCEPT ![p] = Confirmed(@, s)]
                      ELSE actor
        /\ rec' = [rec EXCEPT ![p] = IF r.offline /\ r.queued.version = 0 THEN NoRecord ELSE done]
        /\ saved' = [saved EXCEPT ![p] = IF s.stamp > @ THEN s.stamp ELSE @]
        /\ tasks' = tasks \ {t}
        /\ UNCHANGED <<load, latest, inScene, ids, phase, row, last, stamp, restarts>>

\* complete, anything but success: the record is blocked for good, and keeps
\* the data that may or may not be in the database.
SaveFails(t) ==
    LET p == t.player IN
    /\ t.kind = "save" /\ t.class = "failure"
    /\ rec[p].state = "AwaitResult" /\ rec[p].taskId = t.id
    /\ rec' = [rec EXCEPT ![p] = [@ EXCEPT !.state = "Blocked"]]
    /\ tasks' = tasks \ {t}
    /\ UNCHANGED <<actor, load, latest, inScene, ids, phase, row, last, history>>

-----------------------------------------------------------------------------
(* Logout, drain and restart *)

\* logoutPlayer: the actor leaves the scene and is destroyed once its last
\* state is in a snapshot, or known to be saved.
Logout(p) ==
    /\ Request(p, TRUE)
    /\ actor' = [actor EXCEPT ![p] = NoActor]
    /\ load' = [load EXCEPT ![p] = NoLoad]
    /\ inScene' = [inScene EXCEPT ![p] = FALSE]

\* Mutant of LogoutRefused: the actor is destroyed without its snapshot.
LogoutLosesActor(p) ==
    /\ RequestRefused(p)
    /\ inScene' = [inScene EXCEPT ![p] = FALSE]
    /\ actor' = [actor EXCEPT ![p] = NoActor]
    /\ UNCHANGED <<load, rec, tasks, ids>>

\* logoutPlayer without room for a record: the actor is preserved, out of
\* the scene.
LogoutRefused(p) ==
    /\ RequestRefused(p)
    /\ inScene' = [inScene EXCEPT ![p] = FALSE]
    /\ UNCHANGED <<actor, load, rec, tasks, ids>>

\* OFFLINE of the loaded player's binding, or the client's LOGOUT.
GoOffline(p) ==
    /\ phase = "running"
    /\ Online(p) /\ ~Loading(p)
    /\ Logout(p) \/ LogoutRefused(p)
    /\ UNCHANGED <<latest, phase, row, last, history>>

\* OFFLINE of the binding that is loading: nothing is saved, the actor holds
\* no player data yet.
AbandonLoad(p) ==
    /\ phase = "running"
    /\ Loading(p)
    /\ latest' = [latest EXCEPT ![p] = load[p].binding]
    /\ actor' = IF actor[p].binding = load[p].binding
                  THEN [actor EXCEPT ![p] = NoActor] ELSE actor
    /\ load' = [load EXCEPT ![p] = NoLoad]
    /\ UNCHANGED <<rec, inScene, ids, phase, tasks, row, last, history>>

\* requestDrain: players still loading are dropped; the others are logged out.
BeginDrain ==
    /\ phase = "running"
    /\ phase' = "draining"
    /\ actor' = [p \in Players |-> IF Loading(p) THEN NoActor ELSE actor[p]]
    /\ load' = [p \in Players |-> NoLoad]
    /\ UNCHANGED <<latest, rec, inScene, ids, tasks, row, last, history>>

DrainLogout(p) ==
    /\ phase = "draining"
    /\ Online(p)
    /\ Logout(p) \/ LogoutRefused(p)
    /\ UNCHANGED <<latest, phase, row, last, history>>

\* PlayerPersistence::unsettled for one player
Unsettled(r) ==
    \/ r.state \notin {"none", "Idle"}
    \/ r.active.version # 0 \/ r.queued.version # 0

Drained ==
    /\ \A p \in Players : ~Online(p) /\ ~Unsettled(rec[p])
    /\ tasks = {}

FinishDrain ==
    /\ phase = "draining" /\ Drained
    /\ phase' = "stopped"
    /\ UNCHANGED <<worker, tasks, row, last, history>>

\* drainDeadline_: the worker stops with saves still open.
DrainTimeout ==
    /\ phase = "draining" /\ ~Drained
    /\ phase' = "failed"
    /\ UNCHANGED <<worker, tasks, row, last, history>>

\* The process ends, killed or after a drain, and starts again: its memory is
\* lost and with it every task the database has not executed.
Restart ==
    /\ restarts < MaxRestarts
    /\ restarts' = restarts + 1
    /\ phase' = "running"
    /\ actor' = [p \in Players |-> NoActor]
    /\ load' = [p \in Players |-> NoLoad]
    /\ latest' = [p \in Players |-> 0]
    /\ rec' = [p \in Players |-> NoRecord]
    /\ inScene' = [p \in Players |-> FALSE]
    /\ ids' = [p \in Players |-> [epoch |-> 0, task |-> 0]]
    /\ tasks' = {}
    /\ last' = [p \in Players |-> row[p].stamp]
    /\ UNCHANGED <<row, saved, stamp>>

-----------------------------------------------------------------------------
(* The database *)

Decide(t, class) == tasks' = (tasks \ {t}) \cup {[t EXCEPT !.class = class]}

\* A load transaction reads the row, or fails.
ExecuteLoad(t) ==
    /\ t.kind = "load" /\ t.class = "pending"
    /\ \/ tasks' = (tasks \ {t}) \cup
                {[t EXCEPT !.class = "success",
                           !.snapshot = [version |-> row[t.player].version, revision |-> 0,
                                         stamp |-> row[t.player].stamp]]}
       \/ Decide(t, "failure")
    /\ UNCHANGED <<worker, phase, row, last, history>>

\* A save transaction is applied to an older row, or found applied already;
\* a newer row, or other data under the same version, is left alone.
ApplySave(t) ==
    LET p == t.player
        s == t.snapshot
    IN  IF row[p].version < s.version
          THEN /\ row' = [row EXCEPT ![p] = [version |-> s.version, stamp |-> s.stamp]]
               /\ Decide(t, "success")
          ELSE /\ Decide(t, IF row[p] = [version |-> s.version, stamp |-> s.stamp]
                              THEN "success" ELSE "failure")
               /\ UNCHANGED row

\* An error: rolled back, or the commit is not confirmed although applied.
FailSave(t) ==
    /\ Decide(t, "failure")
    /\ \/ UNCHANGED row
       \/ /\ row[t.player].version < t.snapshot.version
          /\ row' = [row EXCEPT ![t.player] =
                       [version |-> t.snapshot.version, stamp |-> t.snapshot.stamp]]

ExecuteSave(t) ==
    /\ t.kind = "save" /\ t.class = "pending"
    /\ ApplySave(t) \/ FailSave(t)
    /\ UNCHANGED <<worker, phase, last, history>>

-----------------------------------------------------------------------------
PlayerStep(p) ==
    \/ \E e \in Epochs : BindLoading(p, e) \/ BindLive(p, e)
    \/ AdvanceLoad(p) \/ EnterScene(p) \/ Mutate(p)
    \/ Flush(p) \/ PersistTick(p)
    \/ GoOffline(p) \/ AbandonLoad(p) \/ DrainLogout(p)

\* onDbResult, while the worker's loop runs.
ResultStep(t) ==
    /\ phase \in {"running", "draining"}
    /\ \/ LoadSucceeds(t) \/ LoadFails(t) \/ DropLoad(t)
       \/ SaveSucceeds(t) \/ SaveFails(t)

DatabaseStep(t) == ExecuteLoad(t) \/ ExecuteSave(t)

Next ==
    \/ \E p \in Players : PlayerStep(p)
    \/ \E t \in tasks : ResultStep(t) \/ DatabaseStep(t)
    \/ BeginDrain \/ FinishDrain \/ DrainTimeout \/ Restart

Spec == Init /\ [][Next]_vars

(* Fairness.  The main loop visits every load and every record, the periodic  *)
(* flush visits every dirty player, and the delivery layer executes and hands *)
(* back every registered task (DbTaskContract, which TaskDelivery implements).*)
(* Nothing is assumed of clients, of shutdown, of the deadline or of kills.   *)
Fairness ==
    /\ \A p \in Players :
         WF_vars(AdvanceLoad(p)) /\ WF_vars(Flush(p)) /\ WF_vars(PersistTick(p))
           /\ WF_vars(DrainLogout(p))
    /\ WF_vars(\E t \in tasks : ResultStep(t))
    /\ WF_vars(\E t \in tasks : DatabaseStep(t))
    /\ WF_vars(FinishDrain)

FairSpec == Spec /\ Fairness

-----------------------------------------------------------------------------
(* Properties *)

\* A loaded player has exactly the state it had when it was last online, or,
\* after a restart, the state of its row: re-login never overtakes the final
\* save (blocksLogin) and never restores older data.
LoadedIsLatest ==
    \A p \in Players : (Online(p) /\ ~Loading(p)) => actor[p].stamp = last[p]

\* While the final save of a player is open the player has no actor, so
\* PlayerPersistence::request never meets an offline record of a live actor.
FinalSaveExcludesActor ==
    \A p \in Players : rec[p].offline => (~Online(p) /\ HasRecord(p))

\* A player that is not dirty is in the database, so logoutPlayer and the clean
\* branch of request may destroy it without a save; and what was once confirmed
\* to the worker is never lost or overwritten by an older state, restarts included.
CleanIsSaved ==
    \A p \in Players :
        /\ (Online(p) /\ ~Loading(p) /\ ~actor[p].dirty) => row[p].stamp = actor[p].stamp
        /\ saved[p] <= row[p].stamp

\* A drain that reports success (drainSucceeded_) has lost nothing: the last
\* state of every player is committed.
DrainLosesNothing ==
    phase = "stopped" => \A p \in Players : row[p].stamp = last[p]

\* The result of the current load is always applicable: the identity and epoch
\* tests of handlePlayerLoadResult never leave a load waiting for ever.
LoadIsApplicable ==
    \A p \in Players : (Loading(p) /\ load[p].taskId # 0) =>
        /\ Online(p)
        /\ actor[p].epoch = load[p].actorEpoch
        /\ actor[p].binding = load[p].binding

\* A save under way is the record's active snapshot, one per player, its
\* version has not been used for other data, and the row has its data once it
\* succeeded: complete never meets a mismatch and executeTransaction never a
\* version conflict or a superseded save.
SaveMatchesRecord ==
    \A t \in tasks : t.kind = "save" =>
        LET s == t.snapshot IN
        /\ rec[t.player].state = "AwaitResult"
        /\ rec[t.player].taskId = t.id
        /\ rec[t.player].active = s
        /\ t.class = "pending" => row[t.player].version < s.version
        /\ t.class = "success" => row[t.player] = [version |-> s.version, stamp |-> s.stamp]

\* Nobody is in a scene with default data: entering waits for the load.
InSceneIsLoaded == \A p \in Players : inScene[p] => (Online(p) /\ ~Loading(p))

\* A binding is never taken over by an older one while the process lives.
BindingNeverRegresses ==
    [][restarts' = restarts =>
         \A p \in Players : /\ latest[p] <= latest'[p]
                            /\ (Online(p) /\ actor'[p].epoch # 0) =>
                                  actor[p].binding <= actor'[p].binding]_vars

Blocked(p) == rec[p].state = "Blocked"

\* The save of p is held up: its record is blocked, or it has none and the
\* table is full (kMaxPlayers): records of players online and blocked ones stay.
HeldUp(p) ==
    \/ Blocked(p)
    \/ ~HasRecord(p) /\ Cardinality({q \in Players : HasRecord(q)}) >= MaxRecords

\* Every state of a player is saved in the end, unless the save is held up, the
\* deadline ends the worker or a kill takes the state away; and every login is
\* decided: loaded, failed, given up, or held back by a blocked final save.
EventuallyServed ==
    \A p \in Players :
        /\ \A n \in 1..MaxStamp :
             (last[p] = n) ~> (row[p].stamp >= n \/ HeldUp(p) \/ phase = "failed" \/ last[p] < n)
        /\ Loading(p) ~> (~Loading(p) \/ load[p].failed \/ Blocked(p))

\* What a load read is still the row when its result is applied.
LoadMatchesRow ==
    \A t \in tasks : (t.kind = "load" /\ t.class = "success" /\ Loading(t.player) /\ load[t.player].taskId = t.id) =>
        t.snapshot.version = row[t.player].version /\ t.snapshot.stamp = row[t.player].stamp

\* Task identities are not used twice in the life of a process.
IdentitiesFresh ==
    /\ \A t \in tasks : t.id \in 1..ids[t.player].task
    /\ \A t, u \in tasks : (t.player = u.player /\ t.id = u.id) => t = u

Loaded(p) == Online(p) /\ ~Loading(p)

\* Bindings: the actor has the latest one, a load an equal or newer one.
BindingInv(p) ==
    /\ Online(p) => actor[p].binding = latest[p]
    /\ Loading(p) => phase = "running" /\ latest[p] <= load[p].binding
    /\ (Loading(p) /\ Online(p)) => actor[p].binding = load[p].binding

\* The shape of a record: one exists for a loaded player or for a final save;
\* `active' is what was sent, and a final save has something left to send.
RecordInv(p) ==
    LET r == rec[p] IN
    /\ HasRecord(p) => r.offline \/ Loaded(p)
    /\ ~HasRecord(p) => r = NoRecord
    /\ r.active.version # 0 <=> r.state \in {"AwaitResult", "Blocked"}
    /\ r.offline => r.active.version # 0 \/ r.queued.version # 0

\* Versions and states rise from the row over `active' to `queued', and no
\* version above nextVersion was ever used.
VersionsRise(p) ==
    LET r == rec[p] IN
    /\ saved[p] <= row[p].stamp /\ row[p].stamp <= last[p] /\ last[p] <= stamp[p]
    /\ HasRecord(p) => row[p].version <= r.nextVersion
    /\ r.active.version # 0 =>
         /\ row[p].version <= r.active.version /\ r.active.version <= r.nextVersion
         /\ row[p].stamp <= r.active.stamp /\ r.active.stamp <= last[p]
    /\ r.queued.version # 0 =>
         /\ row[p].version < r.queued.version /\ r.queued.version = r.nextVersion
         /\ row[p].stamp <= r.queued.stamp /\ r.queued.stamp <= last[p]
    /\ (r.active.version # 0 /\ r.queued.version # 0) =>
         /\ r.active.version < r.queued.version /\ r.active.revision < r.queued.revision
         /\ r.active.stamp <= r.queued.stamp

\* A snapshot that is open in a loaded player's record: newer than what the
\* player knows to be saved, and of the state the player had at its revision.
OpenSnapshot(p, s) ==
    LET a == actor[p] IN
    s.version # 0 =>
        /\ a.persistedVersion < s.version
        /\ a.persistedRevision < s.revision /\ rec[p].confirmedRevision <= s.revision
        /\ s.revision <= a.revision /\ s.stamp = a.stamp - (a.revision - s.revision)

\* A loaded player: its state is the latest, it is dirty exactly if it was
\* changed after the last save it knows of, and otherwise it is in the row.
LoadedInv(p) ==
    LET a == actor[p]
        r == rec[p]
    IN  Loaded(p) =>
        /\ a.stamp = last[p]
        /\ a.revision > 0 => a.stamp = stamp[p]
        /\ a.persistedRevision <= a.revision /\ a.revision <= stamp[p]
        /\ a.dirty <=> a.revision # a.persistedRevision
        /\ ~a.dirty => row[p].stamp = a.stamp
        /\ ~HasRecord(p) => a.persistedVersion = row[p].version /\ a.persistedRevision = 0
        /\ HasRecord(p) => /\ a.persistedVersion <= r.nextVersion
                           /\ a.persistedRevision <= r.confirmedRevision /\ r.confirmedRevision <= a.revision
        /\ OpenSnapshot(p, r.active) /\ OpenSnapshot(p, r.queued)

\* A player that is away or loading: its last state is in the final save, or
\* in the row when there is none.
AwayInv(p) ==
    LET r == rec[p] IN
    ~Loaded(p) =>
        /\ ~HasRecord(p) => row[p].stamp = last[p]
        /\ r.queued.version # 0 => r.queued.stamp = last[p]
        /\ (r.queued.version = 0 /\ r.active.version # 0) => r.active.stamp = last[p]

\* A finished drain leaves neither players nor records.
StoppedInv == phase = "stopped" => \A p \in Players : ~Online(p) /\ ~HasRecord(p)

\* The records of a worker agree: types; no actor beside an open final save; a
\* load in flight is for the waiting binding and finds the row it read; a save
\* in flight is its record's active snapshot; only a loaded player is in the
\* scene; and versions, revisions and states of actor, record and row fit
\* together.  The invariant is inductive.
LifecycleInv ==
    /\ TypeOK
    /\ FinalSaveExcludesActor
    /\ LoadIsApplicable
    /\ SaveMatchesRecord
    /\ LoadMatchesRow
    /\ IdentitiesFresh
    /\ InSceneIsLoaded
    /\ \A p \in Players :
         BindingInv(p) /\ RecordInv(p) /\ VersionsRise(p) /\ LoadedInv(p) /\ AwayInv(p)
    /\ StoppedInv
=============================================================================
