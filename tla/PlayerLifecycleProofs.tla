------------------------ MODULE PlayerLifecycleProofs ------------------------
(***************************************************************************)
(* Proofs about PlayerLifecycle, for any set of players, any assignment of *)
(* bindings to connections, any size of the record table and any bounds.   *)
(***************************************************************************)
EXTENDS PlayerLifecycle, TLAPS

\* The parts of LifecycleInv that speak of one player, and of one task.
PlayerInv(p) ==
    /\ rec[p].offline => (~Online(p) /\ HasRecord(p))
    /\ (Loading(p) /\ load[p].taskId # 0) =>
         Online(p) /\ actor[p].epoch = load[p].actorEpoch /\ actor[p].binding = load[p].binding
    /\ inScene[p] => Loaded(p)
    /\ BindingInv(p) /\ RecordInv(p) /\ VersionsRise(p) /\ LoadedInv(p) /\ AwayInv(p)

SaveInv(t) ==
    t.kind = "save" =>
        /\ rec[t.player].state = "AwaitResult"
        /\ rec[t.player].taskId = t.id
        /\ rec[t.player].active = t.snapshot
        /\ t.class = "pending" => row[t.player].version < t.snapshot.version
        /\ t.class = "success" => row[t.player] = [version |-> t.snapshot.version, stamp |-> t.snapshot.stamp]

LoadInv(t) ==
    (t.kind = "load" /\ t.class = "success" /\ Loading(t.player) /\ load[t.player].taskId = t.id) =>
        t.snapshot.version = row[t.player].version /\ t.snapshot.stamp = row[t.player].stamp

TaskInv(t) == SaveInv(t) /\ LoadInv(t) /\ t.id \in 1..ids[t.player].task

Unique == \A t, u \in tasks : (t.player = u.player /\ t.id = u.id) => t = u

\* LifecycleInv, player by player and task by task.
LEMMA InvParts ==
    LifecycleInv <=> /\ TypeOK /\ Unique /\ StoppedInv
                     /\ \A p \in Players : PlayerInv(p)
                     /\ \A t \in tasks : TaskInv(t)
BY DEF LifecycleInv, FinalSaveExcludesActor, LoadIsApplicable, SaveMatchesRecord, LoadMatchesRow,
       IdentitiesFresh, InSceneIsLoaded, PlayerInv, TaskInv, SaveInv, LoadInv, Unique, Loaded

\* The same in the next state.
LEMMA InvPartsNext ==
    LifecycleInv' <=> /\ TypeOK' /\ Unique' /\ StoppedInv'
                      /\ \A p \in Players : PlayerInv(p)'
                      /\ \A t \in tasks' : TaskInv(t)'
BY DEF LifecycleInv, FinalSaveExcludesActor, LoadIsApplicable, SaveMatchesRecord, LoadMatchesRow,
       IdentitiesFresh, InSceneIsLoaded, PlayerInv, TaskInv, SaveInv, LoadInv, Unique, Loaded

\* A worker that has just started.
LEMMA InvInit == Init => LifecycleInv
<1> SUFFICES ASSUME Init PROVE LifecycleInv
  OBVIOUS
<1> USE DEF Init, NoActor, NoLoad, NoRecord, NoSnapshot
<1>1. TypeOK
  <2>1. NoActor \in Actors /\ NoLoad \in Loads
    BY LifecycleBounds DEF Actors, Loads
  <2>2. NoRecord \in Records
    BY LifecycleBounds DEF Records, Snapshots
  <2> QED
    BY <2>1, <2>2, LifecycleBounds DEF TypeOK, Rows
<1>2. Unique /\ StoppedInv /\ \A t \in tasks : TaskInv(t)
  BY DEF Unique, StoppedInv
<1>3. \A p \in Players : PlayerInv(p)
  BY DEF PlayerInv, BindingInv, RecordInv, VersionsRise, LoadedInv, AwayInv, OpenSnapshot,
         Online, Loading, Loaded, HasRecord
<1> QED
  BY <1>1, <1>2, <1>3, InvParts

\* What a step leaves alone of a player keeps the player's part.
LEMMA PlayerFrame ==
    ASSUME NEW q \in Players, PlayerInv(q), phase' = phase,
           actor'[q] = actor[q], load'[q] = load[q], latest'[q] = latest[q], rec'[q] = rec[q],
           inScene'[q] = inScene[q], row'[q] = row[q], last'[q] = last[q], saved'[q] = saved[q],
           stamp'[q] = stamp[q]
    PROVE  PlayerInv(q)'
BY DEF PlayerInv, BindingInv, RecordInv, VersionsRise, LoadedInv, AwayInv, OpenSnapshot,
       Online, Loading, Loaded, HasRecord

\* And of a task's player keeps the task's part.
LEMMA TaskFrame ==
    ASSUME NEW t \in DbTasks, TaskInv(t), rec'[t.player] = rec[t.player], load'[t.player] = load[t.player],
           row'[t.player] = row[t.player], ids[t.player].task \in Nat, ids'[t.player].task \in Nat,
           ids[t.player].task <= ids'[t.player].task
    PROVE  TaskInv(t)'
BY DEF TaskInv, SaveInv, LoadInv, Loading, DbTasks

\* The step leaves player q alone.
Same(q) ==
    /\ actor'[q] = actor[q] /\ load'[q] = load[q] /\ latest'[q] = latest[q] /\ rec'[q] = rec[q]
    /\ inScene'[q] = inScene[q] /\ row'[q] = row[q] /\ last'[q] = last[q] /\ saved'[q] = saved[q]
    /\ stamp'[q] = stamp[q] /\ ids'[q] = ids[q]

\* A step that concerns one player keeps the invariant if it keeps the parts of
\* that player and of its tasks.
LEMMA OnePlayer ==
    ASSUME LifecycleInv, NEW p \in Players, TypeOK', phase' = phase,
           phase = "stopped" => UNCHANGED <<actor, rec>>,
           \A q \in Players \ {p} : Same(q), PlayerInv(p)',
           \A t \in tasks' : t.player # p => t \in tasks,
           \A t \in tasks' : t.player = p => TaskInv(t)',
           \A t, u \in tasks' : (t.player = p /\ u.player = p /\ t.id = u.id) => t = u
    PROVE  LifecycleInv'
<1>1. TypeOK /\ Unique /\ StoppedInv /\ (\A q \in Players : PlayerInv(q)) /\ (\A t \in tasks : TaskInv(t))
  BY InvParts
<1>2. \A q \in Players : PlayerInv(q)'
  BY <1>1, PlayerFrame DEF Same
<1>3. \A t \in tasks' : TaskInv(t)'
  <2> SUFFICES ASSUME NEW t \in tasks', t.player # p PROVE TaskInv(t)'
    OBVIOUS
  <2>1. t \in tasks /\ t \in DbTasks /\ t.player \in Players
    BY <1>1 DEF TypeOK, DbTasks
  <2>2. ids[t.player].task \in Nat /\ ids'[t.player] = ids[t.player]
    BY <1>1, <2>1 DEF TypeOK, Same
  <2> QED
    BY <1>1, <2>1, <2>2, TaskFrame DEF Same
<1>4. Unique'
  BY <1>1 DEF Unique
<1>5. StoppedInv'
  BY <1>1 DEF StoppedInv, Online, HasRecord
<1> QED
  BY <1>1, <1>2, <1>3, <1>4, <1>5, InvPartsNext

\* A task under a new identity.
LEMMA FreshTask ==
    ASSUME LifecycleInv, NEW p \in Players, NEW kind \in {"load", "save"}, NEW s \in Snapshots,
           tasks' = tasks \cup {NewTask(p, kind, s)}
    PROVE  /\ NewTask(p, kind, s) \in DbTasks
           /\ NewTask(p, kind, s).id = ids[p].task + 1 /\ ids[p].task \in Nat
           /\ \A t \in tasks : t.player = p => t.id # ids[p].task + 1
           /\ \A t \in tasks' : t.player # p => t \in tasks
           /\ \A t, u \in tasks' : (t.player = p /\ u.player = p /\ t.id = u.id) => t = u
<1>1. TypeOK /\ Unique /\ \A t \in tasks : TaskInv(t)
  BY InvParts
<1>2. ids[p].task \in Nat
  BY <1>1 DEF TypeOK
<1>3. NewTask(p, kind, s) \in DbTasks /\ NewTask(p, kind, s).id = ids[p].task + 1
      /\ NewTask(p, kind, s).player = p
  BY <1>2 DEF NewTask, DbTasks
<1>4. \A t \in tasks : t.player = p => t.id # ids[p].task + 1
  BY <1>1, <1>2 DEF TaskInv
<1> QED
  BY <1>1, <1>2, <1>3, <1>4 DEF Unique

\* A task fewer.
LEMMA FewerTasks ==
    ASSUME LifecycleInv, NEW p, tasks' \subseteq tasks
    PROVE  /\ \A t \in tasks' : t.player # p => t \in tasks
           /\ \A t, u \in tasks' : (t.player = p /\ u.player = p /\ t.id = u.id) => t = u
BY InvParts DEF Unique

-----------------------------------------------------------------------------
(* Binding and loading *)

\* One visit of advancePlayerLoads, for a player without a record.
LEMMA StartLoadInv ==
    ASSUME LifecycleInv, NEW p \in Players, NEW l \in Loads, NEW renewed \in BOOLEAN, NEW accepted \in BOOLEAN,
           phase = "running", ~HasRecord(p), ~Loaded(p),
           l.binding # 0, l.taskId = 0, latest[p] <= l.binding,
           StartLoad(p, l, renewed, accepted),
           UNCHANGED <<rec, inScene, phase, row, last, history>>
    PROVE  LifecycleInv'
<1>1. TypeOK /\ PlayerInv(p) /\ \A t \in tasks : TaskInv(t)
  BY InvParts
<1> DEFINE keep == KeepsEpoch(p, l.binding) /\ ~renewed
           epoch == IF keep THEN actor[p].epoch ELSE ids[p].epoch + 1
           a == [(IF Online(p) THEN actor[p] ELSE NoActor) EXCEPT !.epoch = epoch, !.binding = l.binding]
           m == IF accepted THEN [l EXCEPT !.taskId = ids[p].task + 1, !.actorEpoch = epoch] ELSE l
           i == [epoch |-> IF keep THEN ids[p].epoch ELSE ids[p].epoch + 1,
                 task |-> IF accepted THEN ids[p].task + 1 ELSE ids[p].task]
<1>2. epoch \in Nat /\ epoch # 0
  BY <1>1 DEF TypeOK, KeepsEpoch, Online, Actors
<1>3. /\ actor' = [actor EXCEPT ![p] = a] /\ load' = [load EXCEPT ![p] = m]
      /\ latest' = [latest EXCEPT ![p] = l.binding] /\ ids' = [ids EXCEPT ![p] = i]
      /\ tasks' = IF accepted THEN tasks \cup {NewTask(p, "load", NoSnapshot)} ELSE tasks
  BY DEF StartLoad
<1>4. /\ a \in Actors /\ a.epoch = epoch /\ a.binding = l.binding
      /\ m \in Loads /\ m.binding = l.binding
      /\ accepted => m.taskId = ids[p].task + 1 /\ m.actorEpoch = epoch
      /\ ~accepted => m.taskId = 0
      /\ i \in [epoch : Nat, task : Nat]
  <2> DEFINE base == IF Online(p) THEN actor[p] ELSE NoActor
  <2>1. actor[p] \in Actors /\ NoActor \in Actors
    BY <1>1, LifecycleBounds DEF TypeOK, Actors, NoActor
  <2>2. base \in Actors /\ l.binding \in 0..MaxEpoch
    BY <2>1 DEF Loads
  <2> HIDE DEF base, epoch
  <2>3. /\ [base EXCEPT !.epoch = epoch, !.binding = l.binding] \in Actors
        /\ [base EXCEPT !.epoch = epoch, !.binding = l.binding].epoch = epoch
        /\ [base EXCEPT !.epoch = epoch, !.binding = l.binding].binding = l.binding
    BY <1>2, <2>2 DEF Actors
  <2>4. ids[p].task \in Nat /\ ids[p].epoch \in Nat
    BY <1>1 DEF TypeOK
  <2>5. /\ m \in Loads /\ m.binding = l.binding
        /\ accepted => m.taskId = ids[p].task + 1 /\ m.actorEpoch = epoch
        /\ ~accepted => m.taskId = 0
    <3>1. CASE accepted
      <4> DEFINE n == ids[p].task + 1
                 x == [l EXCEPT !.taskId = n, !.actorEpoch = epoch]
      <4>0. n \in Nat
        BY <2>4
      <4>1. x \in Loads /\ x.binding = l.binding /\ x.taskId = n /\ x.actorEpoch = epoch
        <5> HIDE DEF n
        <5> QED
          BY <1>2, <4>0 DEF Loads
      <4>2. m = x
        BY <3>1
      <4> QED
        BY <3>1, <4>1, <4>2
    <3>2. CASE ~accepted
      BY <3>2
    <3> QED
      BY <3>1, <3>2
  <2>6. i \in [epoch : Nat, task : Nat]
    BY <2>4
  <2> QED
    BY <2>3, <2>5, <2>6 DEF base
<1>5. NoSnapshot \in Snapshots
  BY LifecycleBounds DEF NoSnapshot, Snapshots
<1>6. TypeOK'
  <2>1. tasks' \subseteq DbTasks
    BY <1>1, <1>3, <1>5, FreshTask DEF TypeOK
  <2> QED
    BY <1>1, <1>3, <1>4, <2>1 DEF TypeOK, Loads, history
<1>7. \A q \in Players \ {p} : Same(q)
  BY <1>1, <1>3 DEF Same, TypeOK, history
<1>8. /\ actor'[p] = a /\ load'[p] = m /\ latest'[p] = l.binding /\ ids'[p] = i /\ rec'[p] = rec[p]
      /\ inScene'[p] = inScene[p] /\ row'[p] = row[p] /\ last'[p] = last[p] /\ saved'[p] = saved[p]
      /\ stamp'[p] = stamp[p] /\ phase' = "running"
  BY <1>1, <1>3 DEF TypeOK, history
<1>9. PlayerInv(p)'
  <2>1. rec[p] = NoRecord
    BY <1>1 DEF PlayerInv, RecordInv
  <2> HIDE DEF a, m, i, epoch, keep
  <2>2. ~Loaded(p)' /\ Online(p)' /\ Loading(p)' /\ ~HasRecord(p)'
    BY <1>2, <1>4, <1>8, <2>1 DEF Loaded, Online, Loading, HasRecord, NoRecord
  <2>3. BindingInv(p)'
    BY <1>4, <1>8, <2>2, <1>1 DEF BindingInv, TypeOK, Loads
  <2>4. RecordInv(p)' /\ VersionsRise(p)' /\ LoadedInv(p)' /\ AwayInv(p)'
    BY <1>1, <1>8, <2>1, <2>2 DEF PlayerInv, RecordInv, VersionsRise, LoadedInv, AwayInv, NoRecord, NoSnapshot, HasRecord
  <2> QED
    BY <1>1, <1>2, <1>4, <1>8, <2>1, <2>2, <2>3, <2>4 DEF PlayerInv, NoRecord
<1>10. \A t \in tasks' : t.player = p => TaskInv(t)'
  <2> SUFFICES ASSUME NEW t \in tasks', t.player = p PROVE TaskInv(t)'
    OBVIOUS
  <2>0. ids[p].task \in Nat
    BY <1>1 DEF TypeOK
  <2>1. CASE t \in tasks
    <3>1. t.id \in 1..ids[p].task /\ t.kind # "save" /\ t.id # 0
      <4>1. TaskInv(t)
        BY <1>1, <2>1
      <4>2. t.id \in 1..ids[p].task
        BY <4>1 DEF TaskInv
      <4>3. t.kind # "save"
        BY <4>1 DEF TaskInv, SaveInv, HasRecord
      <4> QED
        BY <4>2, <4>3, <2>0
    <3> QED
      BY <3>1, <2>0, <1>4, <1>8 DEF TaskInv, SaveInv, LoadInv
  <2>2. CASE accepted /\ t = NewTask(p, "load", NoSnapshot)
    BY <2>2, <2>0, <1>8 DEF TaskInv, SaveInv, LoadInv, NewTask
  <2> QED
    BY <1>3, <2>1, <2>2
<1> QED
  <2>1. /\ \A t \in tasks' : t.player # p => t \in tasks
        /\ \A t, u \in tasks' : (t.player = p /\ u.player = p /\ t.id = u.id) => t = u
    BY <1>3, <1>5, FreshTask, FewerTasks
  <2> QED
    BY <1>6, <1>7, <1>9, <1>10, <2>1, OnePlayer

\* ONLINE while the player is away or loading.
LEMMA BindLoadingInv ==
    ASSUME LifecycleInv, NEW p \in Players, NEW e \in Epochs, BindLoading(p, e)
    PROVE  LifecycleInv'
<1>1. TypeOK /\ PlayerInv(p) /\ \A t \in tasks : TaskInv(t)
  BY InvParts
<1> DEFINE l == [NoLoad EXCEPT !.binding = e]
<1>2. l \in Loads /\ l.binding = e /\ e # 0 /\ l.taskId = 0 /\ ~l.failed
  <2>1. e \in 0..MaxEpoch /\ e # 0
    BY LifecycleBounds DEF Epochs
  <2> QED
    BY <2>1 DEF NoLoad, Loads
<1>3. ~Loaded(p) /\ latest[p] < e /\ latest[p] \in Nat /\ phase = "running"
  BY <1>1 DEF BindLoading, Loaded, TypeOK
<1>4. CASE BlocksLogin(p)
  <2>1. load' = [load EXCEPT ![p] = l] /\ UNCHANGED <<actor, latest, ids, tasks, rec, inScene, phase, row, last, history>>
    BY <1>4 DEF BindLoading
  <2>2. TypeOK'
    BY <1>1, <1>2, <2>1 DEF TypeOK, history
  <2>3. \A q \in Players \ {p} : Same(q)
    BY <1>1, <2>1 DEF Same, TypeOK, history
  <2>4. load'[p] = l
    BY <1>1, <2>1 DEF TypeOK
  <2>5. ~Online(p) /\ HasRecord(p)
    BY <1>1, <1>4 DEF PlayerInv, BlocksLogin
  <2> HIDE DEF l
  <2>6. PlayerInv(p)'
    <3>1. ~Loaded(p)' /\ ~Online(p)' /\ Loading(p)' /\ HasRecord(p)'
      BY <1>2, <2>1, <2>4, <2>5 DEF Loaded, Online, Loading, HasRecord
    <3>2. BindingInv(p)'
      BY <1>2, <1>3, <2>1, <2>4, <3>1, LifecycleBounds DEF BindingInv, Epochs
    <3>3. RecordInv(p)' /\ VersionsRise(p)' /\ LoadedInv(p)' /\ AwayInv(p)'
      BY <1>1, <1>3, <1>4, <2>1, <2>5, <3>1 DEF PlayerInv, RecordInv, VersionsRise, LoadedInv, AwayInv,
         BlocksLogin, HasRecord, history
    <3>4. ~inScene[p]
      BY <1>1, <1>3 DEF PlayerInv
    <3> QED
      BY <1>2, <2>1, <2>4, <3>1, <3>2, <3>3, <3>4 DEF PlayerInv
  <2>7. \A t \in tasks' : t.player = p => TaskInv(t)'
    <3> SUFFICES ASSUME NEW t \in tasks, t.player = p PROVE TaskInv(t)'
      BY <2>1
    <3>1. TaskInv(t) /\ t.id # 0
      BY <1>1 DEF TaskInv
    <3> QED
      BY <1>2, <2>1, <2>4, <3>1 DEF TaskInv, SaveInv, LoadInv
  <2> QED
    BY <1>3, <2>1, <2>2, <2>3, <2>6, <2>7, FewerTasks, OnePlayer
<1>5. CASE ~BlocksLogin(p)
  <2>1. PICK accepted \in BOOLEAN : StartLoad(p, l, Online(p), accepted)
    BY <1>5 DEF BindLoading
  <2>2. ~HasRecord(p)
    BY <1>1, <1>3, <1>5 DEF PlayerInv, RecordInv, BlocksLogin
  <2>3. UNCHANGED <<rec, inScene, phase, row, last, history>> /\ Online(p) \in BOOLEAN
    BY DEF BindLoading, Online
  <2>4. latest[p] <= l.binding
    BY <1>2, <1>3, LifecycleBounds DEF Epochs
  <2> HIDE DEF l
  <2> QED
    BY <1>2, <1>3, <2>1, <2>2, <2>3, <2>4, StartLoadInv
<1> QED
  BY <1>4, <1>5

\* advancePlayerLoads for a load that waits.
LEMMA AdvanceLoadInv ==
    ASSUME LifecycleInv, NEW p \in Players, AdvanceLoad(p)
    PROVE  LifecycleInv'
<1>1. TypeOK /\ PlayerInv(p)
  BY InvParts
<1>2. load[p] \in Loads /\ load[p].binding # 0 /\ load[p].taskId = 0 /\ ~Loaded(p) /\ ~HasRecord(p)
  BY <1>1 DEF AdvanceLoad, Loading, Loaded, TypeOK, PlayerInv, RecordInv, BlocksLogin
<1>3. latest[p] <= load[p].binding
  BY <1>1, <1>2 DEF PlayerInv, BindingInv, Loading
<1> QED
  BY <1>2, <1>3, StartLoadInv DEF AdvanceLoad

\* ONLINE for a loaded player.
LEMMA BindLiveInv ==
    ASSUME LifecycleInv, NEW p \in Players, NEW e \in Epochs, BindLive(p, e)
    PROVE  LifecycleInv'
<1>1. TypeOK /\ PlayerInv(p) /\ \A t \in tasks : TaskInv(t)
  BY InvParts
<1> DEFINE n == ids[p].epoch + 1
           a == [actor[p] EXCEPT !.epoch = n, !.binding = e]
<1>2. n \in Nat /\ n # 0 /\ e \in 0..MaxEpoch /\ actor[p] \in Actors /\ ids[p] \in [epoch : Nat, task : Nat]
  BY <1>1, LifecycleBounds DEF TypeOK, Epochs
<1>3. /\ actor' = [actor EXCEPT ![p] = a] /\ latest' = [latest EXCEPT ![p] = e]
      /\ ids' = [ids EXCEPT ![p] = [ids[p] EXCEPT !.epoch = n]]
      /\ Loaded(p) /\ phase = "running"
      /\ UNCHANGED <<load, rec, inScene, phase, tasks, row, last, history>>
  BY <1>1 DEF BindLive, Loaded, TypeOK
<1> HIDE DEF n
<1>4. /\ a \in Actors /\ a.epoch = n /\ a.binding = e /\ a.stamp = actor[p].stamp /\ a.revision = actor[p].revision
      /\ a.persistedVersion = actor[p].persistedVersion /\ a.persistedRevision = actor[p].persistedRevision
      /\ a.dirty = actor[p].dirty
      /\ [ids[p] EXCEPT !.epoch = n] \in [epoch : Nat, task : Nat] /\ [ids[p] EXCEPT !.epoch = n].task = ids[p].task
  BY <1>2 DEF Actors
<1>5. TypeOK'
  BY <1>1, <1>2, <1>3, <1>4 DEF TypeOK, history
<1>6. \A q \in Players \ {p} : Same(q)
  BY <1>1, <1>3 DEF Same, TypeOK, history
<1>7. actor'[p] = a /\ latest'[p] = e /\ ids'[p].task = ids[p].task
  BY <1>1, <1>3, <1>4 DEF TypeOK
<1> HIDE DEF a
<1>8. PlayerInv(p)'
  BY <1>1, <1>2, <1>3, <1>4, <1>7, SMTT(30) DEF PlayerInv, BindingInv, RecordInv, VersionsRise, LoadedInv,
     AwayInv, OpenSnapshot, Online, Loading, Loaded, HasRecord, history
<1>9. \A t \in tasks' : t.player = p => TaskInv(t)'
  BY <1>1, <1>3, <1>7 DEF TaskInv, SaveInv, LoadInv, Loading
<1> QED
  BY <1>3, <1>5, <1>6, <1>8, <1>9, FewerTasks, OnePlayer

\* A load succeeds: the player has the state of the row, which is its last one.
LEMMA LoadSucceedsInv ==
    ASSUME LifecycleInv, NEW t \in tasks, phase \in {"running", "draining"}, LoadSucceeds(t)
    PROVE  LifecycleInv'
<1> DEFINE p == t.player
           s == t.snapshot
           a == [actor[p] EXCEPT !.stamp = s.stamp, !.revision = 0, !.persistedVersion = s.version,
                                 !.persistedRevision = 0, !.dirty = FALSE]
<1>1. TypeOK /\ (\A q \in Players : PlayerInv(q)) /\ \A u \in tasks : TaskInv(u)
  BY InvParts
<1>2. p \in Players /\ s \in Snapshots /\ actor[p] \in Actors /\ t \in DbTasks
  BY <1>1 DEF TypeOK, DbTasks
<1>3. /\ actor' = [actor EXCEPT ![p] = a] /\ inScene' = [inScene EXCEPT ![p] = load[p].enter]
      /\ load' = [load EXCEPT ![p] = NoLoad] /\ tasks' = tasks \ {t}
      /\ t.kind = "load" /\ t.class = "success" /\ load[p].taskId = t.id /\ Loading(p) /\ Online(p)
      /\ UNCHANGED <<latest, rec, ids, phase, row, last, history>>
  BY DEF LoadSucceeds
<1>4. /\ a \in Actors /\ a.epoch = actor[p].epoch /\ a.binding = actor[p].binding /\ a.stamp = s.stamp
      /\ a.revision = 0 /\ a.persistedVersion = s.version /\ a.persistedRevision = 0 /\ a.dirty = FALSE
  <2>1. s.stamp \in 0..MaxStamp /\ s.version \in Nat
    BY <1>2 DEF Snapshots
  <2> DEFINE b == actor[p]
             x == s.stamp
             v == s.version
  <2>2. b \in Actors /\ x \in 0..MaxStamp /\ v \in Nat /\ 0 \in 0..MaxStamp
    BY <1>2, <2>1, LifecycleBounds
  <2> HIDE DEF b, x, v
  <2> DEFINE c == [b EXCEPT !.stamp = x, !.revision = 0, !.persistedVersion = v, !.persistedRevision = 0, !.dirty = FALSE]
  <2>3. /\ c \in Actors /\ c.epoch = b.epoch /\ c.binding = b.binding /\ c.stamp = x
        /\ c.revision = 0 /\ c.persistedVersion = v /\ c.persistedRevision = 0 /\ c.dirty = FALSE
    BY <2>2 DEF Actors
  <2> QED
    BY <2>3 DEF b, x, v
<1>5. NoLoad \in Loads /\ load[p].enter \in BOOLEAN
  BY <1>1, <1>2, LifecycleBounds DEF Loads, NoLoad, TypeOK
<1> HIDE DEF a
<1>6. TypeOK'
  BY <1>1, <1>2, <1>3, <1>4, <1>5 DEF TypeOK, history
<1> HIDE DEF p, s
<1>7. \A q \in Players \ {p} : Same(q)
  BY <1>1, <1>2, <1>3 DEF Same, TypeOK, history
<1>8. actor'[p] = a /\ load'[p] = NoLoad /\ inScene'[p] = load[p].enter
  BY <1>1, <1>2, <1>3 DEF TypeOK
<1>9. /\ rec[p] = NoRecord /\ row[p].stamp = last[p] /\ s.stamp = row[p].stamp /\ s.version = row[p].version
      /\ last[p] <= stamp[p] /\ stamp[p] \in Nat /\ last[p] \in Nat /\ row[p] \in Rows
  BY <1>1, <1>2, <1>3, LifecycleBounds DEF PlayerInv, RecordInv, AwayInv, VersionsRise, Loaded, Loading, Online, TaskInv, LoadInv, TypeOK, p, s
<1>10. Loaded(p)' /\ ~HasRecord(p)' /\ ~Loading(p)' /\ Online(p)'
  BY <1>3, <1>4, <1>8, <1>9 DEF Loaded, Online, Loading, HasRecord, NoLoad, NoRecord
<1>11. PlayerInv(p)'
  <2>1. BindingInv(p)'
    BY <1>1, <1>2, <1>3, <1>4, <1>8, <1>10 DEF PlayerInv, BindingInv
  <2>2. RecordInv(p)' /\ VersionsRise(p)' /\ AwayInv(p)'
    BY <1>1, <1>2, <1>3, <1>9, <1>10 DEF PlayerInv, RecordInv, VersionsRise, AwayInv, NoRecord, NoSnapshot, HasRecord, history
  <2>3. LoadedInv(p)'
    BY <1>3, <1>4, <1>8, <1>9, <1>10 DEF LoadedInv, OpenSnapshot, NoRecord, NoSnapshot, history
  <2> QED
    BY <1>3, <1>9, <1>10, <2>1, <2>2, <2>3 DEF PlayerInv, NoRecord
<1>12. \A u \in tasks' : u.player = p => TaskInv(u)'
  BY <1>1, <1>3, <1>10 DEF TaskInv, SaveInv, LoadInv
<1> QED
  BY <1>2, <1>3, <1>6, <1>7, <1>11, <1>12, FewerTasks, OnePlayer

\* A load fails: it stays, and its result with it.
LEMMA LoadFailsInv ==
    ASSUME LifecycleInv, NEW t \in tasks, phase \in {"running", "draining"}, LoadFails(t)
    PROVE  LifecycleInv'
<1> DEFINE p == t.player
           l == [load[p] EXCEPT !.failed = TRUE, !.enter = FALSE]
<1>1. TypeOK /\ (\A q \in Players : PlayerInv(q)) /\ \A u \in tasks : TaskInv(u)
  BY InvParts
<1>2. p \in Players /\ load[p] \in Loads
  BY <1>1 DEF TypeOK, DbTasks
<1>3. /\ load' = [load EXCEPT ![p] = l] /\ tasks' = tasks \ {t}
      /\ UNCHANGED <<actor, latest, rec, inScene, ids, phase, row, last, history>>
  BY DEF LoadFails
<1>4. l \in Loads /\ l.binding = load[p].binding /\ l.taskId = load[p].taskId /\ l.actorEpoch = load[p].actorEpoch
  BY <1>2 DEF Loads
<1> HIDE DEF p, l
<1>5. TypeOK'
  BY <1>1, <1>2, <1>3, <1>4 DEF TypeOK, history
<1>6. \A q \in Players \ {p} : Same(q)
  BY <1>1, <1>2, <1>3 DEF Same, TypeOK, history
<1>7. load'[p] = l
  BY <1>1, <1>2, <1>3 DEF TypeOK
<1>8. PlayerInv(p)'
  BY <1>1, <1>2, <1>3, <1>4, <1>7 DEF PlayerInv, BindingInv, RecordInv, VersionsRise, LoadedInv,
     AwayInv, OpenSnapshot, Online, Loading, Loaded, HasRecord, history
<1>9. \A u \in tasks' : u.player = p => TaskInv(u)'
  BY <1>1, <1>3, <1>4, <1>7 DEF TaskInv, SaveInv, LoadInv, Loading
<1> QED
  BY <1>2, <1>3, <1>5, <1>6, <1>8, <1>9, FewerTasks, OnePlayer

\* Steps that only take a result away.
LEMMA DropLoadInv ==
    ASSUME LifecycleInv, NEW t \in tasks, phase \in {"running", "draining"}, DropLoad(t)
    PROVE  LifecycleInv'
<1>1. TypeOK /\ (\A q \in Players : PlayerInv(q)) /\ \A u \in tasks : TaskInv(u)
  BY InvParts
<1>2. tasks' = tasks \ {t} /\ UNCHANGED <<actor, load, latest, rec, inScene, ids, phase, row, last, saved, stamp, restarts>>
  BY DEF DropLoad, worker, history
<1>3. t.player \in Players
  BY <1>1 DEF TypeOK, DbTasks
<1>4. TypeOK' /\ \A q \in Players : Same(q)
  BY <1>1, <1>2 DEF TypeOK, Same
<1>5. PlayerInv(t.player)'
  BY <1>1, <1>2, <1>3, <1>4, PlayerFrame DEF Same
<1>6. \A u \in tasks' : TaskInv(u)'
  BY <1>1, <1>2 DEF TaskInv, SaveInv, LoadInv, Loading
<1> QED
  BY <1>2, <1>3, <1>4, <1>5, <1>6, FewerTasks, OnePlayer

\* ENTER_SCENE.
LEMMA EnterSceneInv ==
    ASSUME LifecycleInv, NEW p \in Players, EnterScene(p)
    PROVE  LifecycleInv'
<1>1. TypeOK /\ PlayerInv(p) /\ \A u \in tasks : TaskInv(u)
  BY InvParts
<1>2. phase = "running" /\ UNCHANGED <<actor, latest, rec, ids, phase, tasks, row, last, saved, stamp, restarts>>
  BY DEF EnterScene, history
<1>3. CASE Loading(p)
  <2> DEFINE l == [load[p] EXCEPT !.enter = TRUE]
  <2>1. load' = [load EXCEPT ![p] = l] /\ inScene' = inScene /\ load[p] \in Loads
    BY <1>1, <1>3 DEF EnterScene, TypeOK
  <2>2. l \in Loads /\ l.binding = load[p].binding /\ l.taskId = load[p].taskId /\ l.actorEpoch = load[p].actorEpoch
    BY <2>1 DEF Loads
  <2> HIDE DEF l
  <2>3. TypeOK' /\ (\A q \in Players \ {p} : Same(q)) /\ load'[p] = l
    BY <1>1, <1>2, <2>1, <2>2 DEF TypeOK, Same
  <2>4. PlayerInv(p)'
    BY <1>1, <1>2, <2>1, <2>2, <2>3 DEF PlayerInv, BindingInv, RecordInv, VersionsRise, LoadedInv,
       AwayInv, OpenSnapshot, Online, Loading, Loaded, HasRecord
  <2>5. \A u \in tasks' : u.player = p => TaskInv(u)'
    BY <1>1, <1>2, <2>2, <2>3 DEF TaskInv, SaveInv, LoadInv, Loading
  <2> QED
    BY <1>2, <2>3, <2>4, <2>5, FewerTasks, OnePlayer
<1>4. CASE ~Loading(p)
  <2>1. load' = load /\ inScene' = [inScene EXCEPT ![p] = TRUE] /\ Online(p)
    BY <1>4 DEF EnterScene
  <2>2. TypeOK' /\ (\A q \in Players \ {p} : Same(q)) /\ inScene'[p] = TRUE
    BY <1>1, <1>2, <2>1 DEF TypeOK, Same
  <2>3. PlayerInv(p)'
    BY <1>1, <1>2, <1>4, <2>1, <2>2 DEF PlayerInv, BindingInv, RecordInv, VersionsRise, LoadedInv,
       AwayInv, OpenSnapshot, Online, Loading, Loaded, HasRecord
  <2>4. \A u \in tasks' : u.player = p => TaskInv(u)'
    BY <1>1, <1>2, <2>1 DEF TaskInv, SaveInv, LoadInv, Loading
  <2> QED
    BY <1>2, <2>2, <2>3, <2>4, FewerTasks, OnePlayer
<1> QED
  BY <1>3, <1>4

\* A mutation: revision and state advance together, so the open snapshots
\* keep their distance to the player.
LEMMA MutateInv ==
    ASSUME LifecycleInv, NEW p \in Players, Mutate(p)
    PROVE  LifecycleInv'
<1>1. TypeOK /\ PlayerInv(p) /\ \A u \in tasks : TaskInv(u)
  BY InvParts
<1> DEFINE n == stamp[p] + 1
           v == actor[p].revision + 1
           a == [actor[p] EXCEPT !.stamp = n, !.revision = v, !.dirty = TRUE]
<1>2. /\ stamp' = [stamp EXCEPT ![p] = n] /\ last' = [last EXCEPT ![p] = n] /\ actor' = [actor EXCEPT ![p] = a]
      /\ phase = "running" /\ Loaded(p)
      /\ UNCHANGED <<load, latest, rec, inScene, ids, phase, tasks, row, saved, restarts>>
  <2>1. actor \in [Players -> Actors] /\ stamp \in [Players -> 0..MaxStamp]
    BY <1>1 DEF TypeOK
  <2>2. actor' = [actor EXCEPT ![p] = a]
    BY <2>1 DEF Mutate
  <2>3. stamp' = [stamp EXCEPT ![p] = n] /\ last' = [last EXCEPT ![p] = n]
    BY <2>1 DEF Mutate
  <2> QED
    BY <2>2, <2>3 DEF Mutate, Loaded
<1>3. /\ actor[p] \in Actors /\ stamp[p] \in Nat /\ stamp[p] < MaxStamp /\ actor[p].revision \in Nat
      /\ actor[p].revision <= stamp[p] /\ actor[p].stamp \in Nat /\ actor[p].persistedRevision \in Nat
  BY <1>1, <1>2, LifecycleBounds DEF Mutate, TypeOK, Actors, PlayerInv, LoadedInv
<1>4. n \in 0..MaxStamp /\ v \in 0..MaxStamp /\ n = stamp[p] + 1 /\ v = actor[p].revision + 1
  BY <1>3, LifecycleBounds
<1> HIDE DEF n, v
<1>5. /\ a \in Actors /\ a.epoch = actor[p].epoch /\ a.binding = actor[p].binding /\ a.stamp = n /\ a.revision = v
      /\ a.persistedVersion = actor[p].persistedVersion /\ a.persistedRevision = actor[p].persistedRevision /\ a.dirty = TRUE
  BY <1>3, <1>4 DEF Actors
<1> HIDE DEF a
<1>6. TypeOK'
  BY <1>1, <1>2, <1>4, <1>5 DEF TypeOK
<1>7. \A q \in Players \ {p} : Same(q)
  BY <1>1, <1>2 DEF Same, TypeOK
<1>8. actor'[p] = a /\ stamp'[p] = n /\ last'[p] = n
  BY <1>1, <1>2 DEF TypeOK
<1>9. PlayerInv(p)'
  <2>1. Loaded(p)' /\ Online(p)' /\ ~Loading(p)' /\ (HasRecord(p)' <=> HasRecord(p)) /\ rec'[p] = rec[p] /\ row'[p] = row[p]
    BY <1>2, <1>5, <1>8 DEF Loaded, Online, Loading, HasRecord
  <2>2. BindingInv(p)' /\ RecordInv(p)' /\ AwayInv(p)'
    BY <1>1, <1>2, <1>5, <1>8, <2>1 DEF PlayerInv, BindingInv, RecordInv, AwayInv, HasRecord, Loaded
  <2>3. rec[p] \in Records /\ row[p] \in Rows /\ last[p] \in Nat
    BY <1>1, LifecycleBounds DEF TypeOK
  <2>4. VersionsRise(p)'
    BY <1>1, <1>2, <1>3, <1>4, <1>8, <2>1, <2>3 DEF PlayerInv, VersionsRise, Records, Snapshots, Rows
  <2>5. LoadedInv(p)'
    <3>1. \A s \in {rec[p].active, rec[p].queued} : OpenSnapshot(p, s)'
      <4> SUFFICES ASSUME NEW s \in {rec[p].active, rec[p].queued}, s.version # 0 PROVE OpenSnapshot(p, s)'
        BY DEF OpenSnapshot
      <4>1. OpenSnapshot(p, s) /\ s \in Snapshots
        BY <1>1, <1>2, <2>3 DEF PlayerInv, LoadedInv, Records
      <4>2. actor[p].persistedRevision < s.revision /\ s.revision \in Nat /\ s.revision <= actor[p].revision
        BY <4>1, LifecycleBounds DEF OpenSnapshot, Snapshots
      <4>3. actor[p].stamp = stamp[p]
        BY <1>1, <1>2, <1>3, <4>2 DEF PlayerInv, LoadedInv
      <4> QED
        BY <1>2, <1>3, <1>4, <1>5, <1>8, <2>1, <4>1, <4>2, <4>3 DEF OpenSnapshot
    <3> QED
      BY <1>1, <1>2, <1>3, <1>4, <1>5, <1>8, <2>1, <2>3, <3>1 DEF PlayerInv, LoadedInv, Records
  <2> QED
    BY <1>1, <1>2, <2>1, <2>2, <2>4, <2>5 DEF PlayerInv, Loaded
<1>10. \A u \in tasks' : u.player = p => TaskInv(u)'
  BY <1>1, <1>2 DEF TaskInv, SaveInv, LoadInv, Loading
<1> QED
  BY <1>2, <1>6, <1>7, <1>9, <1>10, FewerTasks, OnePlayer

\* OFFLINE of the binding that loads: the actor goes, which holds no data.
LEMMA AbandonLoadInv ==
    ASSUME LifecycleInv, NEW p \in Players, AbandonLoad(p)
    PROVE  LifecycleInv'
<1>1. TypeOK /\ PlayerInv(p) /\ \A u \in tasks : TaskInv(u)
  BY InvParts
<1>2. NoLoad \in Loads /\ NoActor \in Actors
  BY LifecycleBounds DEF Loads, NoLoad, Actors, NoActor
<1>3. /\ Loading(p) /\ phase = "running"
      /\ latest' = [latest EXCEPT ![p] = load[p].binding] /\ load' = [load EXCEPT ![p] = NoLoad]
      /\ actor' = (IF actor[p].binding = load[p].binding THEN [actor EXCEPT ![p] = NoActor] ELSE actor)
      /\ UNCHANGED <<rec, inScene, ids, phase, tasks, row, last, saved, stamp, restarts>>
  BY DEF AbandonLoad, history
<1>4. load[p].binding \in 0..MaxEpoch
  BY <1>1 DEF TypeOK, Loads
<1>5. TypeOK' /\ (\A q \in Players \ {p} : Same(q)) /\ load'[p] = NoLoad /\ latest'[p] = load[p].binding
  BY <1>1, <1>2, <1>3, <1>4 DEF TypeOK, Same
<1>6. ~Online(p)' /\ ~Loading(p)' /\ ~Loaded(p)' /\ ~Loaded(p) /\ ~inScene[p]
  <2>1. Online(p) => actor'[p] = NoActor
    BY <1>1, <1>3 DEF PlayerInv, BindingInv, TypeOK
  <2>2. ~Online(p) => actor'[p] = NoActor \/ actor'[p] = actor[p]
    BY <1>1, <1>3 DEF TypeOK
  <2> QED
    BY <1>1, <1>3, <1>5, <2>1, <2>2 DEF Online, Loading, Loaded, NoActor, NoLoad, PlayerInv
<1>7. PlayerInv(p)'
  <2>1. RecordInv(p)' /\ VersionsRise(p)' /\ AwayInv(p)'
    BY <1>1, <1>3, <1>6 DEF PlayerInv, RecordInv, VersionsRise, AwayInv, HasRecord
  <2> QED
    BY <1>1, <1>3, <1>6, <2>1 DEF PlayerInv, BindingInv, LoadedInv, HasRecord
<1>8. \A u \in tasks' : u.player = p => TaskInv(u)'
  BY <1>1, <1>3, <1>6 DEF TaskInv, SaveInv, LoadInv
<1> QED
  BY <1>3, <1>5, <1>7, <1>8, FewerTasks, OnePlayer

-----------------------------------------------------------------------------
(* Drain and restart *)

\* requestDrain drops every load.
LEMMA BeginDrainInv == ASSUME LifecycleInv, BeginDrain PROVE LifecycleInv'
<1>1. TypeOK /\ Unique /\ StoppedInv /\ (\A p \in Players : PlayerInv(p)) /\ (\A t \in tasks : TaskInv(t))
  BY InvParts
<1>2. NoLoad \in Loads /\ NoActor \in Actors
  BY LifecycleBounds DEF Loads, NoLoad, Actors, NoActor
<1>3. /\ phase' = "draining" /\ actor' = [p \in Players |-> IF Loading(p) THEN NoActor ELSE actor[p]]
      /\ load' = [p \in Players |-> NoLoad]
      /\ UNCHANGED <<latest, rec, inScene, ids, tasks, row, last, saved, stamp, restarts>>
  BY DEF BeginDrain, history
<1>4. TypeOK'
  BY <1>1, <1>2, <1>3 DEF TypeOK
<1>5. ASSUME NEW p \in Players PROVE PlayerInv(p)'
  <2>1. load'[p] = NoLoad /\ ~Loading(p)'
    BY <1>3, <1>5 DEF Loading, NoLoad
  <2>2. CASE Loading(p)
    <3>1. ~Online(p)' /\ ~Loaded(p)' /\ ~Loaded(p) /\ ~inScene[p]
      BY <1>1, <1>3, <1>5, <2>2 DEF Online, NoActor, Loaded, PlayerInv
    <3>2. RecordInv(p)' /\ VersionsRise(p)' /\ AwayInv(p)'
      BY <1>1, <1>3, <1>5, <3>1 DEF PlayerInv, RecordInv, VersionsRise, AwayInv, HasRecord
    <3> QED
      BY <1>1, <1>3, <1>5, <2>1, <3>1, <3>2 DEF PlayerInv, BindingInv, LoadedInv, HasRecord
  <2>3. CASE ~Loading(p)
    <3>1. actor'[p] = actor[p]
      BY <1>3, <1>5, <2>3
    <3> QED
      BY <1>1, <1>3, <1>5, <2>1, <2>3, <3>1 DEF PlayerInv, BindingInv, RecordInv, VersionsRise, LoadedInv,
         AwayInv, OpenSnapshot, Online, Loading, Loaded, HasRecord
  <2> QED
    BY <2>2, <2>3
<1>6. \A t \in tasks' : TaskInv(t)'
  <2> SUFFICES ASSUME NEW t \in tasks PROVE TaskInv(t)'
    BY <1>3
  <2>1. t.player \in Players /\ TaskInv(t)
    BY <1>1 DEF TypeOK, DbTasks
  <2>2. ~Loading(t.player)'
    BY <1>3, <2>1 DEF Loading, NoLoad
  <2> QED
    BY <1>3, <2>1, <2>2 DEF TaskInv, SaveInv, LoadInv
<1>7. Unique' /\ StoppedInv'
  BY <1>1, <1>3 DEF Unique, StoppedInv
<1> QED
  BY <1>4, <1>5, <1>6, <1>7, InvPartsNext

\* The worker stops; it was not loading anybody.
LEMMA EndDrainInv == ASSUME LifecycleInv, FinishDrain \/ DrainTimeout PROVE LifecycleInv'
<1>1. TypeOK /\ Unique /\ StoppedInv /\ (\A p \in Players : PlayerInv(p)) /\ (\A t \in tasks : TaskInv(t))
  BY InvParts
<1>2. /\ phase = "draining" /\ phase' \in {"stopped", "failed"}
      /\ UNCHANGED <<actor, load, latest, rec, inScene, ids, tasks, row, last, saved, stamp, restarts>>
  BY DEF FinishDrain, DrainTimeout, worker, history
<1>3. TypeOK' /\ Unique'
  BY <1>1, <1>2 DEF TypeOK, Unique
<1>4. \A p \in Players : PlayerInv(p)'
  BY <1>1, <1>2 DEF PlayerInv, BindingInv, RecordInv, VersionsRise, LoadedInv, AwayInv, OpenSnapshot, Online, Loading,
     Loaded, HasRecord
<1>5. \A t \in tasks' : TaskInv(t)'
  BY <1>1, <1>2 DEF TaskInv, SaveInv, LoadInv, Loading
<1>6. StoppedInv'
  <2> SUFFICES ASSUME phase' = "stopped", NEW p \in Players PROVE ~Online(p) /\ ~HasRecord(p)
    BY <1>2 DEF StoppedInv, Online, HasRecord
  <2>1. ~Online(p) /\ ~Unsettled(rec[p])
    BY DEF FinishDrain, DrainTimeout, Drained
  <2> QED
    BY <1>1, <2>1 DEF Unsettled, PlayerInv, RecordInv, HasRecord, Loaded
<1> QED
  BY <1>3, <1>4, <1>5, <1>6, InvPartsNext

\* A new process: nobody is here, and the row is all that counts.
LEMMA RestartInv == ASSUME LifecycleInv, Restart PROVE LifecycleInv'
<1>1. TypeOK /\ (\A p \in Players : PlayerInv(p))
  BY InvParts
<1>2. NoLoad \in Loads /\ NoActor \in Actors
  BY LifecycleBounds DEF Loads, NoLoad, Actors, NoActor
<1>3. NoRecord \in Records
  BY LifecycleBounds DEF Records, Snapshots, NoRecord, NoSnapshot
<1>4. restarts' \in 0..MaxRestarts
  BY <1>1, LifecycleBounds DEF Restart, TypeOK
<1>5. TypeOK'
  BY <1>1, <1>2, <1>3, <1>4, LifecycleBounds DEF Restart, TypeOK, Rows
<1>6. \A p \in Players : PlayerInv(p)'
  <2> SUFFICES ASSUME NEW p \in Players PROVE PlayerInv(p)'
    OBVIOUS
  <2>1. /\ actor'[p] = NoActor /\ load'[p] = NoLoad /\ rec'[p] = NoRecord /\ inScene'[p] = FALSE
        /\ last'[p] = row[p].stamp /\ row' = row /\ saved' = saved /\ stamp' = stamp
    BY DEF Restart
  <2>2. saved[p] <= row[p].stamp /\ row[p].stamp <= stamp[p] /\ row[p].stamp \in Nat
    <3>1. row[p].stamp \in Nat /\ last[p] \in Nat /\ stamp[p] \in Nat
      BY <1>1, LifecycleBounds DEF TypeOK, Rows
    <3> QED
      BY <1>1, <3>1 DEF PlayerInv, VersionsRise
  <2>3. ~Online(p)' /\ ~Loading(p)' /\ ~Loaded(p)' /\ ~HasRecord(p)'
    BY <2>1 DEF Online, Loading, Loaded, HasRecord, NoActor, NoLoad, NoRecord
  <2> QED
    BY <2>1, <2>2, <2>3 DEF PlayerInv, BindingInv, RecordInv, VersionsRise, LoadedInv, AwayInv, NoRecord, NoSnapshot
<1>7. Unique' /\ StoppedInv' /\ \A t \in tasks' : TaskInv(t)'
  BY DEF Restart, Unique, StoppedInv
<1> QED
  BY <1>5, <1>6, <1>7, InvPartsNext

-----------------------------------------------------------------------------
(* The database *)

\* A decided task takes the place of the undecided one.
LEMMA DecidedTask ==
    ASSUME LifecycleInv, NEW t \in tasks, NEW d, d.player = t.player, d.id = t.id, tasks' = (tasks \ {t}) \cup {d}
    PROVE  /\ \A u \in tasks' : u.player # t.player => u \in tasks
           /\ \A u, w \in tasks' : (u.player = t.player /\ w.player = t.player /\ u.id = w.id) => u = w
           /\ \A u \in tasks' : u = d \/ (u \in tasks /\ (u.player = t.player => u.id # t.id))
BY InvParts DEF Unique

\* A load that was executed has read the row as it is.
LEMMA ExecuteLoadInv ==
    ASSUME LifecycleInv, NEW t \in tasks, ExecuteLoad(t)
    PROVE  LifecycleInv'
<1> DEFINE p == t.player
           s == [version |-> row[p].version, revision |-> 0, stamp |-> row[p].stamp]
<1>1. TypeOK /\ (\A q \in Players : PlayerInv(q)) /\ \A u \in tasks : TaskInv(u)
  BY InvParts
<1>2. /\ UNCHANGED <<actor, load, latest, rec, inScene, ids, phase, row, last, saved, stamp, restarts>>
      /\ t.kind = "load"
  BY DEF ExecuteLoad, worker, history
<1>3. t \in DbTasks /\ p \in Players /\ s \in Snapshots
  BY <1>1, LifecycleBounds DEF TypeOK, DbTasks, Snapshots, Rows
<1>4. PICK d : /\ tasks' = (tasks \ {t}) \cup {d}
               /\ d = [t EXCEPT !.class = "failure"] \/ d = [t EXCEPT !.class = "success", !.snapshot = s]
  BY DEF ExecuteLoad, Decide
<1>5. /\ d \in DbTasks /\ d.player = p /\ d.id = t.id /\ d.kind = "load"
      /\ d.class = "success" => d.snapshot = s
  <2> HIDE DEF s
  <2> QED
    BY <1>2, <1>3, <1>4 DEF DbTasks
<1>6. TypeOK' /\ \A q \in Players : Same(q)
  BY <1>1, <1>2, <1>4, <1>5 DEF TypeOK, Same
<1>7. PlayerInv(p)'
  BY <1>1, <1>2, <1>3, <1>6, PlayerFrame DEF Same
<1>8. \A u \in tasks' : u.player = p => TaskInv(u)'
  <2> SUFFICES ASSUME NEW u \in tasks', u.player = p PROVE TaskInv(u)'
    OBVIOUS
  <2>1. CASE u \in tasks
    BY <1>1, <1>2, <2>1 DEF TaskInv, SaveInv, LoadInv, Loading
  <2>2. CASE u = d
    <3>1. t.id \in 1..ids[p].task
      BY <1>1 DEF TaskInv
    <3> QED
      BY <1>2, <1>5, <2>2, <3>1 DEF TaskInv, SaveInv, LoadInv
  <2> QED
    BY <1>4, <2>1, <2>2
<1>9. \A u \in tasks' : u.player # p => u \in tasks
  BY <1>4, <1>5
<1>10. \A u, w \in tasks' : (u.player = p /\ w.player = p /\ u.id = w.id) => u = w
  BY <1>4, <1>5, DecidedTask
<1> QED
  BY <1>2, <1>3, <1>6, <1>7, <1>8, <1>9, <1>10, OnePlayer

\* A save in flight: the record and the row before the transaction.
LEMMA SaveFacts ==
    ASSUME LifecycleInv, NEW t \in tasks, t.kind = "save"
    PROVE  LET p == t.player
               s == t.snapshot
           IN  /\ p \in Players /\ s \in Snapshots /\ rec[p] \in Records /\ row[p] \in Rows
               /\ HasRecord(p) /\ rec[p].active = s /\ s.version # 0 /\ rec[p].taskId = t.id
               /\ rec[p].state = "AwaitResult"
               /\ PlayerInv(p)
               /\ t.class = "pending" => row[p].version < s.version
               /\ t.class = "success" => row[p] = [version |-> s.version, stamp |-> s.stamp]
               /\ Loading(p) => load[p].taskId = 0
               /\ \A u \in tasks : u.player = p /\ u # t => u.kind = "load" /\ u.id # t.id
<1>1. TypeOK /\ Unique /\ (\A q \in Players : PlayerInv(q)) /\ \A u \in tasks : TaskInv(u)
  BY InvParts
<1>2. t.player \in Players /\ t.snapshot \in Snapshots /\ rec[t.player] \in Records /\ row[t.player] \in Rows
  BY <1>1 DEF TypeOK, DbTasks
<1>3. TaskInv(t) /\ PlayerInv(t.player)
  BY <1>1, <1>2
<1>4. /\ rec[t.player].active = t.snapshot /\ rec[t.player].taskId = t.id /\ rec[t.player].state = "AwaitResult"
      /\ t.class = "pending" => row[t.player].version < t.snapshot.version
      /\ t.class = "success" => row[t.player] = [version |-> t.snapshot.version, stamp |-> t.snapshot.stamp]
  BY <1>3 DEF TaskInv, SaveInv
<1>5. HasRecord(t.player) /\ t.snapshot.version # 0
  BY <1>3, <1>4 DEF HasRecord, PlayerInv, RecordInv
<1>6. Loading(t.player) => load[t.player].taskId = 0
  BY <1>3, <1>5 DEF PlayerInv, RecordInv, Loaded
<1>7. ASSUME NEW u \in tasks, u.player = t.player, u # t PROVE u.kind = "load" /\ u.id # t.id
  <2>1. u.id # t.id
    BY <1>1, <1>7 DEF Unique
  <2>2. u.kind \in {"load", "save"} /\ TaskInv(u)
    BY <1>1, <1>7 DEF TypeOK, DbTasks
  <2> QED
    BY <1>4, <1>7, <2>1, <2>2 DEF TaskInv, SaveInv
<1> QED
  BY <1>2, <1>3, <1>4, <1>5, <1>6, <1>7

\* A save is executed: it is applied or not, and called a success only if the
\* row has its data.
LEMMA ExecuteSaveInv ==
    ASSUME LifecycleInv, NEW t \in tasks, ExecuteSave(t)
    PROVE  LifecycleInv'
<1> DEFINE p == t.player
           s == t.snapshot
           new == [version |-> s.version, stamp |-> s.stamp]
<1>1. TypeOK /\ \A u \in tasks : TaskInv(u)
  BY InvParts
<1>2. /\ UNCHANGED <<actor, load, latest, rec, inScene, ids, phase, last, saved, stamp, restarts>>
      /\ t.kind = "save" /\ t.class = "pending"
  BY DEF ExecuteSave, worker, history
<1>3. /\ p \in Players /\ s \in Snapshots /\ rec[p] \in Records /\ row[p] \in Rows /\ HasRecord(p)
      /\ rec[p].active = s /\ s.version # 0 /\ rec[p].taskId = t.id /\ PlayerInv(p) /\ row[p].version < s.version
      /\ rec[p].state = "AwaitResult" /\ (Loading(p) => load[p].taskId = 0)
      /\ \A u \in tasks : u.player = p /\ u # t => u.kind = "load" /\ u.id # t.id
  BY <1>2, SaveFacts
<1>4. PICK c \in {"success", "failure"} :
         /\ tasks' = (tasks \ {t}) \cup {[t EXCEPT !.class = c]}
         /\ row' = [row EXCEPT ![p] = new] \/ (row' = row /\ c = "failure")
  <2>1. row[p] # new
    BY <1>3 DEF Rows, Snapshots
  <2> QED
    BY <1>3, <2>1 DEF ExecuteSave, ApplySave, FailSave, Decide
<1> DEFINE d == [t EXCEPT !.class = c]
<1>5. d \in DbTasks /\ d.player = p /\ d.id = t.id /\ d.kind = "save" /\ d.class = c /\ d.snapshot = s
  BY <1>1, <1>2, <1>4 DEF TypeOK, DbTasks
<1>6. new \in Rows /\ new.version = s.version /\ new.stamp = s.stamp
  BY <1>3 DEF Rows, Snapshots
<1> HIDE DEF p, s, d, new
<1>7. TypeOK'
  BY <1>1, <1>2, <1>4, <1>5, <1>6 DEF TypeOK, d
<1>8. \A q \in Players \ {p} : Same(q)
  BY <1>1, <1>2, <1>4 DEF TypeOK, Same
<1>9. row'[p] = new \/ (row'[p] = row[p] /\ c = "failure")
  BY <1>1, <1>3, <1>4 DEF TypeOK
<1>10. PlayerInv(p)'
  <2>1. CASE row'[p] = row[p]
    BY <1>2, <1>3, <2>1, PlayerFrame
  <2>2. CASE row'[p] = new
    <3>1. /\ (Loaded(p)' <=> Loaded(p)) /\ (Online(p)' <=> Online(p)) /\ (Loading(p)' <=> Loading(p))
          /\ HasRecord(p)' /\ rec'[p] = rec[p]
      BY <1>2, <1>3 DEF Loaded, Online, Loading, HasRecord
    <3>2. BindingInv(p)' /\ RecordInv(p)'
      BY <1>2, <1>3 DEF PlayerInv, BindingInv, RecordInv, Loaded, Online, Loading, HasRecord
    <3>3. /\ rec[p].queued \in Snapshots /\ last[p] \in Nat /\ saved[p] \in Nat /\ stamp[p] \in Nat /\ actor[p] \in Actors
          /\ rec[p].nextVersion \in Nat /\ rec[p].confirmedRevision \in Nat
      BY <1>1, <1>3, LifecycleBounds DEF TypeOK, Records
    <3>4. VersionsRise(p)'
      BY <1>2, <1>3, <1>6, <2>2, <3>1, <3>3 DEF PlayerInv, VersionsRise, Rows, Snapshots
    <3>5. Loaded(p) => actor[p].dirty
      BY <1>3, <3>3 DEF PlayerInv, LoadedInv, OpenSnapshot, Actors, Snapshots
    <3>6. LoadedInv(p)'
      BY <1>2, <1>3, <3>1, <3>5 DEF PlayerInv, LoadedInv, OpenSnapshot
    <3>7. AwayInv(p)'
      BY <1>2, <1>3, <3>1 DEF PlayerInv, AwayInv
    <3> QED
      BY <1>2, <1>3, <3>1, <3>2, <3>4, <3>6, <3>7 DEF PlayerInv
  <2> QED
    BY <1>9, <2>1, <2>2
<1>11. \A u \in tasks' : u.player = p => TaskInv(u)'
  <2> SUFFICES ASSUME NEW u \in tasks', u.player = p PROVE TaskInv(u)'
    OBVIOUS
  <2>1. CASE u \in tasks /\ u # t
    <3>1. u.kind = "load" /\ u.id \in 1..ids[p].task /\ u.id # 0
      BY <1>1, <1>3, <2>1 DEF TaskInv
    <3> QED
      BY <1>2, <1>3, <3>1 DEF TaskInv, SaveInv, LoadInv, Loading
  <2>2. CASE u = d
    <3>1. t.id \in 1..ids[p].task
      BY <1>1 DEF TaskInv, p
    <3> QED
      BY <1>2, <1>3, <1>4, <1>5, <1>9, <2>2, <3>1 DEF TaskInv, SaveInv, LoadInv, new
  <2> QED
    BY <1>4, <2>1, <2>2 DEF d
<1>12. /\ \A u \in tasks' : u.player # p => u \in tasks
       /\ \A u, w \in tasks' : (u.player = p /\ w.player = p /\ u.id = w.id) => u = w
  BY <1>4, <1>5, DecidedTask DEF d, p
<1>13. phase = "stopped" => UNCHANGED <<actor, rec>>
  BY <1>2
<1> QED
  BY <1>2, <1>3, <1>7, <1>8, <1>10, <1>11, <1>12, <1>13, OnePlayer


-----------------------------------------------------------------------------
(* Saving *)

\* complete, success: what was sent is in the row, so it is confirmed.
LEMMA SaveSucceedsInv ==
    ASSUME LifecycleInv, NEW t \in tasks, SaveSucceeds(t), phase \in {"running", "draining"}
    PROVE  LifecycleInv'
<1> DEFINE p == t.player
           r == rec[p]
           s == r.active
           done == [r EXCEPT !.confirmedRevision = s.revision, !.active = NoSnapshot, !.taskId = 0, !.state = "Idle"]
           n == IF r.offline /\ r.queued.version = 0 THEN NoRecord ELSE done
           b == IF Online(p) /\ actor[p].epoch = r.actorEpoch /\ ~r.offline THEN Confirmed(actor[p], s) ELSE actor[p]
           v == IF s.stamp > saved[p] THEN s.stamp ELSE saved[p]
<1>1. TypeOK /\ \A u \in tasks : TaskInv(u)
  BY InvParts
<1>2. /\ p \in Players /\ s \in Snapshots /\ r \in Records /\ HasRecord(p) /\ PlayerInv(p) /\ s.version # 0
      /\ row[p].version = s.version /\ row[p].stamp = s.stamp /\ (Loading(p) => load[p].taskId = 0)
      /\ \A u \in tasks : u.player = p /\ u # t => u.kind = "load" /\ u.id # t.id
  <2>1. t.kind = "save" /\ t.class = "success"
    BY DEF SaveSucceeds
  <2>2. /\ p \in Players /\ t.snapshot \in Snapshots /\ rec[p] \in Records /\ HasRecord(p) /\ PlayerInv(p)
        /\ rec[p].active = t.snapshot /\ t.snapshot.version # 0 /\ (Loading(p) => load[p].taskId = 0)
        /\ row[p] = [version |-> t.snapshot.version, stamp |-> t.snapshot.stamp]
        /\ \A u \in tasks : u.player = p /\ u # t => u.kind = "load" /\ u.id # t.id
    BY <2>1, SaveFacts
  <2> QED
    BY <2>2
<1>3. /\ actor[p] \in Actors /\ saved[p] \in 0..MaxStamp /\ stamp[p] \in 0..MaxStamp /\ last[p] \in 0..MaxStamp
      /\ r.queued \in Snapshots /\ r.nextVersion \in Nat /\ r.confirmedRevision \in Nat /\ s.version \in Nat
      /\ s.revision \in 0..MaxStamp /\ s.stamp \in 0..MaxStamp /\ MaxStamp \in Nat
  BY <1>1, <1>2, LifecycleBounds DEF TypeOK, Records, Snapshots
<1>4. /\ actor' = [actor EXCEPT ![p] = b] /\ rec' = [rec EXCEPT ![p] = n] /\ saved' = [saved EXCEPT ![p] = v]
      /\ tasks' = tasks \ {t}
      /\ UNCHANGED <<load, latest, inScene, ids, phase, row, last, stamp, restarts>>
  BY <1>1, <1>2 DEF SaveSucceeds, TypeOK
<1>5. NoSnapshot \in Snapshots /\ NoSnapshot.version = 0
  BY LifecycleBounds DEF NoSnapshot, Snapshots
<1>6. /\ done \in Records /\ done.confirmedRevision = s.revision /\ done.active = NoSnapshot /\ done.queued = r.queued
      /\ done.state = "Idle" /\ done.offline = r.offline /\ done.nextVersion = r.nextVersion
  <2> DEFINE x == s.revision
  <2> HIDE DEF x
  <2>1. x \in 0..MaxStamp
    BY <1>3 DEF x
  <2>2. LET e == [r EXCEPT !.confirmedRevision = x, !.active = NoSnapshot, !.taskId = 0, !.state = "Idle"] IN
        /\ e \in Records /\ e.confirmedRevision = x /\ e.active = NoSnapshot /\ e.queued = r.queued
        /\ e.state = "Idle" /\ e.offline = r.offline /\ e.nextVersion = r.nextVersion
    BY <1>2, <1>5, <2>1 DEF Records
  <2> QED
    BY <2>2 DEF x
<1>7. NoRecord \in Records
  BY <1>5, LifecycleBounds DEF NoRecord, Records
<1>8. n \in Records
  BY <1>6, <1>7
<1>9. v \in 0..MaxStamp
  BY <1>3
<1>10. /\ b \in Actors /\ b.epoch = actor[p].epoch /\ b.binding = actor[p].binding
       /\ b.stamp = actor[p].stamp /\ b.revision = actor[p].revision
       /\ \/ b = actor[p]
          \/ /\ b.persistedVersion = s.version /\ b.persistedRevision = s.revision
             /\ b.dirty <=> (actor[p].dirty /\ s.revision # actor[p].revision)
  <2> DEFINE f == actor[p].dirty /\ s.revision # actor[p].revision
             x == s.revision
             y == s.version
             w == [actor[p] EXCEPT !.persistedVersion = y, !.persistedRevision = x, !.dirty = f]
  <2>1. f \in BOOLEAN /\ x \in 0..MaxStamp /\ y \in Nat
    BY <1>3
  <2>2. b = actor[p] \/ b = w
    BY DEF Confirmed
  <2>3. (f <=> (actor[p].dirty /\ s.revision # actor[p].revision)) /\ x = s.revision /\ y = s.version
    OBVIOUS
  <2> HIDE DEF f, x, y, b
  <2>4. /\ w \in Actors /\ w.epoch = actor[p].epoch /\ w.binding = actor[p].binding /\ w.stamp = actor[p].stamp
        /\ w.revision = actor[p].revision /\ w.persistedVersion = y /\ w.persistedRevision = x /\ w.dirty = f
    BY <1>3, <2>1 DEF Actors
  <2> HIDE DEF w
  <2> QED
    BY <1>3, <2>2, <2>3, <2>4
<1>11. r.offline => b = actor[p]
  OBVIOUS
<1>12. (r.offline /\ r.queued.version = 0 /\ n = NoRecord) \/ (~(r.offline /\ r.queued.version = 0) /\ n = done)
  OBVIOUS
<1>13. v = s.stamp
  BY <1>2, <1>3 DEF PlayerInv, VersionsRise
<1> HIDE DEF b, n, v, done
<1>14. TypeOK'
  BY <1>1, <1>2, <1>4, <1>8, <1>9, <1>10 DEF TypeOK
<1>15. \A q \in Players \ {p} : Same(q)
  BY <1>1, <1>2, <1>4 DEF TypeOK, Same
<1>16. actor'[p] = b /\ rec'[p] = n /\ saved'[p] = s.stamp
  BY <1>1, <1>2, <1>4, <1>13 DEF TypeOK
<1>17. PlayerInv(p)'
  <2>1. CASE n = NoRecord
    <3>1. r.offline /\ r.queued.version = 0 /\ ~Online(p) /\ s.stamp = last[p] /\ b = actor[p]
      BY <1>2, <1>6, <1>11, <1>12, <2>1 DEF PlayerInv, AwayInv, Loaded, NoRecord
    <3>2. ~Online(p)' /\ ~Loaded(p)' /\ ~HasRecord(p)'
      BY <1>16, <2>1, <3>1 DEF Online, Loaded, HasRecord, NoRecord
    <3>3. BindingInv(p)' /\ RecordInv(p)' /\ VersionsRise(p)' /\ LoadedInv(p)' /\ AwayInv(p)'
      BY <1>2, <1>3, <1>4, <1>16, <2>1, <3>1, <3>2 DEF PlayerInv, BindingInv, RecordInv, VersionsRise, LoadedInv,
         AwayInv, NoRecord, NoSnapshot, Loading, Online, HasRecord
    <3> QED
      BY <1>2, <1>4, <1>16, <2>1, <3>1, <3>2, <3>3 DEF PlayerInv, NoRecord, Loading, Loaded
  <2>2. CASE n = done
    <3>1. HasRecord(p)' /\ (r.offline => r.queued.version # 0)
      BY <1>6, <1>12, <1>16, <2>2 DEF HasRecord, NoRecord
    <3>2. BindingInv(p)'
      BY <1>2, <1>4, <1>10, <1>16 DEF PlayerInv, BindingInv, Online, Loading
    <3>3. RecordInv(p)'
      BY <1>2, <1>4, <1>5, <1>6, <1>10, <1>16, <2>2, <3>1 DEF PlayerInv, RecordInv, Loaded, Online, Loading, HasRecord
    <3>4. VersionsRise(p)'
      BY <1>2, <1>3, <1>4, <1>5, <1>6, <1>16, <2>2, <3>1 DEF PlayerInv, VersionsRise, HasRecord, Snapshots
    <3>5. AwayInv(p)'
      BY <1>2, <1>4, <1>5, <1>6, <1>10, <1>16, <2>2, <3>1 DEF PlayerInv, AwayInv, RecordInv, Loaded, Online, Loading, HasRecord
    <3>6. LoadedInv(p)'
      <4> SUFFICES ASSUME Loaded(p)' PROVE LoadedInv(p)'
        BY DEF LoadedInv
      <4>1. Loaded(p) /\ ~r.offline
        BY <1>2, <1>4, <1>10, <1>16 DEF Loaded, Online, Loading, PlayerInv
      <4>2. OpenSnapshot(p, s) /\ OpenSnapshot(p, r.queued) /\ actor[p].dirty
        BY <1>2, <1>3, <4>1 DEF PlayerInv, LoadedInv, OpenSnapshot, Actors
      <4>3. /\ b.stamp = last'[p] /\ (b.revision > 0 => b.stamp = stamp'[p]) /\ b.revision <= stamp'[p]
            /\ s.revision <= b.revision /\ (s.revision = b.revision => s.stamp = b.stamp)
            /\ b.stamp \in Nat /\ b.revision \in Nat /\ b.persistedRevision \in Nat /\ b.persistedVersion \in Nat
        BY <1>2, <1>3, <1>4, <1>10, <4>1, <4>2 DEF PlayerInv, LoadedInv, OpenSnapshot, Actors
      <4>4. /\ b.persistedRevision <= s.revision /\ b.persistedVersion <= s.version
            /\ (b.dirty <=> b.revision # b.persistedRevision) /\ (~b.dirty => row[p].stamp = b.stamp)
        <5>1. CASE b = actor[p]
          BY <1>2, <1>3, <4>1, <4>2, <5>1 DEF PlayerInv, LoadedInv, OpenSnapshot, Actors
        <5>2. CASE b.persistedVersion = s.version /\ b.persistedRevision = s.revision
                   /\ (b.dirty <=> (actor[p].dirty /\ s.revision # actor[p].revision))
          BY <1>2, <1>3, <1>10, <4>2, <4>3, <5>2
        <5> QED
          BY <1>10, <5>1, <5>2
      <4>5. r.queued.version # 0 =>
               /\ s.version < r.queued.version /\ s.revision < r.queued.revision
               /\ r.queued.revision <= b.revision /\ r.queued.stamp = b.stamp - (b.revision - r.queued.revision)
               /\ r.queued.version \in Nat /\ r.queued.revision \in Nat
        BY <1>2, <1>3, <1>10, <4>2 DEF PlayerInv, VersionsRise, OpenSnapshot, Snapshots
      <4>6. s.version <= r.nextVersion
        BY <1>2 DEF PlayerInv, VersionsRise
      <4>7. OpenSnapshot(p, rec[p].queued)'
        BY <1>3, <1>6, <1>16, <2>2, <4>3, <4>4, <4>5 DEF OpenSnapshot
      <4>8. OpenSnapshot(p, rec[p].active)'
        BY <1>5, <1>6, <1>16, <2>2 DEF OpenSnapshot
      <4> QED
        BY <1>3, <1>4, <1>6, <1>16, <2>2, <3>1, <4>3, <4>4, <4>6, <4>7, <4>8 DEF LoadedInv
    <3> QED
      BY <1>2, <1>4, <1>6, <1>10, <1>16, <2>2, <3>1, <3>2, <3>3, <3>4, <3>5, <3>6 DEF PlayerInv, Online, Loading, Loaded, HasRecord
  <2> QED
    BY <1>12, <2>1, <2>2
<1>18. \A u \in tasks' : u.player = p => TaskInv(u)'
  <2> SUFFICES ASSUME NEW u \in tasks, u # t, u.player = p PROVE TaskInv(u)'
    BY <1>4
  <2>1. u.kind = "load" /\ TaskInv(u)
    BY <1>1, <1>2
  <2> QED
    BY <1>4, <2>1 DEF TaskInv, SaveInv, LoadInv, Loading
<1> QED
  BY <1>2, <1>4, <1>14, <1>15, <1>17, <1>18, FewerTasks, OnePlayer

\* complete, anything else: the record is blocked and keeps its snapshots.
LEMMA SaveFailsInv ==
    ASSUME LifecycleInv, NEW t \in tasks, SaveFails(t), phase \in {"running", "draining"}
    PROVE  LifecycleInv'
<1> DEFINE p == t.player
           n == [rec[p] EXCEPT !.state = "Blocked"]
<1>1. TypeOK /\ \A u \in tasks : TaskInv(u)
  BY InvParts
<1>2. /\ p \in Players /\ rec[p] \in Records /\ HasRecord(p) /\ PlayerInv(p) /\ rec[p].state = "AwaitResult"
      /\ \A u \in tasks : u.player = p /\ u # t => u.kind = "load" /\ u.id # t.id
  BY SaveFacts DEF SaveFails
<1>3. /\ rec' = [rec EXCEPT ![p] = n] /\ tasks' = tasks \ {t}
      /\ UNCHANGED <<actor, load, latest, inScene, ids, phase, row, last, saved, stamp, restarts>>
  BY DEF SaveFails, history
<1>4. /\ n \in Records /\ n.state = "Blocked" /\ n.offline = rec[p].offline /\ n.active = rec[p].active
      /\ n.queued = rec[p].queued /\ n.nextVersion = rec[p].nextVersion
      /\ n.confirmedRevision = rec[p].confirmedRevision
  BY <1>2 DEF Records
<1> HIDE DEF n
<1>5. TypeOK' /\ rec'[p] = n
  BY <1>1, <1>2, <1>3, <1>4 DEF TypeOK
<1>6. \A q \in Players \ {p} : Same(q)
  BY <1>1, <1>2, <1>3 DEF TypeOK, Same
<1>7. PlayerInv(p)'
  <2>1. HasRecord(p)'
    BY <1>4, <1>5 DEF HasRecord
  <2>2. BindingInv(p)' /\ RecordInv(p)' /\ VersionsRise(p)' /\ AwayInv(p)'
    BY <1>2, <1>3, <1>4, <1>5, <2>1 DEF PlayerInv, BindingInv, RecordInv, VersionsRise, AwayInv, Online, Loading,
       Loaded, HasRecord
  <2>3. LoadedInv(p)'
    BY <1>2, <1>3, <1>4, <1>5, <2>1 DEF PlayerInv, LoadedInv, OpenSnapshot, Online, Loading, Loaded, HasRecord
  <2> QED
    BY <1>2, <1>3, <1>4, <1>5, <2>1, <2>2, <2>3 DEF PlayerInv, Online, Loading, Loaded
<1>8. \A u \in tasks' : u.player = p => TaskInv(u)'
  <2> SUFFICES ASSUME NEW u \in tasks, u # t, u.player = p PROVE TaskInv(u)'
    BY <1>3
  <2>1. u.kind = "load" /\ TaskInv(u)
    BY <1>1, <1>2
  <2> QED
    BY <1>3, <2>1 DEF TaskInv, SaveInv, LoadInv, Loading
<1> QED
  BY <1>2, <1>3, <1>5, <1>6, <1>7, <1>8, FewerTasks, OnePlayer


\* OpenSnapshot, for an actor a and a record r.
Open(a, r, s) ==
    s.version # 0 =>
        /\ a.persistedVersion < s.version
        /\ a.persistedRevision < s.revision /\ r.confirmedRevision <= s.revision
        /\ s.revision <= a.revision /\ s.stamp = a.stamp - (a.revision - s.revision)

\* The record r would fit the actor a of p; `here' tells whether p is loaded.
Fits(p, a, here, r) ==
    /\ r.state # "none"
    /\ r.offline <=> ~here
    /\ r.active.version # 0 <=> r.state \in {"AwaitResult", "Blocked"}
    /\ r.offline => r.active.version # 0 \/ r.queued.version # 0
    /\ row[p].version <= r.nextVersion
    /\ r.active.version # 0 =>
         /\ row[p].version <= r.active.version /\ r.active.version <= r.nextVersion
         /\ row[p].stamp <= r.active.stamp /\ r.active.stamp <= last[p]
    /\ r.queued.version # 0 =>
         /\ row[p].version < r.queued.version /\ r.queued.version = r.nextVersion
         /\ row[p].stamp <= r.queued.stamp /\ r.queued.stamp <= last[p]
    /\ (r.active.version # 0 /\ r.queued.version # 0) =>
         /\ r.active.version < r.queued.version /\ r.active.revision < r.queued.revision
         /\ r.active.stamp <= r.queued.stamp
    /\ here => /\ a.persistedVersion <= r.nextVersion
               /\ a.persistedRevision <= r.confirmedRevision /\ r.confirmedRevision <= a.revision
               /\ Open(a, r, r.active) /\ Open(a, r, r.queued)
    /\ ~here => /\ r.queued.version # 0 => r.queued.stamp = last[p]
                /\ (r.queued.version = 0 /\ r.active.version # 0) => r.active.stamp = last[p]

\* A step on the record of p, which may also log p out.
RecordStep(p) ==
    /\ \/ UNCHANGED <<actor, load, inScene>>
       \/ /\ actor' = [actor EXCEPT ![p] = NoActor] /\ load' = [load EXCEPT ![p] = NoLoad]
          /\ inScene' = [inScene EXCEPT ![p] = FALSE]
    /\ UNCHANGED <<latest, phase, row, last, saved, stamp, restarts>>

\* What such a step leaves alone.
LEMMA RecordFrame ==
    ASSUME LifecycleInv, NEW p \in Players, NEW n \in Records, NEW i \in [epoch : Nat, task : Nat],
           RecordStep(p), rec' = [rec EXCEPT ![p] = n], ids' = [ids EXCEPT ![p] = i], tasks' \subseteq DbTasks
    PROVE  /\ TypeOK' /\ rec'[p] = n /\ ids'[p] = i
           /\ \A q \in Players \ {p} : Same(q)
           /\ actor'[p] \in Actors
           /\ \/ actor'[p] = actor[p] /\ load'[p] = load[p] /\ inScene'[p] = inScene[p]
              \/ actor'[p] = NoActor /\ load'[p] = NoLoad /\ inScene'[p] = FALSE
<1>1. TypeOK
  BY InvParts
<1>2. NoActor \in Actors /\ NoLoad \in Loads
  BY LifecycleBounds DEF NoActor, NoLoad, Actors, Loads
<1>3. \/ UNCHANGED <<actor, load, inScene>>
      \/ /\ actor' = [actor EXCEPT ![p] = NoActor] /\ load' = [load EXCEPT ![p] = NoLoad]
         /\ inScene' = [inScene EXCEPT ![p] = FALSE]
  BY DEF RecordStep
<1>4. actor' \in [Players -> Actors] /\ load' \in [Players -> Loads] /\ inScene' \in [Players -> BOOLEAN]
  <2>1. actor \in [Players -> Actors] /\ load \in [Players -> Loads] /\ inScene \in [Players -> BOOLEAN]
    BY <1>1 DEF TypeOK
  <2>2. CASE UNCHANGED <<actor, load, inScene>>
    BY <2>1, <2>2
  <2>3. CASE /\ actor' = [actor EXCEPT ![p] = NoActor] /\ load' = [load EXCEPT ![p] = NoLoad]
             /\ inScene' = [inScene EXCEPT ![p] = FALSE]
    BY <1>2, <2>1, <2>3
  <2> QED
    BY <1>3, <2>2, <2>3
<1>5. TypeOK'
  BY <1>1, <1>4 DEF TypeOK, RecordStep
<1>6. \A q \in Players \ {p} : actor'[q] = actor[q] /\ load'[q] = load[q] /\ inScene'[q] = inScene[q]
  BY <1>1, <1>3 DEF TypeOK
<1>7. \A q \in Players \ {p} : Same(q)
  BY <1>1, <1>6 DEF TypeOK, Same, RecordStep
<1>8. \/ actor'[p] = actor[p] /\ load'[p] = load[p] /\ inScene'[p] = inScene[p]
      \/ actor'[p] = NoActor /\ load'[p] = NoLoad /\ inScene'[p] = FALSE
  BY <1>1, <1>3 DEF TypeOK
<1> QED
  BY <1>1, <1>4, <1>5, <1>7, <1>8 DEF TypeOK

\* A record that fits, once in place, keeps the player's part.
LEMMA FitsInv ==
    ASSUME LifecycleInv, NEW p \in Players, NEW n \in Records, RecordStep(p), rec'[p] = n,
           \/ actor'[p] = actor[p] /\ load'[p] = load[p] /\ inScene'[p] = inScene[p]
           \/ actor'[p] = NoActor /\ load'[p] = NoLoad /\ inScene'[p] = FALSE,
           NEW here \in BOOLEAN, here <=> Loaded(p)', Fits(p, actor'[p], here, n),
           n.offline => ~Online(p)'
    PROVE  PlayerInv(p)'
<1>1. TypeOK /\ PlayerInv(p)
  BY InvParts
<1>2. /\ phase' = phase /\ latest'[p] = latest[p] /\ row'[p] = row[p] /\ last'[p] = last[p] /\ saved'[p] = saved[p]
      /\ stamp'[p] = stamp[p] /\ n.state # "none"
  BY DEF RecordStep, Fits
<1>3. HasRecord(p)'
  BY <1>2 DEF HasRecord
<1>4. BindingInv(p)' /\ (inScene'[p] => Loaded(p)')
      /\ ((Loading(p)' /\ load'[p].taskId # 0) =>
           Online(p)' /\ actor'[p].epoch = load'[p].actorEpoch /\ actor'[p].binding = load'[p].binding)
  <2>1. CASE actor'[p] = actor[p] /\ load'[p] = load[p] /\ inScene'[p] = inScene[p]
    BY <1>1, <1>2, <2>1 DEF PlayerInv, BindingInv, Loaded, Online, Loading
  <2>2. CASE actor'[p] = NoActor /\ load'[p] = NoLoad /\ inScene'[p] = FALSE
    BY <2>2 DEF BindingInv, Loaded, Online, Loading, NoActor, NoLoad
  <2> QED
    BY <2>1, <2>2
<1>5. RecordInv(p)' /\ AwayInv(p)'
  BY <1>2, <1>3 DEF RecordInv, AwayInv, Fits
<1>6. VersionsRise(p)'
  BY <1>1, <1>2, <1>3 DEF PlayerInv, VersionsRise, Fits
<1>7. LoadedInv(p)'
  <2> SUFFICES ASSUME Loaded(p)' PROVE LoadedInv(p)'
    BY DEF LoadedInv
  <2>1. actor'[p] = actor[p] /\ Loaded(p)
    BY DEF Loaded, Online, Loading, NoActor
  <2>2. /\ n.state # "none"
        /\ actor[p].persistedVersion <= n.nextVersion
        /\ actor[p].persistedRevision <= n.confirmedRevision /\ n.confirmedRevision <= actor[p].revision
        /\ Open(actor[p], n, n.active) /\ Open(actor[p], n, n.queued)
    BY <2>1 DEF Fits
  <2> QED
    BY <1>1, <1>2, <1>3, <2>1, <2>2 DEF PlayerInv, LoadedInv, OpenSnapshot, Open
<1> QED
  BY <1>3, <1>4, <1>5, <1>6, <1>7 DEF PlayerInv

\* The record r whose queued snapshot is sent under the identity i.
Sent(r, i) == [r EXCEPT !.state = "AwaitResult", !.active = r.queued, !.queued = NoSnapshot, !.taskId = i]

\* Sending what is queued: the record still fits.
LEMMA SendFits ==
    ASSUME TypeOK, NEW p \in Players, NEW a \in Actors, NEW here \in BOOLEAN, NEW r \in Records, NEW i \in Nat,
           Fits(p, a, here, r), r.state = "Idle", r.queued.version # 0,
           NEW n, n = Sent(r, i)
    PROVE  /\ Fits(p, a, here, n) /\ n \in Records /\ n.offline = r.offline
           /\ n.state = "AwaitResult" /\ n.active = r.queued /\ n.taskId = i
           /\ row[p].version < n.active.version
<1>1. r.queued \in Snapshots /\ NoSnapshot \in Snapshots /\ NoSnapshot.version = 0
  BY LifecycleBounds DEF Records, Snapshots, NoSnapshot
<1>2. /\ n \in Records /\ n.offline = r.offline /\ n.state = "AwaitResult" /\ n.active = r.queued /\ n.taskId = i
      /\ n.queued = NoSnapshot /\ n.nextVersion = r.nextVersion /\ n.confirmedRevision = r.confirmedRevision
  <2> DEFINE z == r.queued
  <2>1. z \in Snapshots
    BY <1>1
  <2> HIDE DEF z
  <2>2. n = [r EXCEPT !.state = "AwaitResult", !.active = z, !.queued = NoSnapshot, !.taskId = i]
    BY DEF Sent, z
  <2>3. /\ n \in Records /\ n.offline = r.offline /\ n.state = "AwaitResult" /\ n.active = z /\ n.taskId = i
        /\ n.queued = NoSnapshot /\ n.nextVersion = r.nextVersion /\ n.confirmedRevision = r.confirmedRevision
    BY <1>1, <2>1, <2>2 DEF Records
  <2> QED
    BY <2>3 DEF z
<1>3. row[p] \in Rows /\ r.nextVersion \in Nat
  BY DEF TypeOK, Records
<1>4. row[p].version < r.queued.version
  BY DEF Fits
<1>5. Open(a, n, n.active) <=> Open(a, r, r.queued)
  BY <1>2 DEF Open
<1>6. Open(a, n, n.queued)
  BY <1>1, <1>2 DEF Open
<1>7. Fits(p, a, here, n)
  BY <1>1, <1>2, <1>3, <1>5, <1>6 DEF Fits, Rows, Snapshots
<1> QED
  BY <1>2, <1>4, <1>7


\* A save in flight is the active snapshot of r as well.
Carries(p, r) ==
    rec[p].state = "AwaitResult" =>
        r.state = "AwaitResult" /\ r.taskId = rec[p].taskId /\ r.active = rec[p].active

\* A record that fits is put in place, and its snapshot sent if it may be.
LEMMA DispatchInv ==
    ASSUME LifecycleInv, NEW p \in Players, NEW r \in Records, NEW accepted \in BOOLEAN,
           Dispatch(p, r, accepted), RecordStep(p), phase # "stopped", Carries(p, r),
           NEW here \in BOOLEAN, here <=> Loaded(p)', Fits(p, actor'[p], here, r), r.offline => ~Online(p)'
    PROVE  LifecycleInv'
<1>1. TypeOK /\ Unique /\ PlayerInv(p) /\ \A t \in tasks : TaskInv(t)
  BY InvParts
<1>2. ids[p] \in [epoch : Nat, task : Nat] /\ ids[p].task \in Nat /\ tasks \subseteq DbTasks
  BY <1>1 DEF TypeOK
<1>3. CASE r.state = "Idle" /\ r.queued.version # 0 /\ accepted
  <2> DEFINE k == ids[p].task + 1
             n == Sent(r, k)
             i == [ids[p] EXCEPT !.task = k]
             d == NewTask(p, "save", r.queued)
  <2>1. k \in Nat /\ k = ids[p].task + 1 /\ ids[p].task <= k
    BY <1>2
  <2>2. rec' = [rec EXCEPT ![p] = n] /\ tasks' = tasks \cup {d} /\ ids' = [ids EXCEPT ![p] = i]
    BY <1>1, <1>3 DEF Dispatch, TypeOK, Sent
  <2>3. r.queued \in Snapshots
    BY DEF Records
  <2>4. /\ d \in DbTasks /\ d.id = k /\ d.player = p /\ d.kind = "save" /\ d.snapshot = r.queued /\ d.class = "pending"
        /\ \A t \in tasks' : t.player # p => t \in tasks
        /\ \A t, u \in tasks' : (t.player = p /\ u.player = p /\ t.id = u.id) => t = u
    BY <2>2, <2>3, FreshTask DEF NewTask
  <2> HIDE DEF k, d
  <2>5. i \in [epoch : Nat, task : Nat] /\ i.task = k
    BY <1>2, <2>1
  <2> DEFINE m == n
  <2>6. m = Sent(r, k) /\ rec' = [rec EXCEPT ![p] = m]
    BY <2>2
  <2> HIDE DEF m, i
  <2>7. m \in Records
    <3> DEFINE z == r.queued
    <3>1. NoSnapshot \in Snapshots /\ z \in Snapshots
      BY <2>3, LifecycleBounds DEF Snapshots, NoSnapshot
    <3> HIDE DEF z
    <3>2. m = [r EXCEPT !.state = "AwaitResult", !.active = z, !.queued = NoSnapshot, !.taskId = k]
      BY <2>6 DEF Sent, z
    <3> QED
      BY <2>1, <3>1, <3>2 DEF Records
  <2>8. tasks' \subseteq DbTasks
    BY <1>2, <2>2, <2>4
  <2>9. /\ TypeOK' /\ rec'[p] = m /\ ids'[p] = i /\ actor'[p] \in Actors
        /\ \A q \in Players \ {p} : Same(q)
        /\ \/ actor'[p] = actor[p] /\ load'[p] = load[p] /\ inScene'[p] = inScene[p]
           \/ actor'[p] = NoActor /\ load'[p] = NoLoad /\ inScene'[p] = FALSE
    BY <2>2, <2>5, <2>6, <2>7, <2>8, RecordFrame
  <2>10. /\ Fits(p, actor'[p], here, m) /\ m.offline = r.offline /\ m.state = "AwaitResult" /\ m.active = r.queued
         /\ m.taskId = k /\ row[p].version < m.active.version
    BY <1>1, <1>3, <2>1, <2>6, <2>9, SendFits
  <2>11. PlayerInv(p)'
    BY <2>7, <2>9, <2>10, FitsInv
  <2>12. \A t \in tasks' : t.player = p => TaskInv(t)'
    <3> SUFFICES ASSUME NEW t \in tasks', t.player = p PROVE TaskInv(t)'
      OBVIOUS
    <3>1. CASE t = d
      <4>1. t.id \in 1..ids'[p].task
        BY <2>1, <2>4, <2>5, <2>9, <1>2, <3>1
      <4> QED
        BY <2>4, <2>9, <2>10, <3>1, <4>1 DEF TaskInv, SaveInv, LoadInv, RecordStep
    <3>2. CASE t \in tasks
      <4>1. TaskInv(t) /\ t.kind # "save"
        BY <1>1, <1>3, <3>2 DEF TaskInv, SaveInv, Carries
      <4>2. t.id \in 1..ids'[p].task /\ t.id # 0
        BY <1>2, <2>1, <2>5, <2>9, <4>1 DEF TaskInv
      <4> QED
        BY <2>9, <4>1, <4>2 DEF TaskInv, SaveInv, LoadInv, RecordStep, Loading, NoLoad
    <3> QED
      BY <2>2, <3>1, <3>2
  <2> QED
    BY <2>4, <2>9, <2>11, <2>12, OnePlayer DEF RecordStep
<1>4. CASE ~(r.state = "Idle" /\ r.queued.version # 0 /\ accepted)
  <2>1. rec' = [rec EXCEPT ![p] = r] /\ tasks' = tasks /\ ids' = ids
    BY <1>4 DEF Dispatch
  <2>2. ids' = [ids EXCEPT ![p] = ids[p]]
    BY <1>1, <2>1 DEF TypeOK
  <2>3. /\ TypeOK' /\ rec'[p] = r /\ ids'[p] = ids[p]
        /\ \A q \in Players \ {p} : Same(q)
        /\ \/ actor'[p] = actor[p] /\ load'[p] = load[p] /\ inScene'[p] = inScene[p]
           \/ actor'[p] = NoActor /\ load'[p] = NoLoad /\ inScene'[p] = FALSE
    BY <1>2, <2>1, <2>2, RecordFrame
  <2>4. PlayerInv(p)'
    BY <2>3, FitsInv
  <2>5. \A t \in tasks' : t.player = p => TaskInv(t)'
    <3> SUFFICES ASSUME NEW t \in tasks, t.player = p PROVE TaskInv(t)'
      BY <2>1
    <3>1. TaskInv(t) /\ t.id # 0
      BY <1>1 DEF TaskInv
    <3> QED
      BY <2>3, <3>1 DEF TaskInv, SaveInv, LoadInv, RecordStep, Loading, NoLoad, Carries
  <2> QED
    BY <2>1, <2>3, <2>4, <2>5, FewerTasks, OnePlayer DEF RecordStep
<1> QED
  BY <1>3, <1>4


\* The record request works on.
LEMMA RecordForFits ==
    ASSUME LifecycleInv, NEW p \in Players, Loaded(p), NEW offline \in BOOLEAN, NEW r, r = RecordFor(p, offline)
    PROVE  /\ r \in Records /\ r.offline = offline /\ Carries(p, r)
           /\ r.active.version = 0 => rec[p].state # "AwaitResult"
           /\ Fits(p, actor[p], TRUE, [r EXCEPT !.offline = FALSE])
<1>1. TypeOK /\ PlayerInv(p)
  BY InvParts
<1>2. /\ actor[p] \in Actors /\ rec[p] \in Records /\ actor[p].epoch \in Nat /\ actor[p].persistedVersion \in Nat
      /\ actor[p].persistedRevision \in 0..MaxStamp /\ row[p] \in Rows /\ rec[p].offline = FALSE
  BY <1>1 DEF TypeOK, Actors, Records, PlayerInv, Loaded
<1> DEFINE f == [r EXCEPT !.offline = FALSE]
<1>3. CASE HasRecord(p)
  <2> DEFINE e == actor[p].epoch
             o == rec[p].offline \/ offline
  <2>1. r = [rec[p] EXCEPT !.actorEpoch = e, !.offline = o] /\ e \in Nat /\ o = offline
    BY <1>2, <1>3 DEF RecordFor
  <2> HIDE DEF e, o
  <2>2. /\ r \in Records /\ r.offline = offline /\ r.state = rec[p].state /\ r.taskId = rec[p].taskId
        /\ r.active = rec[p].active /\ r.queued = rec[p].queued /\ r.nextVersion = rec[p].nextVersion
        /\ r.confirmedRevision = rec[p].confirmedRevision
    BY <1>2, <2>1 DEF Records
  <2>3. /\ f.offline = FALSE /\ f.state = rec[p].state
        /\ f.active = rec[p].active /\ f.queued = rec[p].queued /\ f.nextVersion = rec[p].nextVersion
        /\ f.confirmedRevision = rec[p].confirmedRevision
    BY <2>2 DEF Records
  <2> HIDE DEF f
  <2>4. Open(actor[p], f, f.active) /\ Open(actor[p], f, f.queued)
    BY <1>1, <2>3 DEF PlayerInv, LoadedInv, OpenSnapshot, Open
  <2>5. Fits(p, actor[p], TRUE, f)
    BY <1>1, <1>2, <1>3, <2>3, <2>4 DEF Fits, PlayerInv, RecordInv, VersionsRise, LoadedInv, HasRecord
  <2>6. Carries(p, r) /\ (r.active.version = 0 => rec[p].state # "AwaitResult")
    BY <1>1, <2>2 DEF Carries, PlayerInv, RecordInv
  <2> QED
    BY <2>2, <2>5, <2>6 DEF f
<1>4. CASE ~HasRecord(p)
  <2> DEFINE e == actor[p].epoch
             v == actor[p].persistedVersion
             c == actor[p].persistedRevision
  <2>1. /\ r = [NoRecord EXCEPT !.state = "Idle", !.actorEpoch = e, !.nextVersion = v, !.confirmedRevision = c,
                                !.offline = offline]
    BY <1>2, <1>4 DEF RecordFor
  <2>a. e \in Nat /\ v \in Nat /\ c \in 0..MaxStamp
    BY <1>2
  <2>2. NoSnapshot \in Snapshots /\ NoSnapshot.version = 0
    BY LifecycleBounds DEF NoSnapshot, Snapshots
  <2> HIDE DEF e, v, c
  <2>3. /\ r \in Records /\ r.offline = offline /\ r.state = "Idle" /\ r.active = NoSnapshot /\ r.queued = NoSnapshot
        /\ r.nextVersion = v /\ r.confirmedRevision = c
    <3>1. r = [state |-> "Idle", actorEpoch |-> e, nextVersion |-> v, confirmedRevision |-> c, taskId |-> 0,
               offline |-> offline, active |-> NoSnapshot, queued |-> NoSnapshot]
      BY <2>1 DEF NoRecord
    <3> QED
      BY <2>2, <2>a, <3>1 DEF Records
  <2>4. /\ f.offline = FALSE /\ f.state = "Idle" /\ f.active = NoSnapshot /\ f.queued = NoSnapshot
        /\ f.nextVersion = v /\ f.confirmedRevision = c
    BY <2>3 DEF Records
  <2> HIDE DEF f
  <2>5. v = row[p].version /\ c <= actor[p].revision /\ actor[p].persistedVersion = v /\ actor[p].persistedRevision = c
    BY <1>1, <1>4 DEF PlayerInv, LoadedInv, v, c
  <2>6. Fits(p, actor[p], TRUE, f)
    BY <2>2, <2>4, <2>5, <2>a DEF Fits, Open
  <2>7. rec[p].state # "AwaitResult"
    BY <1>4 DEF HasRecord
  <2> QED
    BY <2>3, <2>6, <2>7 DEF f, Carries
<1> QED
  BY <1>3, <1>4

\* A record that fits a loaded player, and has its last state in the newest
\* snapshot, fits the player gone as well.
LEMMA FitsAway ==
    ASSUME NEW p, NEW a, NEW r \in Records, r.offline, Fits(p, a, TRUE, [r EXCEPT !.offline = FALSE]),
           r.active.version # 0 \/ r.queued.version # 0,
           r.queued.version # 0 => r.queued.stamp = last[p],
           (r.queued.version = 0 /\ r.active.version # 0) => r.active.stamp = last[p]
    PROVE  Fits(p, NoActor, FALSE, r)
<1> DEFINE f == [r EXCEPT !.offline = FALSE]
<1>1. /\ f.state = r.state /\ f.active = r.active /\ f.queued = r.queued /\ f.nextVersion = r.nextVersion
  BY DEF Records
<1>2. Fits(p, a, TRUE, f)
  OBVIOUS
<1> HIDE DEF f
<1> QED
  BY <1>1, <1>2 DEF Fits

\* A fresh snapshot of a player with unsaved changes fits, and has its state.
LEMMA FreezeFits ==
    ASSUME LifecycleInv, NEW p \in Players, Loaded(p), NEW r \in Records, actor[p].dirty, ~Covered(p, r),
           Fits(p, actor[p], TRUE, [r EXCEPT !.offline = FALSE]), NEW n, n = Freeze(p, r)
    PROVE  /\ n \in Records /\ n.offline = r.offline /\ n.state = r.state /\ n.taskId = r.taskId /\ n.active = r.active
           /\ n.queued.version # 0 /\ n.queued.stamp = last[p]
           /\ Fits(p, actor[p], TRUE, [n EXCEPT !.offline = FALSE])
<1>1. TypeOK /\ PlayerInv(p)
  BY InvParts
<1> DEFINE a == actor[p]
<1>2. /\ a \in Actors /\ row[p] \in Rows /\ last[p] \in 0..MaxStamp /\ r.nextVersion \in Nat /\ r.active \in Snapshots
      /\ r.queued \in Snapshots /\ r.confirmedRevision \in Nat /\ a.revision \in 0..MaxStamp /\ a.stamp \in 0..MaxStamp
      /\ a.persistedVersion \in Nat /\ a.persistedRevision \in 0..MaxStamp /\ MaxStamp \in Nat
  BY <1>1, LifecycleBounds DEF TypeOK, Records, Actors
<1> DEFINE v == r.nextVersion + 1
           z == [version |-> v, revision |-> a.revision, stamp |-> a.stamp]
<1>3. v \in Nat /\ v # 0 /\ r.nextVersion < v
  BY <1>2
<1>4. n = [r EXCEPT !.nextVersion = v, !.queued = z]
  BY DEF Freeze
<1> HIDE DEF v
<1>5. z \in Snapshots /\ z.version = v /\ z.revision = a.revision /\ z.stamp = a.stamp
  BY <1>2, <1>3 DEF Snapshots
<1> HIDE DEF z
<1>6. /\ n \in Records /\ n.offline = r.offline /\ n.state = r.state /\ n.taskId = r.taskId /\ n.active = r.active
      /\ n.queued = z /\ n.nextVersion = v /\ n.confirmedRevision = r.confirmedRevision
  BY <1>3, <1>4, <1>5 DEF Records
<1>7. a.stamp = last[p] /\ a.persistedRevision < a.revision /\ row[p].stamp <= last[p]
  BY <1>1, <1>2 DEF PlayerInv, LoadedInv, VersionsRise
<1> DEFINE f == [r EXCEPT !.offline = FALSE]
           g == [n EXCEPT !.offline = FALSE]
<1>8. /\ f.offline = FALSE /\ f.state = r.state /\ f.active = r.active /\ f.queued = r.queued
      /\ f.nextVersion = r.nextVersion /\ f.confirmedRevision = r.confirmedRevision
  BY DEF Records
<1>9. /\ g.offline = FALSE /\ g.state = r.state /\ g.active = r.active /\ g.queued = z
      /\ g.nextVersion = v /\ g.confirmedRevision = r.confirmedRevision
  BY <1>6 DEF Records
<1>10. Fits(p, a, TRUE, f)
  OBVIOUS
<1> HIDE DEF f, g
<1>11. r.active.version # 0 =>
         /\ r.active.revision < a.revision /\ r.active.stamp <= a.stamp /\ r.active.version < v
  BY <1>2, <1>3, <1>8, <1>10 DEF Fits, Open, Covered, Snapshots
<1>12. Open(a, g, g.queued) /\ Open(a, g, g.active)
  BY <1>2, <1>3, <1>5, <1>7, <1>8, <1>9, <1>10 DEF Fits, Open
<1>13. Fits(p, a, TRUE, g)
  BY <1>2, <1>3, <1>5, <1>7, <1>8, <1>9, <1>10, <1>11, <1>12 DEF Fits, Rows, Snapshots
<1> QED
  BY <1>3, <1>5, <1>6, <1>7, <1>13 DEF g


\* request of a loaded player, for a flush or for its logout.
LEMMA RequestInv ==
    ASSUME LifecycleInv, NEW p \in Players, Loaded(p), NEW offline \in BOOLEAN, Request(p, offline), phase # "stopped",
           RecordStep(p),
           offline => actor'[p] = NoActor /\ load'[p] = NoLoad /\ inScene'[p] = FALSE,
           ~offline => UNCHANGED <<actor, load, inScene>>
    PROVE  LifecycleInv'
<1>1. TypeOK /\ PlayerInv(p) /\ \A t \in tasks : TaskInv(t)
  BY InvParts
<1> DEFINE r == RecordFor(p, offline)
           f == [r EXCEPT !.offline = FALSE]
<1>2. /\ r \in Records /\ r.offline = offline /\ Carries(p, r) /\ Fits(p, actor[p], TRUE, f)
      /\ r.active.version = 0 => rec[p].state # "AwaitResult"
  BY RecordForFits
<1>3. /\ f \in Records /\ f.state = r.state /\ f.active = r.active /\ f.queued = r.queued
      /\ f.nextVersion = r.nextVersion /\ f.confirmedRevision = r.confirmedRevision
  BY <1>2 DEF Records
<1>4. /\ actor[p] \in Actors /\ r.active \in Snapshots /\ r.queued \in Snapshots /\ r.confirmedRevision \in Nat
      /\ last[p] \in 0..MaxStamp /\ MaxStamp \in Nat
  BY <1>1, <1>2, LifecycleBounds DEF TypeOK, Records
<1>5. ~offline => Loaded(p)' /\ actor'[p] = actor[p]
  BY DEF Loaded, Online, Loading
<1>6. offline => ~Loaded(p)' /\ ~Online(p)'
  BY DEF Loaded, Online, NoActor
<1>7. \/ Covered(p, r) /\ rec' = [rec EXCEPT ![p] = r] /\ UNCHANGED <<tasks, ids>>
      \/ /\ ~Covered(p, r) /\ Clean(p, r) /\ UNCHANGED <<tasks, ids>>
         /\ rec' = [rec EXCEPT ![p] = IF offline THEN NoRecord ELSE r]
      \/ ~Covered(p, r) /\ ~Clean(p, r) /\ \E accepted \in BOOLEAN : Dispatch(p, Freeze(p, r), accepted)
  BY DEF Request
<1> HIDE DEF r
<1>8. ASSUME NEW n \in Records, NEW accepted \in BOOLEAN, Dispatch(p, n, accepted), Carries(p, n), n.offline = offline,
             Fits(p, actor[p], TRUE, [n EXCEPT !.offline = FALSE]),
             offline => /\ n.active.version # 0 \/ n.queued.version # 0
                        /\ n.queued.version # 0 => n.queued.stamp = last[p]
                        /\ (n.queued.version = 0 /\ n.active.version # 0) => n.active.stamp = last[p]
      PROVE  LifecycleInv'
  <2>1. CASE offline
    <3>1. Fits(p, NoActor, FALSE, n)
      BY <1>8, <2>1, FitsAway
    <3> QED
      BY <1>6, <1>8, <2>1, <3>1, DispatchInv
  <2>2. CASE ~offline
    <3>1. n = [n EXCEPT !.offline = FALSE]
      BY <1>8, <2>2 DEF Records
    <3>2. Fits(p, actor'[p], TRUE, n)
      BY <1>5, <1>8, <2>2, <3>1
    <3> QED
      BY <1>5, <1>8, <2>2, <3>2, DispatchInv
  <2> QED
    BY <2>1, <2>2
<1>9. CASE Covered(p, r) /\ rec' = [rec EXCEPT ![p] = r] /\ UNCHANGED <<tasks, ids>>
  <2>1. Dispatch(p, r, FALSE)
    BY <1>9 DEF Dispatch
  <2>2. actor[p].stamp = last[p]
    BY <1>1 DEF PlayerInv, LoadedInv
  <2> HIDE DEF f
  <2>3. /\ r.active.version # 0 \/ r.queued.version # 0
        /\ r.queued.version # 0 => r.queued.stamp = last[p]
        /\ (r.queued.version = 0 /\ r.active.version # 0) => r.active.stamp = last[p]
    <3>1. /\ r.active.version # 0 => r.active.revision <= actor[p].revision
                /\ r.active.stamp = actor[p].stamp - (actor[p].revision - r.active.revision)
          /\ r.queued.version # 0 => r.queued.revision <= actor[p].revision
                /\ r.queued.stamp = actor[p].stamp - (actor[p].revision - r.queued.revision)
          /\ (r.active.version # 0 /\ r.queued.version # 0) => r.active.revision < r.queued.revision
      BY <1>2, <1>3 DEF Fits, Open
    <3> QED
      BY <1>4, <1>9, <2>2, <3>1 DEF Covered, Actors, Snapshots
  <2> QED
    BY <1>2, <1>8, <2>1, <2>3 DEF f
<1>10. CASE /\ ~Covered(p, r) /\ Clean(p, r) /\ UNCHANGED <<tasks, ids>>
            /\ rec' = [rec EXCEPT ![p] = IF offline THEN NoRecord ELSE r]
  <2>1. CASE ~offline
    <3>1. Dispatch(p, r, FALSE)
      BY <1>10, <2>1 DEF Dispatch
    <3> QED
      BY <1>2, <1>8, <2>1, <3>1
  <2>2. CASE offline
    <3>1. rec' = [rec EXCEPT ![p] = NoRecord] /\ tasks' = tasks /\ ids' = [ids EXCEPT ![p] = ids[p]]
      BY <1>1, <1>10, <2>2 DEF TypeOK
    <3>2. NoRecord \in Records /\ ids[p] \in [epoch : Nat, task : Nat] /\ tasks' \subseteq DbTasks
      BY <1>1, <3>1, LifecycleBounds DEF NoRecord, NoSnapshot, Records, Snapshots, TypeOK
    <3>3. TypeOK' /\ rec'[p] = NoRecord /\ ids'[p] = ids[p] /\ \A q \in Players \ {p} : Same(q)
      BY <3>1, <3>2, RecordFrame
    <3>4. row[p].stamp = last[p] /\ rec[p].state # "AwaitResult"
      BY <1>1, <1>2, <1>10 DEF Clean, PlayerInv, LoadedInv
    <3>5. ~Loading(p)' /\ ~HasRecord(p)' /\ load'[p] = NoLoad /\ inScene'[p] = FALSE
      BY <2>2, <3>3 DEF Loading, NoLoad, HasRecord, NoRecord
    <3>6. PlayerInv(p)'
      BY <1>1, <1>6, <2>2, <3>3, <3>4, <3>5 DEF RecordStep, PlayerInv, BindingInv, RecordInv, VersionsRise, LoadedInv,
         AwayInv, NoRecord, NoSnapshot
    <3>7. \A t \in tasks' : t.player = p => TaskInv(t)'
      BY <1>1, <3>1, <3>3, <3>4, <3>5 DEF TaskInv, SaveInv, LoadInv
    <3> QED
      BY <3>1, <3>3, <3>6, <3>7, FewerTasks, OnePlayer DEF RecordStep
  <2> QED
    BY <2>1, <2>2
<1>11. CASE ~Covered(p, r) /\ ~Clean(p, r) /\ \E accepted \in BOOLEAN : Dispatch(p, Freeze(p, r), accepted)
  <2>1. PICK accepted \in BOOLEAN : Dispatch(p, Freeze(p, r), accepted)
    BY <1>11
  <2>2. actor[p].dirty
    <3> SUFFICES ASSUME ~actor[p].dirty PROVE FALSE
      OBVIOUS
    <3> HIDE DEF f
    <3>1. actor[p].revision = actor[p].persistedRevision
      BY <1>1 DEF PlayerInv, LoadedInv
    <3>2. actor[p].persistedRevision <= r.confirmedRevision /\ r.confirmedRevision <= actor[p].revision
      BY <1>2, <1>3 DEF Fits
    <3>3. r.active.version # 0
      BY <1>4, <1>11, <3>1, <3>2 DEF Clean, Actors
    <3> QED
      BY <1>2, <1>3, <1>4, <3>1, <3>3 DEF Fits, Open, Actors, Snapshots
  <2> DEFINE n == Freeze(p, r)
  <2>3. /\ n \in Records /\ n.offline = r.offline /\ n.state = r.state /\ n.taskId = r.taskId /\ n.active = r.active
        /\ n.queued.version # 0 /\ n.queued.stamp = last[p]
        /\ Fits(p, actor[p], TRUE, [n EXCEPT !.offline = FALSE])
    BY <1>2, <1>11, <2>2, FreezeFits
  <2>4. Dispatch(p, n, accepted)
    BY <2>1
  <2> HIDE DEF n
  <2>5. Carries(p, n)
    BY <1>2, <2>3 DEF Carries
  <2> QED
    BY <1>2, <1>8, <2>3, <2>4, <2>5
<1> QED
  BY <1>7, <1>9, <1>10, <1>11

\* flushDirtyPlayers.
LEMMA FlushInv == ASSUME LifecycleInv, NEW p \in Players, Flush(p) PROVE LifecycleInv'
<1>1. Loaded(p) /\ phase # "stopped" /\ RecordStep(p) /\ Request(p, FALSE) /\ UNCHANGED <<actor, load, inScene>>
  BY DEF Flush, Loaded, RecordStep, history
<1> QED
  BY <1>1, RequestInv

\* PlayerPersistence::tick.
LEMMA PersistTickInv == ASSUME LifecycleInv, NEW p \in Players, PersistTick(p) PROVE LifecycleInv'
<1>1. /\ Dispatch(p, rec[p], TRUE) /\ phase # "stopped" /\ RecordStep(p) /\ rec[p].state = "Idle"
      /\ UNCHANGED <<actor, load, inScene>>
  BY DEF PersistTick, RecordStep, history
<1>2. TypeOK /\ PlayerInv(p) /\ HasRecord(p)
  BY <1>1, InvParts DEF HasRecord
<1>3. rec[p] \in Records /\ Carries(p, rec[p])
  BY <1>2 DEF TypeOK, Carries
<1> DEFINE here == Loaded(p)
<1>4. here \in BOOLEAN /\ (here <=> Loaded(p)') /\ actor'[p] = actor[p] /\ (rec[p].offline => ~Online(p)')
  BY <1>1, <1>2 DEF Loaded, Online, Loading, PlayerInv
<1>5. (rec[p].offline <=> ~here) /\ (here <=> Loaded(p))
  BY <1>2 DEF PlayerInv, RecordInv, Loaded
<1> HIDE DEF here
<1>6. here => Open(actor[p], rec[p], rec[p].active) /\ Open(actor[p], rec[p], rec[p].queued)
  BY <1>2, <1>5 DEF PlayerInv, LoadedInv, OpenSnapshot, Open
<1>7. Fits(p, actor[p], here, rec[p])
  BY <1>2, <1>5, <1>6 DEF Fits, PlayerInv, RecordInv, VersionsRise, LoadedInv, AwayInv, HasRecord
<1>8. Fits(p, actor'[p], here, rec[p])
  BY <1>4, <1>7
<1> QED
  BY <1>1, <1>3, <1>4, <1>8, DispatchInv


-----------------------------------------------------------------------------
(* Logout *)

\* logoutPlayer of a loaded player, with or without room for its record.
LEMMA LogoutInv ==
    ASSUME LifecycleInv, NEW p \in Players, Loaded(p), phase # "stopped", Logout(p) \/ LogoutRefused(p),
           UNCHANGED <<latest, phase, row, last, history>>
    PROVE  LifecycleInv'
<1>1. TypeOK /\ PlayerInv(p) /\ \A t \in tasks : TaskInv(t)
  BY InvParts
<1>2. CASE Logout(p)
  <2>1. RecordStep(p) /\ Request(p, TRUE)
    BY <1>2 DEF Logout, RecordStep, history
  <2>2. actor'[p] = NoActor /\ load'[p] = NoLoad /\ inScene'[p] = FALSE
    BY <1>1, <1>2 DEF Logout, TypeOK
  <2> QED
    BY <2>1, <2>2, RequestInv
<1>3. CASE LogoutRefused(p)
  <2>1. inScene' = [inScene EXCEPT ![p] = FALSE]
        /\ UNCHANGED <<actor, load, latest, phase, rec, tasks, ids, row, last, saved, stamp, restarts>>
    BY <1>3 DEF LogoutRefused, history
  <2>2. TypeOK' /\ (\A q \in Players \ {p} : Same(q)) /\ inScene'[p] = FALSE
    BY <1>1, <2>1 DEF TypeOK, Same
  <2>3. PlayerInv(p)'
    BY <1>1, <2>1, <2>2 DEF PlayerInv, BindingInv, RecordInv, VersionsRise, LoadedInv, AwayInv, OpenSnapshot,
       Online, Loading, Loaded, HasRecord
  <2>4. \A t \in tasks' : t.player = p => TaskInv(t)'
    BY <1>1, <2>1 DEF TaskInv, SaveInv, LoadInv, Loading
  <2> QED
    BY <2>1, <2>2, <2>3, <2>4, FewerTasks, OnePlayer
<1> QED
  BY <1>2, <1>3

\* OFFLINE or LOGOUT, and the logouts of the drain, where nobody is loading.
LEMMA GoOfflineInv ==
    ASSUME LifecycleInv, NEW p \in Players, GoOffline(p) \/ DrainLogout(p)
    PROVE  LifecycleInv'
<1>1. PlayerInv(p)
  BY InvParts
<1>2. Loaded(p) /\ phase # "stopped"
  BY <1>1 DEF GoOffline, DrainLogout, Loaded, PlayerInv, BindingInv
<1>3. (Logout(p) \/ LogoutRefused(p)) /\ UNCHANGED <<latest, phase, row, last, history>>
  BY DEF GoOffline, DrainLogout
<1> QED
  BY <1>2, <1>3, LogoutInv

-----------------------------------------------------------------------------
(* The specification *)

\* LifecycleInv is inductive: every step of the worker, of the database and of
\* the process keeps it.
LEMMA InvNext == ASSUME LifecycleInv, [Next]_vars PROVE LifecycleInv'
<1>1. CASE UNCHANGED vars
  <2>1. UNCHANGED <<actor, load, latest, rec, inScene, ids, phase, tasks, row, last, saved, stamp, restarts>>
    BY <1>1 DEF vars, worker, history
  <2>2. TypeOK /\ Unique /\ StoppedInv /\ (\A p \in Players : PlayerInv(p)) /\ (\A t \in tasks : TaskInv(t))
    BY InvParts
  <2>3. TypeOK' /\ Unique' /\ StoppedInv'
    BY <2>1, <2>2 DEF TypeOK, Unique, StoppedInv, Online, HasRecord
  <2>4. \A p \in Players : PlayerInv(p)'
    BY <2>1, <2>2, PlayerFrame
  <2>5. \A t \in tasks' : TaskInv(t)'
    BY <2>1, <2>2 DEF TaskInv, SaveInv, LoadInv, Loading
  <2> QED
    BY <2>3, <2>4, <2>5, InvPartsNext
<1>2. CASE \E p \in Players : PlayerStep(p)
  <2>1. PICK p \in Players : PlayerStep(p)
    BY <1>2
  <2>2. CASE \E e \in Epochs : BindLoading(p, e) \/ BindLive(p, e)
    BY <2>2, BindLoadingInv, BindLiveInv
  <2>3. CASE AdvanceLoad(p) \/ EnterScene(p) \/ Mutate(p) \/ AbandonLoad(p)
    BY <2>3, AdvanceLoadInv, EnterSceneInv, MutateInv, AbandonLoadInv
  <2>4. CASE Flush(p) \/ PersistTick(p) \/ GoOffline(p) \/ DrainLogout(p)
    BY <2>4, FlushInv, PersistTickInv, GoOfflineInv
  <2> QED
    BY <2>1, <2>2, <2>3, <2>4 DEF PlayerStep
<1>3. CASE \E t \in tasks : ResultStep(t) \/ DatabaseStep(t)
  <2>1. PICK t \in tasks : ResultStep(t) \/ DatabaseStep(t)
    BY <1>3
  <2>2. CASE ResultStep(t)
    BY <2>2, LoadSucceedsInv, LoadFailsInv, DropLoadInv, SaveSucceedsInv, SaveFailsInv DEF ResultStep
  <2>3. CASE DatabaseStep(t)
    BY <2>3, ExecuteLoadInv, ExecuteSaveInv DEF DatabaseStep
  <2> QED
    BY <2>1, <2>2, <2>3
<1>4. CASE BeginDrain \/ FinishDrain \/ DrainTimeout \/ Restart
  BY <1>4, BeginDrainInv, EndDrainInv, RestartInv
<1> QED
  BY <1>1, <1>2, <1>3, <1>4 DEF Next

\* Actor, load, record, tasks and row of every player fit together in every
\* reachable state: the invariant all the results below rest on.
THEOREM LifecycleInvariant == Spec => []LifecycleInv
<1>1. LifecycleInv /\ [Next]_vars => LifecycleInv'
  BY InvNext
<1> QED
  BY <1>1, InvInit, PTL DEF Spec

\* The variables of the worker keep their types.
THEOREM LifecycleTypes == Spec => []TypeOK
<1>1. LifecycleInv => TypeOK
  BY DEF LifecycleInv
<1> QED
  BY <1>1, LifecycleInvariant, PTL

\* A login never restores older data than the player last had: the load waits
\* for the final save (blocksLogin) and reads the row behind it.
THEOREM LoginRestoresLatest == Spec => []LoadedIsLatest
<1>1. LifecycleInv => LoadedIsLatest
  BY DEF LifecycleInv, LoadedIsLatest, LoadedInv, Loaded
<1> QED
  BY <1>1, LifecycleInvariant, PTL

\* A player that is not dirty may be destroyed without a save, and what was
\* confirmed once stays saved, across restarts too.
THEOREM CleanPlayersAreSaved == Spec => []CleanIsSaved
<1>1. LifecycleInv => CleanIsSaved
  BY DEF LifecycleInv, CleanIsSaved, LoadedInv, VersionsRise, Loaded
<1> QED
  BY <1>1, LifecycleInvariant, PTL

\* A drain that reports success leaves the last state of every player in the
\* database.
THEOREM DrainIsLossless == Spec => []DrainLosesNothing
<1>1. LifecycleInv => DrainLosesNothing
  BY DEF LifecycleInv, DrainLosesNothing, StoppedInv, AwayInv, Loaded
<1> QED
  BY <1>1, LifecycleInvariant, PTL


\* One step does not lower the latest binding of a player or of its actor.
Rises(p) ==
    /\ latest[p] <= latest'[p]
    /\ (Online(p) /\ actor'[p].epoch # 0) => actor[p].binding <= actor'[p].binding

\* What a step that sets neither does.
LEMMA RisesSame ==
    ASSUME LifecycleInv, NEW p \in Players, latest'[p] = latest[p],
           actor'[p] = actor[p] \/ actor'[p] = NoActor \/ actor'[p].binding = actor[p].binding
    PROVE  Rises(p)
<1>1. latest[p] \in Nat /\ actor[p].binding \in Nat
  BY InvParts, LifecycleBounds DEF TypeOK, Actors
<1> QED
  BY <1>1 DEF Rises, NoActor

\* And a step that binds p to b, which is not below the latest binding.
LEMMA RisesTo ==
    ASSUME LifecycleInv, NEW p \in Players, NEW b \in 0..MaxEpoch, latest[p] <= b, latest'[p] = b,
           actor'[p].binding = b \/ actor'[p] = NoActor \/ actor'[p] = actor[p]
    PROVE  Rises(p)
<1>1. TypeOK /\ PlayerInv(p)
  BY InvParts
<1>2. latest[p] \in Nat /\ actor[p].binding \in Nat /\ b \in Nat
  BY <1>1, LifecycleBounds DEF TypeOK, Actors
<1>3. Online(p) => actor[p].binding = latest[p]
  BY <1>1 DEF PlayerInv, BindingInv
<1> QED
  BY <1>2, <1>3 DEF Rises, NoActor

\* StartLoad binds p to the binding of its load.
LEMMA StartLoadRises ==
    ASSUME LifecycleInv, NEW p \in Players, NEW l \in Loads, NEW renewed, NEW accepted, latest[p] <= l.binding,
           StartLoad(p, l, renewed, accepted)
    PROVE  \A q \in Players : Rises(q)
<1>1. TypeOK
  BY InvParts
<1> DEFINE base == IF Online(p) THEN actor[p] ELSE NoActor
           e == IF KeepsEpoch(p, l.binding) /\ ~renewed THEN actor[p].epoch ELSE ids[p].epoch + 1
           a == [base EXCEPT !.epoch = e, !.binding = l.binding]
<1>2. actor' = [actor EXCEPT ![p] = a] /\ latest' = [latest EXCEPT ![p] = l.binding]
  BY DEF StartLoad
<1>3. base \in Actors /\ l.binding \in 0..MaxEpoch
  BY <1>1, LifecycleBounds DEF TypeOK, Actors, NoActor, Loads
<1> HIDE DEF base, e
<1>4. a.binding = l.binding
  BY <1>3 DEF Actors
<1> HIDE DEF a
<1>5. actor'[p] = a /\ latest'[p] = l.binding
  BY <1>1, <1>2 DEF TypeOK
<1>6. Rises(p)
  BY <1>3, <1>4, <1>5, RisesTo
<1>7. \A q \in Players \ {p} : actor'[q] = actor[q] /\ latest'[q] = latest[q]
  BY <1>1, <1>2 DEF TypeOK
<1> QED
  BY <1>6, <1>7, RisesSame

\* An older ONLINE never takes a player over while the process lives: neither
\* latestClientBindings_ nor the binding of a living actor goes back.
THEOREM BindingsRise == Spec => BindingNeverRegresses
<1>1. ASSUME LifecycleInv, Next, restarts' = restarts, NEW q \in Players PROVE Rises(q)
  <2>1. TypeOK /\ (\A p \in Players : PlayerInv(p)) /\ restarts \in Nat
    BY <1>1, InvParts, LifecycleBounds DEF TypeOK
  <2>2. CASE \E p \in Players : PlayerStep(p)
    <3>1. PICK p \in Players : PlayerStep(p)
      BY <2>2
    <3>2. ASSUME NEW e \in Epochs, BindLoading(p, e) PROVE Rises(q)
      <4> DEFINE l == [NoLoad EXCEPT !.binding = e]
      <4>1. l \in Loads /\ l.binding = e /\ latest[p] <= e
        <5>1. e \in 0..MaxEpoch /\ latest[p] <= e
          <6>1. latest[p] < e /\ latest[p] \in Nat
            BY <2>1, <3>2 DEF TypeOK, BindLoading
          <6> QED
            BY <6>1, LifecycleBounds DEF Epochs
        <5> QED
          BY <5>1 DEF NoLoad, Loads
      <4>2. CASE UNCHANGED <<actor, latest>>
        BY <1>1, <4>2, RisesSame
      <4>3. CASE \E accepted \in BOOLEAN : StartLoad(p, l, Online(p), accepted)
        <5> HIDE DEF l
        <5> QED
          BY <1>1, <4>1, <4>3, StartLoadRises
      <4> QED
        BY <3>2, <4>2, <4>3 DEF BindLoading
    <3>3. ASSUME NEW e \in Epochs, BindLive(p, e) PROVE Rises(q)
      <4> DEFINE i == ids[p].epoch + 1
                 a == [actor[p] EXCEPT !.epoch = i, !.binding = e]
      <4>1. actor[p] \in Actors /\ e \in 0..MaxEpoch /\ latest[p] \in Nat /\ latest[p] <= e
        BY <2>1, <3>3, LifecycleBounds DEF TypeOK, Epochs, BindLive
      <4>2. actor' = [actor EXCEPT ![p] = a] /\ latest' = [latest EXCEPT ![p] = e]
        BY <2>1, <3>3 DEF BindLive, TypeOK
      <4> HIDE DEF i
      <4>3. a.binding = e
        BY <4>1 DEF Actors
      <4> HIDE DEF a
      <4>4. CASE q = p
        BY <1>1, <2>1, <4>1, <4>2, <4>3, <4>4, RisesTo DEF TypeOK
      <4>5. CASE q # p
        BY <1>1, <2>1, <4>2, <4>5, RisesSame DEF TypeOK
      <4> QED
        BY <4>4, <4>5
    <3>4. CASE AdvanceLoad(p)
      <4>1. load[p] \in Loads /\ latest[p] <= load[p].binding
        BY <2>1, <3>4 DEF TypeOK, AdvanceLoad, PlayerInv, BindingInv
      <4> QED
        BY <1>1, <3>4, <4>1, StartLoadRises DEF AdvanceLoad
    <3>5. CASE AbandonLoad(p)
      <4>1. load[p].binding \in 0..MaxEpoch /\ latest[p] <= load[p].binding
        BY <2>1, <3>5 DEF TypeOK, Loads, AbandonLoad, PlayerInv, BindingInv
      <4>2. /\ latest' = [latest EXCEPT ![p] = load[p].binding]
            /\ actor' = [actor EXCEPT ![p] = NoActor] \/ actor' = actor
        BY <3>5 DEF AbandonLoad
      <4>3. CASE q = p
        BY <1>1, <2>1, <4>1, <4>2, <4>3, RisesTo DEF TypeOK
      <4>4. CASE q # p
        BY <1>1, <2>1, <4>2, <4>4, RisesSame DEF TypeOK
      <4> QED
        BY <4>3, <4>4
    <3>6. CASE Mutate(p)
      <4> DEFINE s == stamp[p] + 1
                 n == actor[p].revision + 1
                 a == [actor[p] EXCEPT !.stamp = s, !.revision = n, !.dirty = TRUE]
      <4>1. actor' = [actor EXCEPT ![p] = a] /\ latest' = latest /\ actor[p] \in Actors
        BY <2>1, <3>6 DEF Mutate, TypeOK
      <4> HIDE DEF s, n
      <4>2. a.binding = actor[p].binding
        BY <4>1 DEF Actors
      <4> HIDE DEF a
      <4> QED
        BY <1>1, <2>1, <4>1, <4>2, RisesSame DEF TypeOK
    <3>7. CASE EnterScene(p) \/ Flush(p) \/ PersistTick(p)
      BY <1>1, <3>7, RisesSame DEF EnterScene, Flush, PersistTick
    <3>8. CASE GoOffline(p) \/ DrainLogout(p)
      <4>1. latest' = latest /\ (actor' = [actor EXCEPT ![p] = NoActor] \/ actor' = actor)
        BY <3>8 DEF GoOffline, DrainLogout, Logout, LogoutRefused
      <4> QED
        BY <1>1, <2>1, <4>1, RisesSame DEF TypeOK
    <3> QED
      BY <3>1, <3>2, <3>3, <3>4, <3>5, <3>6, <3>7, <3>8 DEF PlayerStep
  <2>3. CASE \E t \in tasks : ResultStep(t) \/ DatabaseStep(t)
    <3>1. PICK t \in tasks : ResultStep(t) \/ DatabaseStep(t)
      BY <2>3
    <3>2. t.player \in Players /\ t.snapshot \in Snapshots
      BY <2>1 DEF TypeOK, DbTasks
    <3> DEFINE p == t.player
    <3>3. CASE LoadSucceeds(t)
      <4> DEFINE s == t.snapshot.stamp
                 v == t.snapshot.version
                 a == [actor[p] EXCEPT !.stamp = s, !.revision = 0, !.persistedVersion = v,
                                       !.persistedRevision = 0, !.dirty = FALSE]
      <4>1. actor' = [actor EXCEPT ![p] = a] /\ latest' = latest /\ actor[p] \in Actors
        BY <2>1, <3>2, <3>3 DEF LoadSucceeds, TypeOK
      <4> HIDE DEF s, v
      <4>2. a.binding = actor[p].binding
        BY <4>1 DEF Actors
      <4> HIDE DEF a
      <4> QED
        BY <1>1, <2>1, <3>2, <4>1, <4>2, RisesSame DEF TypeOK
    <3>4. CASE SaveSucceeds(t)
      <4> DEFINE s == rec[p].active
                 a == Confirmed(actor[p], s)
      <4>1. (actor' = [actor EXCEPT ![p] = a] \/ actor' = actor) /\ latest' = latest /\ actor[p] \in Actors
        BY <2>1, <3>2, <3>4 DEF SaveSucceeds, TypeOK
      <4> HIDE DEF s
      <4>2. a.binding = actor[p].binding
        BY <4>1 DEF Confirmed, Actors
      <4> HIDE DEF a
      <4> QED
        BY <1>1, <2>1, <3>2, <4>1, <4>2, RisesSame DEF TypeOK
    <3>5. CASE LoadFails(t) \/ DropLoad(t) \/ SaveFails(t) \/ DatabaseStep(t)
      BY <1>1, <3>5, RisesSame DEF LoadFails, DropLoad, SaveFails, DatabaseStep, ExecuteLoad, ExecuteSave, worker
    <3> QED
      BY <3>1, <3>3, <3>4, <3>5 DEF ResultStep
  <2>4. CASE BeginDrain
    BY <1>1, <2>4, RisesSame DEF BeginDrain
  <2>5. CASE FinishDrain \/ DrainTimeout
    BY <1>1, <2>5, RisesSame DEF FinishDrain, DrainTimeout, worker
  <2>6. CASE Restart
    BY <1>1, <2>1, <2>6 DEF Restart
  <2> QED
    BY <1>1, <2>2, <2>3, <2>4, <2>5, <2>6 DEF Next
<1>2. LifecycleInv /\ [Next]_vars =>
        [restarts' = restarts =>
           \A p \in Players : /\ latest[p] <= latest'[p]
                              /\ (Online(p) /\ actor'[p].epoch # 0) => actor[p].binding <= actor'[p].binding]_vars
  BY <1>1 DEF Rises
<1> QED
  BY <1>2, LifecycleInvariant, PTL DEF Spec, BindingNeverRegresses
=============================================================================
