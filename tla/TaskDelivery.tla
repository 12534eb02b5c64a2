---------------------------- MODULE TaskDelivery ----------------------------
(***************************************************************************)
(* Delivery of database tasks in the scene server: the owner's table of    *)
(* pending tasks (PendingDbTasks, one per logic worker), the lock-free     *)
(* queues of MsgBus, the result ledger of a database channel               *)
(* (DbResultLedger), the channel's thread (DBThread) and its bounded       *)
(* transaction retries (TransactionRetries).                               *)
(*                                                                         *)
(* A task is registered by its owner, sent to its channel once, executed   *)
(* there, and its result is sent back until the owner acknowledges it.     *)
(* Each send may be refused by a full queue.  The timers (nextTryAt,       *)
(* nextSendAt, completedAt) are abstracted: a timer may be found expired   *)
(* at any visit, so an action that waits for a timer is merely enabled,    *)
(* and a visit that finds it unexpired, or is refused, is a stutter.       *)
(*                                                                         *)
(* MsgBus queues are moodycamel queues: first-in first-out per producer    *)
(* and unordered between producers, so a queue is one sequence per pair    *)
(* <<channel, worker>>, a lane.                                            *)
(***************************************************************************)
EXTENDS Integers, Sequences, FiniteSets, FiniteSetsExt

CONSTANTS
    Tasks,           \* task identities (PendingDbTasks::allocateId)
    Workers,         \* logic workers
    Channels,        \* database channels: MySQL, or one Redis shard
    Owner,           \* Owner[t]: the worker that submits t (srcWorkerId)
    Channel,         \* Channel[t]: its channel; outside Channels when the
                     \*   shard number is out of range (kInvalidTarget)
    Transactional,   \* the tasks of kind 4 or 5, run by executeTransaction
    MaxTasks,        \* PendingDbTasks::kMaxTasks, per worker
    LedgerCapacity,  \* DbResultLedger::kMaxEntries, per channel
    RetryCapacity,   \* TransactionRetries::kCapacity, per channel
    MaxAttempts,     \* TransactionRetries::kMaxAttempts
    QueueCapacity    \* messages one producer can have in one MsgBus queue

ASSUME OwnerAssumption == Owner \in [Tasks -> Workers]
ASSUME TransactionalAssumption == Transactional \subseteq Tasks
ASSUME BoundsAssumption ==
    {MaxTasks, LedgerCapacity, RetryCapacity, MaxAttempts, QueueCapacity} \subseteq Nat \ {0}

\* A task of a worker whose shard does not exist is refused by sendToDb.
Routable(t) == Channel[t] \in Channels

Lanes == Channels \X Workers
Lane(t) == <<Channel[t], Owner[t]>>

None == "none"

\* dbv::ResultClass, as far as delivery and retry tell the classes apart:
\* "failure" stands for kFailure, kSuperseded, kBusinessRejected and
\* kVersionConflict, which all mean that nothing was written.
ResultClass == {"success", "failure", "retryable", "unknown"}

TaskStates == {None, "PendingDispatch", "AwaitResult", "Completed"}

VARIABLES
    issued,     \* identities handed out so far
    state,      \* Task::state in PendingDbTasks::tasks_; None: not in the table
    ackPending, \* Task::ackPending
    observed,   \* Task::observedStatus
    received,   \* Task::result
    active,     \* PendingDbTasks::active_, the index of schedulable tasks
    taskQ,      \* task queue of a channel
    ctlQ,       \* control queue of a channel: ACK (1) and query (2)
    resQ,       \* worker queue: results and status notices
    entry,      \* DbResultLedger::entries_: "absent", "processing" or "ready"
    acked,      \* Entry::acknowledged
    result,     \* Entry::result
    legacy,     \* DbResultLedger::legacy_: queued status notices, per task
    retry,      \* TransactionRetries: attempts made, 0 when not scheduled
    runs,       \* history: admissions to the executor
    decision,   \* history: the class finally reported for the task
    effects,    \* history: times the task's writes took effect in the database
    handed      \* history: results passed on to the owner's handlers

record == <<state, ackPending, observed, received>>
owner == <<issued, record, active>>
queues == <<taskQ, ctlQ, resQ>>
ledger == <<entry, acked, result, legacy, retry>>
history == <<runs, decision, effects, handed>>
vars == <<owner, queues, ledger, history>>

-----------------------------------------------------------------------------
(* Messages *)

ResultMsg(t, class) == [type |-> "result", task |-> t, class |-> class]
StatusMsg(t, s) == [type |-> "status", task |-> t, status |-> s]
Control(t, kind) == [task |-> t, kind |-> kind]

Messages == [type : {"result"}, task : Tasks, class : ResultClass]
              \cup [type : {"status"}, task : Tasks, status : 0..2]
Controls == [task : Tasks, kind : {1, 2}]

\* MsgQueue::try_push refuses instead of blocking.
HasRoom(q) == Len(q) < QueueCapacity

\* Every variable has the type of the structure it stands for (taskDelivery.h).
TypeOK ==
    /\ issued \subseteq Tasks
    /\ state \in [Tasks -> TaskStates]
    /\ ackPending \in [Tasks -> BOOLEAN]
    /\ observed \in [Tasks -> 0..2]
    /\ received \in [Tasks -> ResultClass \cup {None}]
    /\ active \subseteq Tasks
    /\ taskQ \in [Lanes -> Seq(Tasks)]
    /\ ctlQ \in [Lanes -> Seq(Controls)]
    /\ resQ \in [Lanes -> Seq(Messages)]
    /\ entry \in [Tasks -> {"absent", "processing", "ready"}]
    /\ acked \in [Tasks -> BOOLEAN]
    /\ result \in [Tasks -> ResultClass \cup {None}]
    /\ legacy \in [Tasks -> Seq(0..2)]
    /\ retry \in [Tasks -> 0..MaxAttempts - 1]
    /\ runs \in [Tasks -> Nat]
    /\ decision \in [Tasks -> ResultClass \cup {None}]
    /\ effects \in [Tasks -> Nat]
    /\ handed \in [Tasks -> Nat]

Init ==
    /\ issued = {}
    /\ state = [t \in Tasks |-> None]
    /\ ackPending = [t \in Tasks |-> FALSE]
    /\ observed = [t \in Tasks |-> 0]
    /\ received = [t \in Tasks |-> None]
    /\ active = {}
    /\ taskQ = [l \in Lanes |-> <<>>]
    /\ ctlQ = [l \in Lanes |-> <<>>]
    /\ resQ = [l \in Lanes |-> <<>>]
    /\ entry = [t \in Tasks |-> "absent"]
    /\ acked = [t \in Tasks |-> FALSE]
    /\ result = [t \in Tasks |-> None]
    /\ legacy = [t \in Tasks |-> <<>>]
    /\ retry = [t \in Tasks |-> 0]
    /\ runs = [t \in Tasks |-> 0]
    /\ decision = [t \in Tasks |-> None]
    /\ effects = [t \in Tasks |-> 0]
    /\ handed = [t \in Tasks |-> 0]

-----------------------------------------------------------------------------
(* The owner: PendingDbTasks, called from one logic worker *)

\* Is this task one that a scan of the table would act on?
NeedsScheduling(t) ==
    \/ state[t] \in {"PendingDispatch", "AwaitResult"}
    \/ state[t] = "Completed" /\ ackPending[t]

Registered(w) == {t \in Tasks : Owner[t] = w /\ state[t] # None}

\* A finished and acknowledged record, reclaimable when the table is full.
Reclaimable(t) == state[t] = "Completed" /\ ~ackPending[t]

\* submit with a fresh identity: register, and try to send at once.  `gone'
\* holds the record evicted to make room; a full queue leaves the task
\* registered for tick; an invalid target un-registers it.
Submit(t, gone) ==
    LET room == HasRoom(taskQ[Lane(t)])
        kept == [u \in Tasks |-> IF u \in gone THEN None ELSE state[u]]
    IN  /\ issued' = issued \cup {t}
        /\ IF Routable(t)
             THEN /\ state' = [kept EXCEPT ![t] = IF room THEN "AwaitResult"
                                                          ELSE "PendingDispatch"]
                  /\ active' = (active \ gone) \cup {t}
                  /\ taskQ' = IF room THEN [taskQ EXCEPT ![Lane(t)] = Append(@, t)] ELSE taskQ
             ELSE /\ state' = kept
                  /\ active' = active \ gone
                  /\ UNCHANGED taskQ
        /\ observed' = [u \in Tasks |-> IF u \in gone THEN 0 ELSE observed[u]]
        /\ received' = [u \in Tasks |-> IF u \in gone THEN None ELSE received[u]]
        /\ UNCHANGED <<ackPending, ctlQ, resQ, ledger, history>>

SubmitWithRoom(t) ==
    /\ t \notin issued
    /\ Cardinality(Registered(Owner[t])) < MaxTasks
    /\ Submit(t, {})

\* The table is full: the oldest acknowledged record makes room.
SubmitReclaiming(t) ==
    /\ t \notin issued
    /\ Cardinality(Registered(Owner[t])) >= MaxTasks
    /\ \E u \in Registered(Owner[t]) : Reclaimable(u) /\ Submit(t, {u})

\* The table is full of unfinished tasks: submit returns false.  With the
\* records too young (60 s), the same refusal happens although one is finished.
SubmitRefused(t) ==
    /\ t \notin issued
    /\ Cardinality(Registered(Owner[t])) >= MaxTasks
    /\ issued' = issued \cup {t}
    /\ UNCHANGED <<record, active, queues, ledger, history>>

\* tick: only a task never accepted by the queue is sent again.
Tick(t) ==
    /\ t \in active
    /\ state[t] = "PendingDispatch"
    /\ HasRoom(taskQ[Lane(t)])
    /\ state' = [state EXCEPT ![t] = "AwaitResult"]
    /\ taskQ' = [taskQ EXCEPT ![Lane(t)] = Append(@, t)]
    /\ UNCHANGED <<issued, ackPending, observed, received, active, ctlQ, resQ, ledger, history>>

\* Mutant of SendAck: the ACK is sent before the result is here.
SendAckEarly(t) ==
    /\ t \in active
    /\ state[t] = "AwaitResult"
    /\ HasRoom(ctlQ[Lane(t)])
    /\ ctlQ' = [ctlQ EXCEPT ![Lane(t)] = Append(@, Control(t, 1))]
    /\ UNCHANGED <<owner, taskQ, resQ, ledger, history>>

\* tickControls, for a completed task: send the ACK and, once it is accepted,
\* leave the index.
SendAck(t) ==
    /\ t \in active
    /\ state[t] = "Completed" /\ ackPending[t]
    /\ HasRoom(ctlQ[Lane(t)])
    /\ ackPending' = [ackPending EXCEPT ![t] = FALSE]
    /\ active' = active \ {t}
    /\ ctlQ' = [ctlQ EXCEPT ![Lane(t)] = Append(@, Control(t, 1))]
    /\ UNCHANGED <<issued, state, observed, received, taskQ, resQ, ledger, history>>

\* Mutant of SendQuery: completed tasks are queried as well.
SendQueryAlways(t) ==
    /\ state[t] \in {"AwaitResult", "Completed"}
    /\ HasRoom(ctlQ[Lane(t)])
    /\ ctlQ' = [ctlQ EXCEPT ![Lane(t)] = Append(@, Control(t, 2))]
    /\ UNCHANGED <<owner, taskQ, resQ, ledger, history>>

\* tickControls, for a task that waits for its result: ask for its status.
SendQuery(t) ==
    /\ t \in active
    /\ state[t] = "AwaitResult"
    /\ HasRoom(ctlQ[Lane(t)])
    /\ ctlQ' = [ctlQ EXCEPT ![Lane(t)] = Append(@, Control(t, 2))]
    /\ UNCHANGED <<owner, taskQ, resQ, ledger, history>>

\* LogicThread pops the first message of a lane of its queue.
Receive(l, type) ==
    /\ resQ[l] # <<>>
    /\ Head(resQ[l]).type = type
    /\ resQ' = [resQ EXCEPT ![l] = Tail(@)]

\* Mutant of Complete: a result is accepted whatever the task's state.
CompleteAgain(l) ==
    LET m == Head(resQ[l]) IN
    /\ Receive(l, "result")
    /\ state[m.task] # None
    /\ state' = [state EXCEPT ![m.task] = "Completed"]
    /\ ackPending' = [ackPending EXCEPT ![m.task] = TRUE]
    /\ received' = [received EXCEPT ![m.task] = m.class]
    /\ handed' = [handed EXCEPT ![m.task] = @ + 1]
    /\ UNCHANGED <<issued, observed, active, taskQ, ctlQ, ledger, runs, decision, effects>>

\* complete: the first result of a waiting task.  The task stays in the index
\* for its ACK, and the result goes on to the handlers of onDbResult.
Complete(l) ==
    LET m == Head(resQ[l]) IN
    /\ Receive(l, "result")
    /\ state[m.task] = "AwaitResult"
    /\ state' = [state EXCEPT ![m.task] = "Completed"]
    /\ ackPending' = [ackPending EXCEPT ![m.task] = TRUE]
    /\ received' = [received EXCEPT ![m.task] = m.class]
    /\ handed' = [handed EXCEPT ![m.task] = @ + 1]
    /\ UNCHANGED <<issued, observed, active, taskQ, ctlQ, ledger, runs, decision, effects>>

\* acknowledgeDuplicate and the tickControls that onDbResult calls next: a
\* repeated result is acknowledged again, at once when the queue has room.
AcknowledgeDuplicate(l) ==
    LET m == Head(resQ[l])
        room == HasRoom(ctlQ[Lane(m.task)])
    IN  /\ Receive(l, "result")
        /\ state[m.task] = "Completed"
        /\ received[m.task] = m.class
        /\ ackPending' = [ackPending EXCEPT ![m.task] = ~room]
        /\ active' = IF room THEN active \ {m.task} ELSE active \cup {m.task}
        /\ ctlQ' = IF room
                     THEN [ctlQ EXCEPT ![Lane(m.task)] = Append(@, Control(m.task, 1))]
                     ELSE ctlQ
        /\ UNCHANGED <<issued, state, observed, received, taskQ, ledger, history>>

\* A result for a record already reclaimed (or that differs) is dropped.
DropStale(l) ==
    LET m == Head(resQ[l]) IN
    /\ Receive(l, "result")
    /\ state[m.task] # "AwaitResult"
    /\ ~(state[m.task] = "Completed" /\ received[m.task] = m.class)
    /\ UNCHANGED <<owner, taskQ, ctlQ, ledger, history>>

\* observeStatus: remembered for a waiting task; never a reason to send the
\* task again.
ObserveStatus(l) ==
    LET m == Head(resQ[l]) IN
    /\ Receive(l, "status")
    /\ observed' = IF state[m.task] = "AwaitResult"
                     THEN [observed EXCEPT ![m.task] = m.status]
                     ELSE observed
    /\ UNCHANGED <<issued, state, ackPending, received, active, taskQ, ctlQ, ledger, history>>

-----------------------------------------------------------------------------
(* The channel: DBThread with its DbResultLedger and TransactionRetries *)

OnChannel(c) == {t \in Tasks : Channel[t] = c}

\* Entries and queued notices share the ledger's capacity.
Occupancy(c) ==
    Cardinality({t \in OnChannel(c) : entry[t] # "absent"})
      + MapThenSumSet(LAMBDA t : Len(legacy[t]), OnChannel(c))

\* Mutant of EvictAcknowledged: a sent result is forgotten without its ACK.
EvictSent(t) ==
    /\ entry[t] = "ready"
    /\ Occupancy(Channel[t]) >= LedgerCapacity
    /\ entry' = [entry EXCEPT ![t] = "absent"]
    /\ acked' = [acked EXCEPT ![t] = FALSE]
    /\ result' = [result EXCEPT ![t] = None]
    /\ UNCHANGED <<owner, queues, legacy, retry, history>>

\* hasCapacity on a full ledger: one acknowledged entry is forgotten.
EvictAcknowledged(t) ==
    /\ entry[t] # "absent" /\ acked[t]
    /\ Occupancy(Channel[t]) >= LedgerCapacity
    /\ entry' = [entry EXCEPT ![t] = "absent"]
    /\ acked' = [acked EXCEPT ![t] = FALSE]
    /\ result' = [result EXCEPT ![t] = None]
    /\ UNCHANGED <<owner, queues, legacy, retry, history>>

\* What one execution can report, with the number of times it took effect.
\* A transaction that reports a retryable error or a failure was rolled back;
\* one whose commit or rollback is not confirmed may have been committed.  A
\* single statement or a Redis command that fails on a broken connection may
\* have taken effect as well, and is never classified retryable.
Executions(t) ==
    {<<"success", 1>>, <<"failure", 0>>, <<"unknown", 0>>, <<"unknown", 1>>}
      \cup IF t \in Transactional THEN {<<"retryable", 0>>} ELSE {<<"failure", 1>>}

\* Mutant of ReplyResult: an unconfirmed commit is reported as a success.
ReplyOptimistic(t, class) ==
    LET told == IF class = "unknown" THEN "success" ELSE class IN
    /\ entry' = [entry EXCEPT ![t] = "ready"]
    /\ result' = [result EXCEPT ![t] = told]
    /\ decision' = [decision EXCEPT ![t] = told]
    /\ resQ' = IF HasRoom(resQ[Lane(t)])
                 THEN [resQ EXCEPT ![Lane(t)] = Append(@, ResultMsg(t, told))]
                 ELSE resQ

\* replyResult: finish, then flush, which sends the new result at once when
\* the worker's queue has room.
ReplyResult(t, class) ==
    /\ entry' = [entry EXCEPT ![t] = "ready"]
    /\ result' = [result EXCEPT ![t] = class]
    /\ decision' = [decision EXCEPT ![t] = class]
    /\ resQ' = IF HasRoom(resQ[Lane(t)])
                 THEN [resQ EXCEPT ![Lane(t)] = Append(@, ResultMsg(t, class))]
                 ELSE resQ

\* Mutant of CanRetry: an unknown outcome is retried.
CanRetryUnknown(t, class, attempts) ==
    /\ t \in Transactional
    /\ class \in {"retryable", "unknown"}
    /\ attempts < MaxAttempts
    /\ Cardinality({u \in OnChannel(Channel[t]) : u # t /\ retry[u] > 0}) < RetryCapacity

\* TransactionRetries::schedule after the attempts-th execution.
CanRetry(t, class, attempts) ==
    /\ t \in Transactional
    /\ class = "retryable"
    /\ attempts < MaxAttempts
    /\ Cardinality({u \in OnChannel(Channel[t]) : u # t /\ retry[u] > 0}) < RetryCapacity

\* Execute and either schedule another attempt or reply.
ExecuteAttempt(t, attempts) ==
    \E e \in Executions(t) :
        /\ effects' = [effects EXCEPT ![t] = @ + e[2]]
        /\ IF CanRetry(t, e[1], attempts)
             THEN /\ retry' = [retry EXCEPT ![t] = attempts]
                  /\ entry' = [entry EXCEPT ![t] = "processing"]
                  /\ UNCHANGED <<result, resQ, decision>>
             ELSE /\ retry' = [retry EXCEPT ![t] = 0]
                  /\ ReplyResult(t, e[1])

\* The channel takes a task: a new identity is executed (a body that cannot
\* be decoded is a "failure"); a known one only has its result sent again.
AcceptTask(l) ==
    LET t == Head(taskQ[l]) IN
    /\ taskQ[l] # <<>>
    /\ Occupancy(l[1]) < LedgerCapacity
    /\ taskQ' = [taskQ EXCEPT ![l] = Tail(@)]
    /\ IF entry[t] = "absent"
         THEN /\ runs' = [runs EXCEPT ![t] = @ + 1]
              /\ ExecuteAttempt(t, 1)
              /\ UNCHANGED acked
         ELSE /\ acked' = [acked EXCEPT ![t] = @ /\ entry[t] # "ready"]
              /\ UNCHANGED <<resQ, entry, result, retry, runs, decision, effects>>
    /\ UNCHANGED <<owner, ctlQ, legacy, handed>>

\* TransactionRetries::tick, for an entry whose delay is over.
Retry(t) ==
    /\ retry[t] > 0
    /\ ExecuteAttempt(t, retry[t] + 1)
    /\ UNCHANGED <<owner, taskQ, ctlQ, acked, legacy, runs, handed>>

\* Mutant of FlushResult: a result is sent only while it is being computed.
FlushNeverRepeats(t) ==
    /\ entry[t] = "processing" /\ ~acked[t] /\ result[t] # None
    /\ HasRoom(resQ[Lane(t)])
    /\ resQ' = [resQ EXCEPT ![Lane(t)] = Append(@, ResultMsg(t, result[t]))]
    /\ UNCHANGED <<owner, taskQ, ctlQ, ledger, history>>

\* flush: a result not yet acknowledged is sent, again and again.
FlushResult(t) ==
    /\ entry[t] = "ready" /\ ~acked[t]
    /\ HasRoom(resQ[Lane(t)])
    /\ resQ' = [resQ EXCEPT ![Lane(t)] = Append(@, ResultMsg(t, result[t]))]
    /\ UNCHANGED <<owner, taskQ, ctlQ, ledger, history>>

\* flush: a status notice leaves the ledger once it is accepted.
FlushNotice(t) ==
    /\ legacy[t] # <<>>
    /\ HasRoom(resQ[Lane(t)])
    /\ resQ' = [resQ EXCEPT ![Lane(t)] = Append(@, StatusMsg(t, Head(legacy[t])))]
    /\ legacy' = [legacy EXCEPT ![t] = Tail(@)]
    /\ UNCHANGED <<owner, taskQ, ctlQ, entry, acked, result, retry, history>>

PopControl(l, kind) ==
    /\ ctlQ[l] # <<>>
    /\ Head(ctlQ[l]).kind = kind
    /\ ctlQ' = [ctlQ EXCEPT ![l] = Tail(@)]

\* handleControl, ACK: a finished entry need not be sent any more.
HandleAck(l) ==
    LET t == Head(ctlQ[l]).task IN
    /\ PopControl(l, 1)
    /\ acked' = IF entry[t] = "ready" THEN [acked EXCEPT ![t] = TRUE] ELSE acked
    /\ UNCHANGED <<owner, taskQ, resQ, entry, result, legacy, retry, history>>

\* DbResultLedger::status
Status(t) == IF entry[t] = "absent" THEN 0 ELSE IF entry[t] = "processing" THEN 1 ELSE 2

\* handleControl, query: the result is sent again, and a notice tells the
\* status, unless the ledger is full.
HandleQuery(l) ==
    LET t == Head(ctlQ[l]).task IN
    /\ PopControl(l, 2)
    /\ acked' = IF entry[t] # "absent" THEN [acked EXCEPT ![t] = FALSE] ELSE acked
    /\ legacy' = IF Occupancy(l[1]) < LedgerCapacity
                   THEN [legacy EXCEPT ![t] = Append(@, Status(t))]
                   ELSE legacy
    /\ UNCHANGED <<owner, taskQ, resQ, entry, result, retry, history>>

-----------------------------------------------------------------------------
OwnerStep(t) ==
    \/ SubmitWithRoom(t) \/ SubmitReclaiming(t) \/ SubmitRefused(t)
    \/ Tick(t) \/ SendAck(t) \/ SendQuery(t)

ReceiveStep(l) ==
    Complete(l) \/ AcknowledgeDuplicate(l) \/ DropStale(l) \/ ObserveStatus(l)

ChannelStep(l) == AcceptTask(l) \/ HandleAck(l) \/ HandleQuery(l)

LedgerStep(t) == EvictAcknowledged(t) \/ Retry(t) \/ FlushResult(t) \/ FlushNotice(t)

Next ==
    \/ \E t \in Tasks : OwnerStep(t) \/ LedgerStep(t)
    \/ \E l \in Lanes : ReceiveStep(l) \/ ChannelStep(l)

Spec == Init /\ [][Next]_vars

(* Fairness.  Every thread of the server loops for ever: a worker visits its *)
(* pending tasks and pops its queue; a channel handles controls, retries,    *)
(* flushes results and pops a task.  An ACK, a result and the next task may  *)
(* each find the queue or the ledger full at some visits because others use  *)
(* the room first; the visits are repeated (100 ms, 1 s, every iteration)    *)
(* while the consumer keeps making room, hence strong fairness for those.    *)
Fairness ==
    /\ \A t \in Tasks :
         /\ WF_vars(Tick(t)) /\ WF_vars(Retry(t))
         /\ WF_vars(FlushNotice(t)) /\ WF_vars(EvictAcknowledged(t))
         /\ SF_vars(SendAck(t)) /\ SF_vars(FlushResult(t))
    /\ \A l \in Lanes :
         /\ WF_vars(ReceiveStep(l))
         /\ WF_vars(HandleAck(l) \/ HandleQuery(l))
         /\ SF_vars(AcceptTask(l))

FairSpec == Spec /\ Fairness

-----------------------------------------------------------------------------
(* Properties *)

\* A task runs at most once and its writes take effect at most once, whatever
\* timeouts, refusals and repeated results happen: only an attempt known to be
\* rolled back is repeated (TransactionRetries::schedule), and an accepted task
\* is never sent again (PendingDbTasks::tick).
ExecutedOnce == \A t \in Tasks : runs[t] <= 1 /\ effects[t] <= 1

\* The owner acts on a task's result at most once (complete against
\* acknowledgeDuplicate), although the channel repeats it until the ACK.
HandedOnce == \A t \in Tasks : handed[t] <= 1

\* What the owner is told is what the database did: success means the writes
\* took effect, and a failed transaction left nothing behind.
ResultTruthful ==
    \A t \in Tasks : state[t] = "Completed" =>
        /\ received[t] = "success" => effects[t] = 1
        /\ (t \in Transactional /\ received[t] \in {"failure", "retryable"})
              => effects[t] = 0

\* A channel forgets a task (hasCapacity) only when its owner has acted on the
\* result: no result is lost to the ledger's capacity.
ForgottenOnlyWhenHanded ==
    \A t \in Tasks : (runs[t] > 0 /\ entry[t] = "absent") => handed[t] > 0

\* The index of schedulable tasks holds exactly the tasks that a scan of the
\* whole table would act on: the two scheduling policies are equivalent.
ActiveIndexExact == active = {t \in Tasks : NeedsScheduling(t)}

\* A task is dispatched once: while it waits in its channel's queue the ledger
\* does not know it, so accept never reports Duplicate or Conflict.
AdmissionIsNew ==
    \A l \in Lanes : \A i \in 1..Len(taskQ[l]) :
        /\ entry[taskQ[l][i]] = "absent"
        /\ \A j \in 1..Len(taskQ[l]) : taskQ[l][i] = taskQ[l][j] => i = j

\* An acknowledgement is final: no status query sent before the ACK is handled
\* after it, so no entry is revived whose owner may have forgotten the task.
AckIsFinal ==
    [][\A t \in Tasks : acked[t] => (acked'[t] \/ entry'[t] = "absent")]_vars

\* A registered task is eventually completed and acknowledged, which is what
\* PendingDbTasks::unsettled waits for when the server drains; and once a task
\* has run, the channel eventually stops sending its result for good
\* (DbResultLedger::flush).
Settles ==
    \A t \in Tasks :
        /\ (state[t] # None) ~> [](~NeedsScheduling(t) /\ handed[t] = 1)
        /\ (runs[t] > 0) ~> [](acked[t] \/ entry[t] = "absent")

(* The inductive invariant behind the safety properties *)

\* What the final class says about the effect.
Truthful(t) ==
    /\ effects[t] \in {0, 1}
    /\ decision[t] = "success" => effects[t] = 1
    /\ (t \in Transactional /\ decision[t] \in {"failure", "retryable"}) => effects[t] = 0
    /\ decision[t] = None => effects[t] = 0

\* The owner's record against the history.
OwnerInv(t) ==
    /\ t \notin issued => state[t] = None /\ runs[t] = 0
    /\ state[t] # None => Routable(t)
    /\ state[t] = "PendingDispatch" => runs[t] = 0
    /\ state[t] \in {"PendingDispatch", "AwaitResult"} => handed[t] = 0
    /\ state[t] = "Completed" => handed[t] = 1 /\ received[t] = decision[t]
    /\ ackPending[t] => state[t] = "Completed"
    /\ handed[t] \in {0, 1}
    /\ handed[t] = 1 => decision[t] # None

\* The channel's record against the history.
ChannelInv(t) ==
    /\ runs[t] \in {0, 1}
    /\ runs[t] = 1 => Routable(t)
    /\ runs[t] = 0 => entry[t] = "absent" /\ decision[t] = None
    /\ entry[t] = "processing" <=> retry[t] > 0
    /\ entry[t] = "processing" => decision[t] = None
    /\ entry[t] = "ready" => decision[t] # None /\ result[t] = decision[t]
    /\ acked[t] => handed[t] = 1
    /\ (runs[t] = 1 /\ entry[t] = "absent") => handed[t] = 1

\* A queued task is waiting, has never run, and is queued once.
TaskQInv(l) ==
    /\ \A i \in 1..Len(taskQ[l]) :
         /\ Lane(taskQ[l][i]) = l
         /\ state[taskQ[l][i]] = "AwaitResult"
         /\ runs[taskQ[l][i]] = 0
    /\ \A i, j \in 1..Len(taskQ[l]) : taskQ[l][i] = taskQ[l][j] => i = j

\* An ACK on its way was sent by an owner that has the result.
CtlQInv(l) ==
    \A i \in 1..Len(ctlQ[l]) : ctlQ[l][i].kind = 1 => handed[ctlQ[l][i].task] = 1

\* A result on its way is the final one, and its task has run.
ResQInv(l) ==
    \A i \in 1..Len(resQ[l]) : resQ[l][i].type = "result" =>
        /\ decision[resQ[l][i].task] # None
        /\ resQ[l][i].class = decision[resQ[l][i].task]

\* The owner's record, the channel's entry and what is in the queues between
\* them agree with what has happened to every task.
RecordsInv ==
    /\ TypeOK
    /\ ActiveIndexExact
    /\ \A t \in Tasks : Truthful(t) /\ OwnerInv(t) /\ ChannelInv(t)
    /\ \A l \in Lanes : TaskQInv(l) /\ CtlQInv(l) /\ ResQInv(l)

\* A task that has run is waited for until its result is handed over.
Awaited(t) == runs[t] = 1 /\ handed[t] = 0 => state[t] = "AwaitResult"

\* A control is in the lane of its task; behind an ACK, in the lane or already
\* handled, only ACKs of that task follow.
ControlsInOrder(l) ==
    \A i \in 1..Len(ctlQ[l]) :
        /\ Lane(ctlQ[l][i].task) = l
        /\ acked[ctlQ[l][i].task] => ctlQ[l][i].kind = 1
        /\ \A j \in 1..Len(ctlQ[l]) :
             (j < i /\ ctlQ[l][j].task = ctlQ[l][i].task /\ ctlQ[l][j].kind = 1) => ctlQ[l][i].kind = 1

\* The inductive invariant: the records and the queues agree with the history
\* of every task, and the controls keep the order the owner sent them in.
DeliveryInv ==
    /\ RecordsInv
    /\ \A t \in Tasks : Awaited(t)
    /\ \A l \in Lanes : ControlsInOrder(l)

\* The contract seen through this module's state: a task is decided when its
\* final result enters the ledger, and handed over when complete accepts it.
Phase(t) ==
    IF handed[t] > 0 THEN "handed"
    ELSE IF decision[t] # None THEN "decided"
    ELSE IF state[t] # None THEN "registered" ELSE "free"

Contract == INSTANCE DbTaskContract WITH
    phase <- [t \in Tasks |-> Phase(t)],
    decision <- decision,
    effects <- effects

\* Delivery through queues, ledger, retries and acknowledgements implements
\* the contract: decided once, truthfully, and handed over once; and, under
\* the threads' fairness, eventually.
ImplementsContract == Contract!Spec
ImplementsContractSafely == Contract!SafeSpec
=============================================================================
