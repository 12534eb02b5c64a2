------------------------- MODULE TaskDeliveryProofs -------------------------
(***************************************************************************)
(* Proofs about TaskDelivery, for any number of tasks, workers and         *)
(* channels and any capacities.                                            *)
(***************************************************************************)
EXTENDS TaskDelivery, TLAPS

\* An appended sequence, element by element (MsgQueue::try_push).
LEMMA AppendElements ==
    ASSUME NEW S, NEW q \in Seq(S), NEW x \in S
    PROVE  /\ Append(q, x) \in Seq(S)
           /\ Len(Append(q, x)) = Len(q) + 1
           /\ \A i \in 1..Len(q) : Append(q, x)[i] = q[i]
           /\ Append(q, x)[Len(q) + 1] = x
OBVIOUS

\* A queue of an array of queues with one more element: still such an array.
LEMMA AppendToLane ==
    ASSUME NEW D, NEW S, NEW f \in [D -> Seq(S)], NEW x \in S, NEW d
    PROVE  [f EXCEPT ![d] = Append(@, x)] \in [D -> Seq(S)]
<1> DEFINE g == [f EXCEPT ![d] = Append(@, x)]
<1>1. \A k \in D : f[k] \in Seq(S) /\ Append(f[k], x) \in Seq(S)
  BY AppendElements
<1>2. g = [k \in D |-> IF k = d THEN Append(f[k], x) ELSE f[k]]
  OBVIOUS
<1>3. \A k \in D : (IF k = d THEN Append(f[k], x) ELSE f[k]) \in Seq(S)
  BY <1>1
<1> QED
  BY <1>2, <1>3, Zenon

\* A sequence without its head, element by element (MsgQueue::try_pop).
LEMMA TailElements ==
    ASSUME NEW S, NEW q \in Seq(S), q # <<>>
    PROVE  /\ Tail(q) \in Seq(S)
           /\ Len(q) \in Nat \ {0}
           /\ Len(Tail(q)) = Len(q) - 1
           /\ \A i \in 1..(Len(q) - 1) : Tail(q)[i] = q[i + 1]
           /\ Head(q) = q[1]
           /\ Head(q) \in S
OBVIOUS

-----------------------------------------------------------------------------
(* The inductive invariant: initially, and for each action *)

\* A task with a channel has a lane.
LEMMA RoutableLane == \A t \in Tasks : Routable(t) => Lane(t) \in Lanes
BY OwnerAssumption DEF Routable, Lane, Lanes

\* A new server satisfies the invariant.
LEMMA InvInit == Init => RecordsInv
<1> SUFFICES ASSUME Init PROVE RecordsInv
  OBVIOUS
<1>1. TypeOK
  BY BoundsAssumption DEF Init, TypeOK, None, TaskStates
<1>2. ActiveIndexExact
  BY DEF Init, ActiveIndexExact, NeedsScheduling, None
<1>3. \A t \in Tasks : Truthful(t) /\ OwnerInv(t) /\ ChannelInv(t)
  BY DEF Init, Truthful, OwnerInv, ChannelInv, None
<1>4. \A l \in Lanes : TaskQInv(l) /\ CtlQInv(l) /\ ResQInv(l)
  BY DEF Init, TaskQInv, CtlQInv, ResQInv
<1> QED
  BY <1>1, <1>2, <1>3, <1>4 DEF RecordsInv

\* Submit keeps the invariant when the records it evicts are reclaimable.
LEMMA SubmitInv ==
    ASSUME RecordsInv, NEW t \in Tasks, t \notin issued,
           NEW gone \in SUBSET Tasks, \A u \in gone : Reclaimable(u),
           Submit(t, gone)
    PROVE  RecordsInv'
<1> USE DEF RecordsInv
<1>1. t \notin gone /\ state[t] = None /\ runs[t] = 0 /\ handed[t] = 0 /\ decision[t] = None
  BY DEF OwnerInv, ChannelInv, Reclaimable, None
<1>q. \A l \in Lanes : \A i \in 1..Len(taskQ[l]) :
        taskQ[l][i] \in Tasks /\ taskQ[l][i] # t /\ taskQ[l][i] \notin gone
  <2>1. \A l \in Lanes : \A i \in 1..Len(taskQ[l]) :
          taskQ[l][i] \in Tasks /\ state[taskQ[l][i]] = "AwaitResult"
    BY DEF TaskQInv, TypeOK
  <2> QED
    BY <2>1, <1>1 DEF Reclaimable, None
<1>2. CASE Routable(t)
  <2> DEFINE room == HasRoom(taskQ[Lane(t)])
  <2>1. /\ Lane(t) \in Lanes
        /\ issued' = issued \cup {t}
        /\ state' = [u \in Tasks |-> IF u = t THEN IF room THEN "AwaitResult" ELSE "PendingDispatch"
                                     ELSE IF u \in gone THEN None ELSE state[u]]
        /\ observed' = [u \in Tasks |-> IF u \in gone THEN 0 ELSE observed[u]]
        /\ received' = [u \in Tasks |-> IF u \in gone THEN None ELSE received[u]]
        /\ active' = (active \ gone) \cup {t}
        /\ taskQ' = IF room THEN [taskQ EXCEPT ![Lane(t)] = Append(@, t)] ELSE taskQ
        /\ UNCHANGED <<ackPending, ctlQ, resQ, ledger, history>>
    <3>1. Lane(t) \in Lanes
      BY <1>2, RoutableLane
    <3> QED
      BY <1>2, <3>1 DEF Submit
  <2>2. TypeOK'
    BY <2>1, AppendElements, SMTT(40) DEF TypeOK, TaskStates, None, ledger, history
  <2>3. ActiveIndexExact'
    BY <2>1, <1>1 DEF ActiveIndexExact, NeedsScheduling, None, Reclaimable, TypeOK
  <2>4. \A u \in Tasks : Truthful(u)' /\ ChannelInv(u)'
    BY <2>1 DEF Truthful, ChannelInv, ledger, history
  <2>5. \A u \in Tasks : OwnerInv(u)'
    BY <2>1, <1>1, <1>2 DEF OwnerInv, None, history, TypeOK, Reclaimable, Routable
  <2>6. \A l \in Lanes : TaskQInv(l)'
    <3> SUFFICES ASSUME NEW l \in Lanes PROVE TaskQInv(l)'
      OBVIOUS
    <3>1. \A i \in 1..Len(taskQ[l]) : taskQ[l][i] \in Tasks /\ taskQ[l][i] # t /\ taskQ[l][i] \notin gone
      BY <1>q
    <3>2. CASE room /\ l = Lane(t)
      <4>1. taskQ'[l] = Append(taskQ[l], t) /\ taskQ[l] \in Seq(Tasks)
        BY <2>1, <3>2 DEF TypeOK
      <4>2. /\ Len(taskQ'[l]) = Len(taskQ[l]) + 1
            /\ \A i \in 1..Len(taskQ[l]) : taskQ'[l][i] = taskQ[l][i]
            /\ taskQ'[l][Len(taskQ[l]) + 1] = t
            /\ Len(taskQ[l]) \in Nat
        BY <4>1, AppendElements
      <4>3. \A i \in 1..Len(taskQ'[l]) : i \in 1..Len(taskQ[l]) \/ i = Len(taskQ[l]) + 1
        BY <4>2
      <4>4. /\ \A i \in 1..Len(taskQ[l]) : state'[taskQ[l][i]] = "AwaitResult"
            /\ state'[t] = "AwaitResult" /\ runs'[t] = 0 /\ runs' = runs
        BY <1>1, <2>1, <3>1, <3>2 DEF TaskQInv, history
      <4>5. \A i, j \in 1..Len(taskQ[l]) : taskQ[l][i] = taskQ[l][j] => i = j
        BY DEF TaskQInv
      <4>6. \A i \in 1..Len(taskQ'[l]) :
              Lane(taskQ'[l][i]) = l /\ state'[taskQ'[l][i]] = "AwaitResult" /\ runs'[taskQ'[l][i]] = 0
        BY <3>2, <4>2, <4>3, <4>4 DEF TaskQInv
      <4>7. \A i, j \in 1..Len(taskQ'[l]) : taskQ'[l][i] = taskQ'[l][j] => i = j
        BY <3>1, <4>2, <4>3, <4>5
      <4> QED
        BY <4>6, <4>7 DEF TaskQInv
    <3>3. CASE ~(room /\ l = Lane(t))
      <4>1. taskQ'[l] = taskQ[l]
        BY <2>1, <3>3 DEF TypeOK
      <4> QED
        BY <4>1, <2>1, <3>1 DEF TaskQInv, history
    <3> QED
      BY <3>2, <3>3
  <2>7. \A l \in Lanes : CtlQInv(l)' /\ ResQInv(l)'
    BY <2>1 DEF CtlQInv, ResQInv, history
  <2> QED
    BY <2>2, <2>3, <2>4, <2>5, <2>6, <2>7
<1>3. CASE ~Routable(t)
  <2>1. /\ issued' = issued \cup {t}
        /\ state' = [u \in Tasks |-> IF u \in gone THEN None ELSE state[u]]
        /\ observed' = [u \in Tasks |-> IF u \in gone THEN 0 ELSE observed[u]]
        /\ received' = [u \in Tasks |-> IF u \in gone THEN None ELSE received[u]]
        /\ active' = active \ gone
        /\ UNCHANGED <<ackPending, queues, ledger, history>>
    BY <1>3 DEF Submit, queues
  <2>2. TypeOK'
    BY <2>1 DEF TypeOK, TaskStates, None, queues, ledger, history
  <2>3. ActiveIndexExact'
    BY <2>1 DEF ActiveIndexExact, NeedsScheduling, None, Reclaimable, TypeOK
  <2>4. \A u \in Tasks : Truthful(u)' /\ ChannelInv(u)'
    BY <2>1 DEF Truthful, ChannelInv, ledger, history
  <2>5. \A u \in Tasks : OwnerInv(u)'
    BY <2>1, <1>1 DEF OwnerInv, None, history, TypeOK, Reclaimable, Routable
  <2>6. \A l \in Lanes : TaskQInv(l)'
    BY <2>1, <1>q DEF TaskQInv, queues, history
  <2>7. \A l \in Lanes : CtlQInv(l)' /\ ResQInv(l)'
    BY <2>1 DEF CtlQInv, ResQInv, queues, history
  <2> QED
    BY <2>2, <2>3, <2>4, <2>5, <2>6, <2>7
<1> QED
  BY <1>2, <1>3

\* A submission without room (PendingDbTasks::submit) only uses up its identity.
LEMMA SubmitRefusedInv ==
    ASSUME RecordsInv, NEW t \in Tasks, SubmitRefused(t)
    PROVE  RecordsInv'
<1> USE DEF RecordsInv, SubmitRefused, record, queues, ledger, history
<1>1. TypeOK'
  BY DEF TypeOK
<1>0. ActiveIndexExact'
  BY DEF ActiveIndexExact, NeedsScheduling
<1>2. \A u \in Tasks : Truthful(u)' /\ OwnerInv(u)' /\ ChannelInv(u)'
  BY DEF Truthful, OwnerInv, ChannelInv
<1>3. \A l \in Lanes : TaskQInv(l)' /\ CtlQInv(l)' /\ ResQInv(l)'
  BY DEF TaskQInv, CtlQInv, ResQInv
<1> QED
  BY <1>0, <1>1, <1>2, <1>3

\* A tick that sends, or fails to send, a waiting task keeps the invariant.
LEMMA TickInv ==
    ASSUME RecordsInv, NEW t \in Tasks, Tick(t)
    PROVE  RecordsInv'
<1> USE DEF RecordsInv
<1>1. /\ state[t] = "PendingDispatch" /\ runs[t] = 0 /\ handed[t] = 0
      /\ state' = [state EXCEPT ![t] = "AwaitResult"]
      /\ taskQ' = [taskQ EXCEPT ![Lane(t)] = Append(@, t)]
      /\ UNCHANGED <<issued, ackPending, observed, received, active, ctlQ, resQ, ledger, history>>
      /\ Lane(t) \in Lanes
  BY RoutableLane DEF Tick, OwnerInv, None
<1>2. TypeOK'
  BY <1>1, AppendElements DEF TypeOK, TaskStates, ledger, history
<1>3. ActiveIndexExact'
  BY <1>1 DEF ActiveIndexExact, NeedsScheduling, TypeOK
<1>4. \A u \in Tasks : Truthful(u)' /\ ChannelInv(u)'
  BY <1>1 DEF Truthful, ChannelInv, ledger, history
<1>5. \A u \in Tasks : OwnerInv(u)'
  BY <1>1 DEF OwnerInv, history, TypeOK, None
<1>6. \A l \in Lanes : TaskQInv(l)'
  <2> SUFFICES ASSUME NEW l \in Lanes PROVE TaskQInv(l)'
    OBVIOUS
  <2>0. \A i \in 1..Len(taskQ[l]) : taskQ[l][i] \in Tasks /\ state[taskQ[l][i]] = "AwaitResult"
    BY DEF TaskQInv, TypeOK
  <2>1. \A i \in 1..Len(taskQ[l]) : taskQ[l][i] \in Tasks /\ taskQ[l][i] # t
    BY <1>1, <2>0
  <2>8. \A i, j \in 1..Len(taskQ[l]) : taskQ[l][i] = taskQ[l][j] => i = j
    BY DEF TaskQInv
  <2>9. /\ \A i \in 1..Len(taskQ[l]) : state'[taskQ[l][i]] = "AwaitResult"
        /\ state'[t] = "AwaitResult" /\ runs'[t] = 0 /\ runs' = runs
    BY <1>1, <2>0, <2>1 DEF TypeOK, history
  <2>2. CASE l = Lane(t)
    <3>1. taskQ'[l] = Append(taskQ[l], t) /\ taskQ[l] \in Seq(Tasks)
      BY <1>1, <2>2 DEF TypeOK
    <3>2. /\ Len(taskQ'[l]) = Len(taskQ[l]) + 1
          /\ \A i \in 1..Len(taskQ[l]) : taskQ'[l][i] = taskQ[l][i]
          /\ taskQ'[l][Len(taskQ[l]) + 1] = t
          /\ Len(taskQ[l]) \in Nat
      BY <3>1, AppendElements
    <3>3. \A i \in 1..Len(taskQ'[l]) : i \in 1..Len(taskQ[l]) \/ i = Len(taskQ[l]) + 1
      BY <3>2
    <3>4. \A i \in 1..Len(taskQ'[l]) :
            Lane(taskQ'[l][i]) = l /\ state'[taskQ'[l][i]] = "AwaitResult" /\ runs'[taskQ'[l][i]] = 0
      BY <2>9, <2>2, <3>2, <3>3 DEF TaskQInv
    <3>5. \A i, j \in 1..Len(taskQ'[l]) : taskQ'[l][i] = taskQ'[l][j] => i = j
      BY <2>1, <2>8, <3>2, <3>3
    <3> QED
      BY <3>4, <3>5 DEF TaskQInv
  <2>3. CASE l # Lane(t)
    <3>1. taskQ'[l] = taskQ[l]
      BY <1>1, <2>3 DEF TypeOK
    <3> QED
      BY <3>1, <2>9 DEF TaskQInv
  <2> QED
    BY <2>2, <2>3
<1>7. \A l \in Lanes : CtlQInv(l)' /\ ResQInv(l)'
  BY <1>1 DEF CtlQInv, ResQInv, history
<1> QED
  BY <1>2, <1>3, <1>4, <1>5, <1>6, <1>7

\* A control appended to a lane keeps the control queues' invariant, provided
\* that an ACK is only sent for a result already handed over.
LEMMA AppendControl ==
    ASSUME TypeOK, NEW t \in Tasks, NEW kind \in {1, 2}, kind = 1 => handed[t] = 1,
           \A l \in Lanes : CtlQInv(l),
           ctlQ' = [ctlQ EXCEPT ![Lane(t)] = Append(@, Control(t, kind))],
           handed' = handed
    PROVE  ctlQ' \in [Lanes -> Seq(Controls)] /\ \A l \in Lanes : CtlQInv(l)'
<1>1. Control(t, kind) \in Controls
  BY DEF Control, Controls
<1>2. ctlQ' \in [Lanes -> Seq(Controls)]
  <2>1. ctlQ \in [Lanes -> Seq(Controls)]
    BY DEF TypeOK
  <2> QED
    BY <1>1, <2>1, AppendToLane
<1>3. ASSUME NEW l \in Lanes PROVE CtlQInv(l)'
  <2>1. CASE l = Lane(t)
    <3>1. ctlQ'[l] = Append(ctlQ[l], Control(t, kind)) /\ ctlQ[l] \in Seq(Controls)
      BY <2>1 DEF TypeOK
    <3>2. /\ Len(ctlQ'[l]) = Len(ctlQ[l]) + 1
          /\ \A i \in 1..Len(ctlQ[l]) : ctlQ'[l][i] = ctlQ[l][i]
          /\ ctlQ'[l][Len(ctlQ[l]) + 1] = Control(t, kind)
          /\ Len(ctlQ[l]) \in Nat
      BY <3>1, <1>1, AppendElements
    <3>3. \A i \in 1..Len(ctlQ'[l]) : i \in 1..Len(ctlQ[l]) \/ i = Len(ctlQ[l]) + 1
      BY <3>2
    <3> QED
      BY <3>2, <3>3 DEF CtlQInv, Control
  <2>2. CASE l # Lane(t)
    <3>1. ctlQ'[l] = ctlQ[l]
      BY <2>2 DEF TypeOK
    <3> QED
      BY <3>1 DEF CtlQInv
  <2> QED
    BY <2>1, <2>2
<1> QED
  BY <1>2, <1>3

\* A message appended to a lane keeps the result queues' invariant, provided
\* that a result carries the class decided for its task.
LEMMA AppendMessage ==
    ASSUME TypeOK, NEW t \in Tasks, NEW m \in Messages, m.task = t,
           m.type = "result" => decision'[t] # None /\ m.class = decision'[t],
           \A u \in Tasks : decision[u] # None => decision'[u] = decision[u],
           \A l \in Lanes : ResQInv(l),
           resQ' = [resQ EXCEPT ![Lane(t)] = Append(@, m)]
    PROVE  resQ' \in [Lanes -> Seq(Messages)] /\ \A l \in Lanes : ResQInv(l)'
<1>2. resQ' \in [Lanes -> Seq(Messages)]
  <2>1. resQ \in [Lanes -> Seq(Messages)]
    BY DEF TypeOK
  <2> QED
    BY <2>1, AppendToLane
<1>3. ASSUME NEW l \in Lanes PROVE ResQInv(l)'
  <2>0. \A i \in 1..Len(resQ[l]) : resQ[l][i] \in Messages /\ resQ[l][i].task \in Tasks
    <3>1. \A i \in 1..Len(resQ[l]) : resQ[l][i] \in Messages
      BY DEF TypeOK
    <3>2. \A n \in Messages : n.task \in Tasks
      BY DEF Messages
    <3> QED
      BY <3>1, <3>2
  <2>1. CASE l = Lane(t)
    <3>1. resQ'[l] = Append(resQ[l], m) /\ resQ[l] \in Seq(Messages)
      BY <2>1 DEF TypeOK
    <3>2. /\ Len(resQ'[l]) = Len(resQ[l]) + 1
          /\ \A i \in 1..Len(resQ[l]) : resQ'[l][i] = resQ[l][i]
          /\ resQ'[l][Len(resQ[l]) + 1] = m
          /\ Len(resQ[l]) \in Nat
      BY <3>1, AppendElements
    <3>3. \A i \in 1..Len(resQ'[l]) : i \in 1..Len(resQ[l]) \/ i = Len(resQ[l]) + 1
      BY <3>2
    <3> QED
      BY <2>0, <3>2, <3>3 DEF ResQInv
  <2>2. CASE l # Lane(t)
    <3>1. resQ'[l] = resQ[l]
      BY <2>2 DEF TypeOK
    <3> QED
      BY <2>0, <3>1 DEF ResQInv
  <2> QED
    BY <2>1, <2>2
<1> QED
  BY <1>2, <1>3

\* Sending an ACK (tickControls) keeps the invariant.
LEMMA SendAckInv ==
    ASSUME RecordsInv, NEW t \in Tasks, SendAck(t)
    PROVE  RecordsInv'
<1> USE DEF RecordsInv
<1>1. /\ state[t] = "Completed" /\ handed[t] = 1
      /\ ackPending' = [ackPending EXCEPT ![t] = FALSE]
      /\ active' = active \ {t}
      /\ ctlQ' = [ctlQ EXCEPT ![Lane(t)] = Append(@, Control(t, 1))]
      /\ UNCHANGED <<issued, state, observed, received, taskQ, resQ, ledger, history>>
  BY DEF SendAck, OwnerInv
<1>2. ctlQ' \in [Lanes -> Seq(Controls)] /\ \A l \in Lanes : CtlQInv(l)'
  BY <1>1, AppendControl DEF history
<1>3. TypeOK'
  BY <1>1, <1>2 DEF TypeOK, ledger, history
<1>4. ActiveIndexExact'
  BY <1>1 DEF ActiveIndexExact, NeedsScheduling, TypeOK
<1>5. \A u \in Tasks : Truthful(u)' /\ ChannelInv(u)' /\ OwnerInv(u)'
  BY <1>1 DEF Truthful, ChannelInv, OwnerInv, ledger, history, TypeOK
<1>6. \A l \in Lanes : TaskQInv(l)' /\ ResQInv(l)'
  BY <1>1, SMTT(40) DEF TaskQInv, ResQInv, history, TypeOK
<1> QED
  BY <1>2, <1>3, <1>4, <1>5, <1>6

\* Sending a status query (tickControls) keeps the invariant.
LEMMA SendQueryInv ==
    ASSUME RecordsInv, NEW t \in Tasks, SendQuery(t)
    PROVE  RecordsInv'
<1> USE DEF RecordsInv
<1>1. /\ ctlQ' = [ctlQ EXCEPT ![Lane(t)] = Append(@, Control(t, 2))]
      /\ UNCHANGED <<owner, taskQ, resQ, ledger, history>>
  BY DEF SendQuery
<1>a. handed' = handed /\ TypeOK /\ (2 = 1 => handed[t] = 1)
  BY <1>1 DEF history
<1>2. ctlQ' \in [Lanes -> Seq(Controls)] /\ \A l \in Lanes : CtlQInv(l)'
  BY <1>1, <1>a, AppendControl
<1> USE DEF owner, record, ledger, history
<1>3. TypeOK' /\ ActiveIndexExact'
  BY <1>1, <1>2 DEF TypeOK, ActiveIndexExact, NeedsScheduling
<1>4. \A u \in Tasks : Truthful(u)' /\ ChannelInv(u)' /\ OwnerInv(u)'
  BY <1>1 DEF Truthful, ChannelInv, OwnerInv
<1>5. \A l \in Lanes : TaskQInv(l)' /\ ResQInv(l)'
  BY <1>1 DEF TaskQInv, ResQInv
<1> QED
  BY <1>2, <1>3, <1>4, <1>5

-----------------------------------------------------------------------------
(* The owner receives *)

\* Popping a lane of a worker's queue keeps the result queues' invariant and
\* yields a message whose class is the one decided.
LEMMA PopMessage ==
    ASSUME TypeOK, \A k \in Lanes : ResQInv(k), NEW l \in Lanes, resQ[l] # <<>>,
           resQ' = [resQ EXCEPT ![l] = Tail(@)], decision' = decision
    PROVE  /\ Head(resQ[l]) \in Messages
           /\ Head(resQ[l]).task \in Tasks
           /\ Head(resQ[l]).type = "result" =>
                 /\ decision[Head(resQ[l]).task] # None
                 /\ Head(resQ[l]).class = decision[Head(resQ[l]).task]
                 /\ Head(resQ[l]).class \in ResultClass
           /\ Head(resQ[l]).type = "status" => Head(resQ[l]).status \in 0..2
           /\ resQ' \in [Lanes -> Seq(Messages)]
           /\ \A k \in Lanes : ResQInv(k)'
<1>1. resQ[l] \in Seq(Messages)
  BY DEF TypeOK
<1>2. /\ Tail(resQ[l]) \in Seq(Messages)
      /\ Len(resQ[l]) \in Nat \ {0}
      /\ Len(Tail(resQ[l])) = Len(resQ[l]) - 1
      /\ \A i \in 1..(Len(resQ[l]) - 1) : Tail(resQ[l])[i] = resQ[l][i + 1]
      /\ Head(resQ[l]) = resQ[l][1]
      /\ Head(resQ[l]) \in Messages
  BY <1>1, TailElements
<1>3. ResQInv(l) /\ 1 \in 1..Len(resQ[l])
  BY <1>2
<1>4. /\ Head(resQ[l]).task \in Tasks
      /\ Head(resQ[l]).type = "result" => Head(resQ[l]).class \in ResultClass
      /\ Head(resQ[l]).type = "status" => Head(resQ[l]).status \in 0..2
  BY <1>2 DEF Messages
<1>5. Head(resQ[l]).type = "result" =>
        /\ decision[Head(resQ[l]).task] # None
        /\ Head(resQ[l]).class = decision[Head(resQ[l]).task]
  BY <1>2, <1>3 DEF ResQInv
<1>6. resQ' \in [Lanes -> Seq(Messages)]
  BY <1>2 DEF TypeOK
<1>7. ASSUME NEW k \in Lanes PROVE ResQInv(k)'
  <2>1. CASE k = l
    <3>1. resQ'[k] = Tail(resQ[l])
      BY <2>1 DEF TypeOK
    <3>a. 1..Len(resQ'[k]) = 1..(Len(resQ[l]) - 1)
      BY <3>1, <1>2
    <3>2. \A i \in 1..Len(resQ'[k]) : i + 1 \in 1..Len(resQ[l]) /\ resQ'[k][i] = resQ[l][i + 1]
      <4> SUFFICES ASSUME NEW i \in 1..(Len(resQ[l]) - 1)
                   PROVE  i + 1 \in 1..Len(resQ[l]) /\ resQ'[k][i] = resQ[l][i + 1]
        BY <3>a
      <4>1. i + 1 \in 1..Len(resQ[l])
        BY <1>2
      <4>2. Tail(resQ[l])[i] = resQ[l][i + 1]
        BY <1>2
      <4> QED
        BY <3>1, <4>1, <4>2
    <3>3. \A j \in 1..Len(resQ[l]) : resQ[l][j].type = "result" =>
            /\ decision[resQ[l][j].task] # None
            /\ resQ[l][j].class = decision[resQ[l][j].task]
      BY <1>3 DEF ResQInv
    <3>4. \A i \in 1..Len(resQ'[k]) : resQ'[k][i].type = "result" =>
            /\ decision'[resQ'[k][i].task] # None
            /\ resQ'[k][i].class = decision'[resQ'[k][i].task]
      BY <3>2, <3>3
    <3> QED
      BY <3>4 DEF ResQInv
  <2>2. CASE k # l
    <3>1. resQ'[k] = resQ[k]
      BY <2>2 DEF TypeOK
    <3> QED
      BY <3>1 DEF ResQInv
  <2> QED
    BY <2>1, <2>2
<1> QED
  BY <1>2, <1>4, <1>5, <1>6, <1>7

\* Accepting the first result of a task (complete) keeps the invariant.
LEMMA CompleteInv ==
    ASSUME RecordsInv, NEW l \in Lanes, Complete(l)
    PROVE  RecordsInv'
<1> DEFINE m == Head(resQ[l])
           t == m.task
<1> USE DEF RecordsInv
<1>1. /\ resQ[l] # <<>> /\ m.type = "result"
      /\ resQ' = [resQ EXCEPT ![l] = Tail(@)]
      /\ state[t] = "AwaitResult"
      /\ state' = [state EXCEPT ![t] = "Completed"]
      /\ ackPending' = [ackPending EXCEPT ![t] = TRUE]
      /\ received' = [received EXCEPT ![t] = m.class]
      /\ handed' = [handed EXCEPT ![t] = handed[t] + 1]
      /\ UNCHANGED <<issued, observed, active, taskQ, ctlQ, ledger, runs, decision, effects>>
  BY DEF Complete, Receive
<1>2. /\ t \in Tasks /\ m.class \in ResultClass
      /\ decision[t] # None /\ m.class = decision[t]
      /\ resQ' \in [Lanes -> Seq(Messages)]
      /\ \A k \in Lanes : ResQInv(k)'
  BY <1>1, PopMessage
<1> HIDE DEF m, t
<1>3. handed[t] = 0 /\ runs[t] = 1 /\ handed'[t] = 1
  BY <1>1, <1>2 DEF OwnerInv, ChannelInv, TypeOK
<1>4. TypeOK'
  BY <1>1, <1>2, <1>3 DEF TypeOK, TaskStates, ledger
<1>5. ActiveIndexExact'
  BY <1>1, <1>2 DEF ActiveIndexExact, NeedsScheduling, TypeOK
<1>6. \A u \in Tasks : Truthful(u)'
  BY <1>1 DEF Truthful
<1>7. \A u \in Tasks : ChannelInv(u)'
  BY <1>1, <1>2, <1>3 DEF ChannelInv, ledger, TypeOK
<1>8. \A u \in Tasks : OwnerInv(u)'
  BY <1>1, <1>2, <1>3 DEF OwnerInv, TypeOK, None
<1>9. \A k \in Lanes : TaskQInv(k)'
  <2>1. \A k \in Lanes : \A i \in 1..Len(taskQ[k]) : taskQ[k][i] \in Tasks /\ runs[taskQ[k][i]] = 0
    BY DEF TaskQInv, TypeOK
  <2>2. \A k \in Lanes : \A i \in 1..Len(taskQ[k]) : taskQ[k][i] # t
    BY <2>1, <1>3
  <2>3. (\A u \in Tasks \ {t} : state'[u] = state[u]) /\ taskQ' = taskQ /\ runs' = runs
    BY <1>1 DEF TypeOK
  <2> QED
    BY <2>1, <2>2, <2>3 DEF TaskQInv
<1>10. \A k \in Lanes : CtlQInv(k)'
  <2>1. \A k \in Lanes : \A i \in 1..Len(ctlQ[k]) : ctlQ[k][i] \in Controls
    BY DEF TypeOK
  <2>2. \A c \in Controls : c.task \in Tasks
    BY DEF Controls
  <2>3. \A u \in Tasks : handed[u] = 1 => handed'[u] = 1
    BY <1>1, <1>2, <1>3 DEF TypeOK
  <2>4. ctlQ' = ctlQ
    BY <1>1
  <2> QED
    BY <2>1, <2>2, <2>3, <2>4 DEF CtlQInv
<1> QED
  BY <1>2, <1>4, <1>5, <1>6, <1>7, <1>8, <1>9, <1>10

\* A repeated result only makes the owner acknowledge again.
LEMMA AcknowledgeDuplicateInv ==
    ASSUME RecordsInv, NEW l \in Lanes, AcknowledgeDuplicate(l)
    PROVE  RecordsInv'
<1> DEFINE m == Head(resQ[l])
           t == m.task
           room == HasRoom(ctlQ[Lane(t)])
<1> USE DEF RecordsInv
<1>1. /\ resQ[l] # <<>> /\ m.type = "result"
      /\ resQ' = [resQ EXCEPT ![l] = Tail(@)]
      /\ state[t] = "Completed"
      /\ ackPending' = [ackPending EXCEPT ![t] = ~room]
      /\ active' = IF room THEN active \ {t} ELSE active \cup {t}
      /\ ctlQ' = IF room THEN [ctlQ EXCEPT ![Lane(t)] = Append(@, Control(t, 1))] ELSE ctlQ
      /\ UNCHANGED <<issued, state, observed, received, taskQ, ledger, history>>
  BY DEF AcknowledgeDuplicate, Receive
<1>2. decision' = decision /\ handed' = handed /\ runs' = runs /\ effects' = effects
  BY <1>1 DEF history
<1>3. /\ t \in Tasks
      /\ resQ' \in [Lanes -> Seq(Messages)]
      /\ \A k \in Lanes : ResQInv(k)'
  BY <1>1, <1>2, PopMessage
<1>r. room \in BOOLEAN
  BY DEF HasRoom
<1> HIDE DEF m, t, room
<1>4. handed[t] = 1
  BY <1>1, <1>3 DEF OwnerInv
<1>5. ctlQ' \in [Lanes -> Seq(Controls)] /\ \A k \in Lanes : CtlQInv(k)'
  <2>1. CASE room
    BY <2>1, <1>1, <1>2, <1>3, <1>4, AppendControl
  <2>2. CASE ~room
    BY <2>2, <1>1, <1>2 DEF CtlQInv, TypeOK
  <2> QED
    BY <2>1, <2>2
<1>6. TypeOK'
  BY <1>1, <1>2, <1>3, <1>5, <1>r DEF TypeOK, ledger
<1>7. ActiveIndexExact'
  <2>1. \A u \in Tasks : u # t => (NeedsScheduling(u)' <=> NeedsScheduling(u))
    BY <1>1 DEF NeedsScheduling, TypeOK
  <2>3. active' \subseteq Tasks
    BY <1>6 DEF TypeOK
  <2>4. \A u \in Tasks : u \in active' <=> NeedsScheduling(u)'
    <3>1. CASE room
      <4>1. active' = active \ {t} /\ ackPending' = [ackPending EXCEPT ![t] = FALSE]
        BY <3>1, <1>1, <1>r
      <4>2. \A u \in Tasks : u = t => ~NeedsScheduling(u)'
        BY <4>1, <1>1, <1>3 DEF NeedsScheduling, TypeOK
      <4> QED
        BY <4>1, <4>2, <2>1 DEF ActiveIndexExact
    <3>2. CASE ~room
      <4>1. active' = active \cup {t} /\ ackPending' = [ackPending EXCEPT ![t] = TRUE]
        BY <3>2, <1>1, <1>r
      <4>2. \A u \in Tasks : u = t => NeedsScheduling(u)'
        BY <4>1, <1>1, <1>3 DEF NeedsScheduling, TypeOK
      <4> QED
        BY <4>1, <4>2, <2>1 DEF ActiveIndexExact
    <3> QED
      BY <3>1, <3>2
  <2> QED
    BY <2>3, <2>4 DEF ActiveIndexExact
<1>8. \A u \in Tasks : Truthful(u)' /\ ChannelInv(u)'
  BY <1>1, <1>2 DEF Truthful, ChannelInv, ledger
<1>9. \A u \in Tasks : OwnerInv(u)'
  BY <1>1, <1>2, <1>3, <1>r DEF OwnerInv, TypeOK
<1>10. \A k \in Lanes : TaskQInv(k)'
  BY <1>1, <1>2 DEF TaskQInv
<1> QED
  BY <1>3, <1>5, <1>6, <1>7, <1>8, <1>9, <1>10

\* A result nobody waits for is dropped (LogicThread::onDbResult).
LEMMA DropStaleInv ==
    ASSUME RecordsInv, NEW l \in Lanes, DropStale(l)
    PROVE  RecordsInv'
<1> USE DEF RecordsInv
<1>1. /\ resQ[l] # <<>> /\ resQ' = [resQ EXCEPT ![l] = Tail(@)]
      /\ UNCHANGED <<owner, taskQ, ctlQ, ledger, history>>
  BY DEF DropStale, Receive
<1>2. decision' = decision /\ handed' = handed /\ runs' = runs /\ effects' = effects
  BY <1>1 DEF history
<1>3. resQ' \in [Lanes -> Seq(Messages)] /\ \A k \in Lanes : ResQInv(k)'
  BY <1>1, <1>2, PopMessage
<1>4. TypeOK' /\ ActiveIndexExact'
  BY <1>1, <1>2, <1>3 DEF TypeOK, ActiveIndexExact, NeedsScheduling, owner, record, ledger
<1>5. \A u \in Tasks : Truthful(u)' /\ ChannelInv(u)' /\ OwnerInv(u)'
  BY <1>1, <1>2 DEF Truthful, ChannelInv, OwnerInv, owner, record, ledger
<1>6. \A k \in Lanes : TaskQInv(k)' /\ CtlQInv(k)'
  BY <1>1, <1>2 DEF TaskQInv, CtlQInv, owner, record
<1> QED
  BY <1>3, <1>4, <1>5, <1>6

\* A status notice changes nothing the invariant speaks of.
LEMMA ObserveStatusInv ==
    ASSUME RecordsInv, NEW l \in Lanes, ObserveStatus(l)
    PROVE  RecordsInv'
<1> DEFINE m == Head(resQ[l])
<1> USE DEF RecordsInv
<1>1. /\ resQ[l] # <<>> /\ m.type = "status" /\ resQ' = [resQ EXCEPT ![l] = Tail(@)]
      /\ observed' = IF state[m.task] = "AwaitResult"
                       THEN [observed EXCEPT ![m.task] = m.status] ELSE observed
      /\ UNCHANGED <<issued, state, ackPending, received, active, taskQ, ctlQ, ledger, history>>
  BY DEF ObserveStatus, Receive
<1>2. decision' = decision /\ handed' = handed /\ runs' = runs /\ effects' = effects
  BY <1>1 DEF history
<1>3. /\ m.task \in Tasks /\ m.status \in 0..2
      /\ resQ' \in [Lanes -> Seq(Messages)] /\ \A k \in Lanes : ResQInv(k)'
  BY <1>1, <1>2, PopMessage
<1> HIDE DEF m
<1>4. TypeOK' /\ ActiveIndexExact'
  BY <1>1, <1>2, <1>3 DEF TypeOK, ActiveIndexExact, NeedsScheduling, ledger
<1>5. \A u \in Tasks : Truthful(u)' /\ ChannelInv(u)' /\ OwnerInv(u)'
  BY <1>1, <1>2 DEF Truthful, ChannelInv, OwnerInv, ledger
<1>6. \A k \in Lanes : TaskQInv(k)' /\ CtlQInv(k)'
  BY <1>1, <1>2 DEF TaskQInv, CtlQInv
<1> QED
  BY <1>3, <1>4, <1>5, <1>6

-----------------------------------------------------------------------------
(* The channel *)

\* Evicting an acknowledged entry (hasCapacity) forgets only what was handed over.
LEMMA EvictInv ==
    ASSUME RecordsInv, NEW t \in Tasks, EvictAcknowledged(t)
    PROVE  RecordsInv'
<1> USE DEF RecordsInv
<1>1. /\ entry[t] # "absent" /\ acked[t]
      /\ entry' = [entry EXCEPT ![t] = "absent"]
      /\ acked' = [acked EXCEPT ![t] = FALSE]
      /\ result' = [result EXCEPT ![t] = None]
      /\ UNCHANGED <<owner, queues, legacy, retry, history>>
  BY DEF EvictAcknowledged
<1>2. /\ handed[t] = 1 /\ decision[t] # None
      /\ UNCHANGED <<state, ackPending, observed, received, issued, active, taskQ, ctlQ, resQ,
                     runs, decision, effects, handed>>
  BY <1>1 DEF owner, record, queues, history, ChannelInv, OwnerInv
<1>3. TypeOK' /\ ActiveIndexExact'
  BY <1>1, <1>2 DEF TypeOK, ActiveIndexExact, NeedsScheduling
<1>4. \A u \in Tasks : Truthful(u)' /\ OwnerInv(u)'
  BY <1>2 DEF Truthful, OwnerInv
<1>5. \A u \in Tasks : ChannelInv(u)'
  BY <1>1, <1>2 DEF ChannelInv, TypeOK
<1>6. \A l \in Lanes : TaskQInv(l)' /\ CtlQInv(l)' /\ ResQInv(l)'
  BY <1>2 DEF TaskQInv, CtlQInv, ResQInv
<1> QED
  BY <1>3, <1>4, <1>5, <1>6

\* What an execution of t does to the channel's records: t is decided
\* truthfully, or scheduled again with nothing written.
Attempted(t) ==
    /\ entry' \in [Tasks -> {"absent", "processing", "ready"}]
    /\ result' \in [Tasks -> ResultClass \cup {None}]
    /\ retry' \in [Tasks -> 0..MaxAttempts - 1]
    /\ decision' \in [Tasks -> ResultClass \cup {None}]
    /\ effects' \in [Tasks -> Nat]
    /\ resQ' \in [Lanes -> Seq(Messages)]
    /\ \A u \in Tasks \ {t} :
         /\ entry'[u] = entry[u] /\ result'[u] = result[u] /\ retry'[u] = retry[u]
         /\ decision'[u] = decision[u] /\ effects'[u] = effects[u]
    /\ Truthful(t)'
    /\ \/ entry'[t] = "processing" /\ retry'[t] > 0 /\ decision'[t] = None
       \/ /\ entry'[t] = "ready" /\ retry'[t] = 0
          /\ decision'[t] # None /\ result'[t] = decision'[t]
    /\ \A l \in Lanes : ResQInv(l)'

\* One execution attempt of a task that is not yet decided, first or repeated.
LEMMA AttemptFacts ==
    ASSUME TypeOK, NEW t \in Tasks, Truthful(t), decision[t] = None,
           \A l \in Lanes : ResQInv(l),
           NEW attempts \in Nat \ {0}, ExecuteAttempt(t, attempts)
    PROVE  Attempted(t)
<1>0. effects[t] = 0
  BY DEF Truthful
<1>1. PICK e \in Executions(t) :
        /\ effects' = [effects EXCEPT ![t] = @ + e[2]]
        /\ IF CanRetry(t, e[1], attempts)
             THEN /\ retry' = [retry EXCEPT ![t] = attempts]
                  /\ entry' = [entry EXCEPT ![t] = "processing"]
                  /\ UNCHANGED <<result, resQ, decision>>
             ELSE /\ retry' = [retry EXCEPT ![t] = 0]
                  /\ ReplyResult(t, e[1])
  BY DEF ExecuteAttempt
<1>2. /\ e[1] \in ResultClass /\ e[1] # None /\ e[2] \in {0, 1}
      /\ e[1] = "success" => e[2] = 1
      /\ e[1] = "retryable" => e[2] = 0
      /\ t \in Transactional /\ e[1] = "failure" => e[2] = 0
  BY DEF Executions, ResultClass, None
<1>3. effects' \in [Tasks -> Nat] /\ effects'[t] = e[2] /\ \A u \in Tasks \ {t} : effects'[u] = effects[u]
  BY <1>0, <1>1, <1>2 DEF TypeOK
<1>4. CASE CanRetry(t, e[1], attempts)
  <2>1. attempts < MaxAttempts /\ e[1] = "retryable" /\ MaxAttempts \in Nat
    BY <1>4, BoundsAssumption DEF CanRetry
  <2>2. /\ retry' = [retry EXCEPT ![t] = attempts]
        /\ entry' = [entry EXCEPT ![t] = "processing"]
        /\ result' = result /\ resQ' = resQ /\ decision' = decision
    BY <1>1, <1>4
  <2>3. \A l \in Lanes : ResQInv(l)'
    BY <2>2 DEF ResQInv
  <2>4. Truthful(t)'
    BY <1>2, <1>3, <2>1, <2>2 DEF Truthful, None
  <2> QED
    BY <1>3, <2>1, <2>2, <2>3, <2>4 DEF TypeOK, Attempted
<1>5. CASE ~CanRetry(t, e[1], attempts)
  <2>1. /\ retry' = [retry EXCEPT ![t] = 0]
        /\ entry' = [entry EXCEPT ![t] = "ready"]
        /\ result' = [result EXCEPT ![t] = e[1]]
        /\ decision' = [decision EXCEPT ![t] = e[1]]
        /\ resQ' = IF HasRoom(resQ[Lane(t)])
                     THEN [resQ EXCEPT ![Lane(t)] = Append(@, ResultMsg(t, e[1]))]
                     ELSE resQ
    BY <1>1, <1>5 DEF ReplyResult
  <2>2. /\ \A u \in Tasks : decision[u] # None => decision'[u] = decision[u]
        /\ decision'[t] = e[1]
    BY <2>1 DEF TypeOK
  <2>3. Truthful(t)'
    BY <1>2, <1>3, <2>2 DEF Truthful
  <2>4. resQ' \in [Lanes -> Seq(Messages)] /\ \A l \in Lanes : ResQInv(l)'
    <3>1. CASE HasRoom(resQ[Lane(t)])
      <4>1. /\ ResultMsg(t, e[1]) \in Messages /\ ResultMsg(t, e[1]).task = t
            /\ ResultMsg(t, e[1]).class = e[1]
        BY <1>2 DEF ResultMsg, Messages
      <4>2. resQ' = [resQ EXCEPT ![Lane(t)] = Append(@, ResultMsg(t, e[1]))]
        BY <2>1, <3>1
      <4> QED
        BY <1>2, <2>2, <4>1, <4>2, AppendMessage
    <3>2. CASE ~HasRoom(resQ[Lane(t)])
      <4>1. resQ' = resQ
        BY <2>1, <3>2
      <4>2. \A l \in Lanes : \A i \in 1..Len(resQ[l]) : resQ[l][i] \in Messages
        BY DEF TypeOK
      <4>3. \A m \in Messages : m.task \in Tasks
        BY DEF Messages
      <4> QED
        BY <2>2, <4>1, <4>2, <4>3, SMTT(40) DEF ResQInv, TypeOK
    <3> QED
      BY <3>1, <3>2
  <2>5. MaxAttempts \in Nat \ {0}
    BY BoundsAssumption
  <2> QED
    BY <1>2, <1>3, <2>1, <2>2, <2>3, <2>4, <2>5, SMTT(40) DEF TypeOK, Attempted
<1> QED
  BY <1>4, <1>5

\* The head of a task queue has never run and is nowhere else in the queues.
LEMMA PopTask ==
    ASSUME TypeOK, \A k \in Lanes : TaskQInv(k), NEW l \in Lanes, taskQ[l] # <<>>,
           taskQ' = [taskQ EXCEPT ![l] = Tail(@)], state' = state,
           \A u \in Tasks \ {Head(taskQ[l])} : runs'[u] = runs[u]
    PROVE  /\ Head(taskQ[l]) \in Tasks
           /\ Lane(Head(taskQ[l])) = l
           /\ state[Head(taskQ[l])] = "AwaitResult"
           /\ runs[Head(taskQ[l])] = 0
           /\ taskQ' \in [Lanes -> Seq(Tasks)]
           /\ \A k \in Lanes : TaskQInv(k)'
<1> DEFINE q == taskQ[l]
           t == Head(q)
<1>1. q \in Seq(Tasks)
  BY DEF TypeOK
<1>2. /\ Tail(q) \in Seq(Tasks)
      /\ Len(q) \in Nat \ {0}
      /\ Len(Tail(q)) = Len(q) - 1
      /\ \A i \in 1..(Len(q) - 1) : Tail(q)[i] = q[i + 1]
      /\ t = q[1]
      /\ t \in Tasks
  BY <1>1, TailElements
<1>3. 1 \in 1..Len(q)
  BY <1>2
<1>4. /\ \A i \in 1..Len(q) : q[i] \in Tasks /\ Lane(q[i]) = l /\ state[q[i]] = "AwaitResult" /\ runs[q[i]] = 0
      /\ \A i, j \in 1..Len(q) : q[i] = q[j] => i = j
  BY <1>1 DEF TaskQInv
<1>5. Lane(t) = l /\ state[t] = "AwaitResult" /\ runs[t] = 0
  BY <1>2, <1>3, <1>4
<1>6. taskQ' \in [Lanes -> Seq(Tasks)]
  BY <1>2 DEF TypeOK
<1>7. ASSUME NEW k \in Lanes PROVE TaskQInv(k)'
  <2>1. CASE k = l
    <3>1. taskQ'[k] = Tail(q)
      BY <2>1 DEF TypeOK
    <3>2. 1..Len(taskQ'[k]) = 1..(Len(q) - 1)
      BY <3>1, <1>2
    <3>3. ASSUME NEW i \in 1..(Len(q) - 1)
          PROVE  i + 1 \in 1..Len(q) /\ i + 1 # 1 /\ taskQ'[k][i] = q[i + 1]
      <4>1. i + 1 \in 1..Len(q) /\ i + 1 # 1
        BY <1>2
      <4>2. Tail(q)[i] = q[i + 1]
        BY <1>2
      <4> QED
        BY <3>1, <4>1, <4>2
    <3>4. ASSUME NEW i \in 1..(Len(q) - 1)
          PROVE  /\ Lane(taskQ'[k][i]) = k /\ state'[taskQ'[k][i]] = "AwaitResult"
                 /\ runs'[taskQ'[k][i]] = 0
      <4>1. q[i + 1] \in Tasks /\ q[i + 1] # t
        BY <3>3, <1>2, <1>3, <1>4
      <4> QED
        BY <4>1, <3>3, <1>4, <2>1
    <3>5. ASSUME NEW i \in 1..(Len(q) - 1), NEW j \in 1..(Len(q) - 1), taskQ'[k][i] = taskQ'[k][j]
          PROVE  i = j
      <4>1. i + 1 = j + 1
        BY <3>3, <3>5, <1>4
      <4> QED
        BY <4>1
    <3> QED
      BY <3>2, <3>4, <3>5 DEF TaskQInv
  <2>2. CASE k # l
    <3>1. taskQ'[k] = taskQ[k] /\ TaskQInv(k)
      BY <2>2 DEF TypeOK
    <3>2. \A i \in 1..Len(taskQ[k]) : taskQ[k][i] \in Tasks /\ Lane(taskQ[k][i]) = k
      BY <3>1 DEF TaskQInv, TypeOK
    <3>3. \A i \in 1..Len(taskQ[k]) : taskQ[k][i] \in Tasks \ {t}
      BY <3>2, <1>5, <2>2
    <3> QED
      BY <3>1, <3>3 DEF TaskQInv
  <2> QED
    BY <2>1, <2>2
<1> QED
  BY <1>2, <1>5, <1>6, <1>7

\* AcceptTask, as it always happens: the ledger does not know the identity.
LEMMA AcceptTaskFacts ==
    ASSUME RecordsInv, NEW l \in Lanes, AcceptTask(l)
    PROVE  LET t == Head(taskQ[l]) IN
           /\ t \in Tasks /\ Lane(t) = l /\ runs[t] = 0 /\ decision[t] = None
           /\ state[t] = "AwaitResult"
           /\ runs' = [runs EXCEPT ![t] = 1]
           /\ ExecuteAttempt(t, 1)
           /\ taskQ' \in [Lanes -> Seq(Tasks)]
           /\ \A k \in Lanes : TaskQInv(k)'
           /\ UNCHANGED <<owner, ctlQ, acked, legacy, handed>>
<1> DEFINE t == Head(taskQ[l])
<1> USE DEF RecordsInv
<1>1. /\ taskQ[l] # <<>>
      /\ taskQ' = [taskQ EXCEPT ![l] = Tail(@)]
      /\ IF entry[t] = "absent"
           THEN runs' = [runs EXCEPT ![t] = @ + 1] /\ ExecuteAttempt(t, 1) /\ acked' = acked
           ELSE runs' = runs
      /\ UNCHANGED <<owner, ctlQ, legacy, handed>>
  BY DEF AcceptTask
<1>2. state' = state
  BY <1>1 DEF owner, record
<1>3. \A u \in Tasks \ {t} : runs'[u] = runs[u]
  BY <1>1 DEF TypeOK
<1>4. /\ t \in Tasks /\ Lane(t) = l /\ runs[t] = 0 /\ state[t] = "AwaitResult"
      /\ taskQ' \in [Lanes -> Seq(Tasks)]
      /\ \A k \in Lanes : TaskQInv(k)'
  BY <1>1, <1>2, <1>3, PopTask
<1>5. entry[t] = "absent" /\ decision[t] = None
  BY <1>4 DEF ChannelInv
<1>a. runs' = [runs EXCEPT ![t] = runs[t] + 1]
  BY <1>1, <1>5
<1>b. runs[t] + 1 = 1
  BY <1>4
<1>6. runs' = [runs EXCEPT ![t] = 1]
  BY <1>a, <1>b
<1>7. ExecuteAttempt(t, 1) /\ UNCHANGED <<owner, ctlQ, acked, legacy, handed>>
  BY <1>1, <1>5
<1> QED
  BY <1>4, <1>5, <1>6, <1>7

\* Taking a task off the queue and running it (mysqlLoop, redisLoop) keeps the invariant.
LEMMA AcceptTaskInv ==
    ASSUME RecordsInv, NEW l \in Lanes, AcceptTask(l)
    PROVE  RecordsInv'
<1>0. Head(taskQ[l]) \in Tasks
  BY AcceptTaskFacts
<1> PICK t \in Tasks : t = Head(taskQ[l])
  BY <1>0
<1>1. /\ t \in Tasks /\ Lane(t) = l /\ runs[t] = 0 /\ decision[t] = None
      /\ state[t] = "AwaitResult"
      /\ runs' = [runs EXCEPT ![t] = 1]
      /\ ExecuteAttempt(t, 1)
      /\ taskQ' \in [Lanes -> Seq(Tasks)]
      /\ \A k \in Lanes : TaskQInv(k)'
      /\ UNCHANGED <<owner, ctlQ, acked, legacy, handed>>
  BY AcceptTaskFacts
<1> USE DEF RecordsInv
<1>2. TypeOK /\ Truthful(t) /\ 1 \in Nat \ {0} /\ \A k \in Lanes : ResQInv(k)
  BY <1>1
<1>3. Attempted(t)
  BY <1>1, <1>2, AttemptFacts
<1>4. UNCHANGED <<issued, state, ackPending, observed, received, active>>
  BY <1>1 DEF owner, record
<1>5. /\ handed[t] = 0 /\ Routable(t) /\ ~acked[t]
      /\ \A u \in Tasks : runs'[u] = IF u = t THEN 1 ELSE runs[u]
  BY <1>1 DEF OwnerInv, ChannelInv, TypeOK, None
<1>6. TypeOK'
  BY <1>1, <1>3, <1>4 DEF TypeOK, Attempted
<1>7. ActiveIndexExact'
  BY <1>4 DEF ActiveIndexExact, NeedsScheduling
<1>8. \A u \in Tasks : Truthful(u)' /\ OwnerInv(u)' /\ ChannelInv(u)'
  <2> SUFFICES ASSUME NEW u \in Tasks PROVE Truthful(u)' /\ OwnerInv(u)' /\ ChannelInv(u)'
    OBVIOUS
  <2>1. CASE u = t
    <3>1. Truthful(t)'
      BY <1>3 DEF Attempted
    <3>2. \/ entry'[t] = "processing" /\ retry'[t] > 0 /\ decision'[t] = None
          \/ entry'[t] = "ready" /\ retry'[t] = 0 /\ decision'[t] # None /\ result'[t] = decision'[t]
      BY <1>3 DEF Attempted
    <3>3. OwnerInv(t)'
      BY <1>1, <1>4, <1>5 DEF OwnerInv, None, Routable
    <3>4. ChannelInv(t)'
      BY <3>2, <1>1, <1>5 DEF ChannelInv, Routable
    <3> QED
      BY <2>1, <3>1, <3>3, <3>4
  <2>2. CASE u # t
    <3>1. /\ entry'[u] = entry[u] /\ result'[u] = result[u] /\ retry'[u] = retry[u]
          /\ decision'[u] = decision[u] /\ effects'[u] = effects[u]
      BY <1>3, <2>2 DEF Attempted
    <3> QED
      BY <2>2, <3>1, <1>1, <1>4, <1>5 DEF Truthful, OwnerInv, ChannelInv
  <2> QED
    BY <2>1, <2>2
<1>11. \A k \in Lanes : CtlQInv(k)'
  BY <1>1 DEF CtlQInv
<1> QED
  BY <1>1, <1>3, <1>6, <1>7, <1>8, <1>11 DEF Attempted

\* Running a rolled-back transaction again (TransactionRetries::tick) keeps the invariant.
LEMMA RetryInv ==
    ASSUME RecordsInv, NEW t \in Tasks, Retry(t)
    PROVE  RecordsInv'
<1> USE DEF RecordsInv
<1>1. /\ retry[t] > 0 /\ ExecuteAttempt(t, retry[t] + 1)
      /\ UNCHANGED <<owner, taskQ, ctlQ, acked, legacy, runs, handed>>
  BY DEF Retry
<1>2. /\ entry[t] = "processing" /\ decision[t] = None /\ runs[t] = 1 /\ handed[t] = 0
      /\ state[t] # "Completed" /\ ~acked[t]
  BY <1>1 DEF ChannelInv, OwnerInv
<1>3. Attempted(t)
  <2>1. TypeOK /\ Truthful(t) /\ retry[t] + 1 \in Nat \ {0} /\ \A k \in Lanes : ResQInv(k)
    <3>1. retry[t] \in 0..MaxAttempts - 1 /\ MaxAttempts \in Nat
      BY BoundsAssumption DEF TypeOK
    <3>2. retry[t] + 1 \in Nat \ {0}
      BY <3>1
    <3> QED
      BY <3>2
  <2> QED
    BY <1>1, <1>2, <2>1, AttemptFacts
<1>4. UNCHANGED <<issued, state, ackPending, observed, received, active>>
  BY <1>1 DEF owner, record
<1>6. TypeOK'
  BY <1>1, <1>3, <1>4 DEF TypeOK, Attempted
<1>7. ActiveIndexExact'
  BY <1>4 DEF ActiveIndexExact, NeedsScheduling
<1>8. \A u \in Tasks : Truthful(u)' /\ OwnerInv(u)' /\ ChannelInv(u)'
  <2> SUFFICES ASSUME NEW u \in Tasks PROVE Truthful(u)' /\ OwnerInv(u)' /\ ChannelInv(u)'
    OBVIOUS
  <2>1. CASE u = t
    <3>1. Truthful(t)'
      BY <1>3 DEF Attempted
    <3>2. \/ entry'[t] = "processing" /\ retry'[t] > 0 /\ decision'[t] = None
          \/ entry'[t] = "ready" /\ retry'[t] = 0 /\ decision'[t] # None /\ result'[t] = decision'[t]
      BY <1>3 DEF Attempted
    <3> QED
      BY <2>1, <3>1, <3>2, <1>1, <1>2, <1>4 DEF OwnerInv, ChannelInv, None
  <2>2. CASE u # t
    <3>1. /\ entry'[u] = entry[u] /\ result'[u] = result[u] /\ retry'[u] = retry[u]
          /\ decision'[u] = decision[u] /\ effects'[u] = effects[u]
      BY <1>3, <2>2 DEF Attempted
    <3> QED
      BY <2>2, <3>1, <1>1, <1>2, <1>4 DEF Truthful, OwnerInv, ChannelInv
  <2> QED
    BY <2>1, <2>2
<1>9. \A k \in Lanes : TaskQInv(k)' /\ CtlQInv(k)'
  BY <1>1, <1>4 DEF TaskQInv, CtlQInv
<1> QED
  BY <1>3, <1>6, <1>7, <1>8, <1>9 DEF Attempted

\* Sending a stored result (flush) keeps the invariant.
LEMMA FlushResultInv ==
    ASSUME RecordsInv, NEW t \in Tasks, FlushResult(t)
    PROVE  RecordsInv'
<1> USE DEF RecordsInv
<1>1. /\ entry[t] = "ready"
      /\ resQ' = [resQ EXCEPT ![Lane(t)] = Append(@, ResultMsg(t, result[t]))]
      /\ UNCHANGED <<owner, taskQ, ctlQ, ledger, history>>
  BY DEF FlushResult
<1>2. decision' = decision /\ handed' = handed /\ runs' = runs /\ effects' = effects
  BY <1>1 DEF history
<1>3. /\ decision[t] # None /\ result[t] = decision[t] /\ result[t] \in ResultClass
  BY <1>1 DEF ChannelInv, TypeOK
<1>4. ResultMsg(t, result[t]) \in Messages /\ ResultMsg(t, result[t]).task = t
      /\ ResultMsg(t, result[t]).class = result[t]
  BY <1>3 DEF ResultMsg, Messages
<1>5. resQ' \in [Lanes -> Seq(Messages)] /\ \A k \in Lanes : ResQInv(k)'
  BY <1>1, <1>2, <1>3, <1>4, AppendMessage
<1>6. TypeOK' /\ ActiveIndexExact'
  BY <1>1, <1>2, <1>5 DEF TypeOK, ActiveIndexExact, NeedsScheduling, owner, record, ledger
<1>7. \A u \in Tasks : Truthful(u)' /\ ChannelInv(u)' /\ OwnerInv(u)'
  BY <1>1, <1>2 DEF Truthful, ChannelInv, OwnerInv, owner, record, ledger
<1>8. \A k \in Lanes : TaskQInv(k)' /\ CtlQInv(k)'
  BY <1>1, <1>2 DEF TaskQInv, CtlQInv, owner, record
<1> QED
  BY <1>5, <1>6, <1>7, <1>8

\* Sending a status notice (flush) keeps the invariant.
LEMMA FlushNoticeInv ==
    ASSUME RecordsInv, NEW t \in Tasks, FlushNotice(t)
    PROVE  RecordsInv'
<1> USE DEF RecordsInv
<1> DEFINE s == Head(legacy[t])
<1>1. /\ legacy[t] # <<>>
      /\ resQ' = [resQ EXCEPT ![Lane(t)] = Append(@, StatusMsg(t, s))]
      /\ legacy' = [legacy EXCEPT ![t] = Tail(@)]
      /\ UNCHANGED <<owner, taskQ, ctlQ, entry, acked, result, retry, history>>
  BY DEF FlushNotice
<1>2. decision' = decision /\ handed' = handed /\ runs' = runs /\ effects' = effects
  BY <1>1 DEF history
<1>3. s \in 0..2 /\ Tail(legacy[t]) \in Seq(0..2)
  BY <1>1, TailElements DEF TypeOK
<1> HIDE DEF s
<1>4. StatusMsg(t, s) \in Messages /\ StatusMsg(t, s).task = t /\ StatusMsg(t, s).type = "status"
  BY <1>3 DEF StatusMsg, Messages
<1>5. resQ' \in [Lanes -> Seq(Messages)] /\ \A k \in Lanes : ResQInv(k)'
  BY <1>1, <1>2, <1>4, AppendMessage
<1>6. TypeOK' /\ ActiveIndexExact'
  BY <1>1, <1>2, <1>3, <1>5 DEF TypeOK, ActiveIndexExact, NeedsScheduling, owner, record
<1>7. \A u \in Tasks : Truthful(u)' /\ ChannelInv(u)' /\ OwnerInv(u)'
  BY <1>1, <1>2 DEF Truthful, ChannelInv, OwnerInv, owner, record
<1>8. \A k \in Lanes : TaskQInv(k)' /\ CtlQInv(k)'
  BY <1>1, <1>2 DEF TaskQInv, CtlQInv, owner, record
<1> QED
  BY <1>5, <1>6, <1>7, <1>8

\* Popping a control keeps the control queues' invariant; an ACK popped is for
\* a result already handed over.
LEMMA PopControlFacts ==
    ASSUME TypeOK, \A k \in Lanes : CtlQInv(k), NEW l \in Lanes, ctlQ[l] # <<>>,
           ctlQ' = [ctlQ EXCEPT ![l] = Tail(@)], handed' = handed
    PROVE  /\ Head(ctlQ[l]) \in Controls
           /\ Head(ctlQ[l]).task \in Tasks
           /\ Head(ctlQ[l]).kind = 1 => handed[Head(ctlQ[l]).task] = 1
           /\ ctlQ' \in [Lanes -> Seq(Controls)]
           /\ \A k \in Lanes : CtlQInv(k)'
<1> DEFINE q == ctlQ[l]
<1>1. q \in Seq(Controls)
  BY DEF TypeOK
<1>2. /\ Tail(q) \in Seq(Controls)
      /\ Len(q) \in Nat \ {0}
      /\ Len(Tail(q)) = Len(q) - 1
      /\ \A i \in 1..(Len(q) - 1) : Tail(q)[i] = q[i + 1]
      /\ Head(q) = q[1]
      /\ Head(q) \in Controls
  BY <1>1, TailElements
<1>3. \A j \in 1..Len(q) : q[j].kind = 1 => handed[q[j].task] = 1
  BY DEF CtlQInv
<1>4. Head(q).task \in Tasks /\ (Head(q).kind = 1 => handed[Head(q).task] = 1)
  BY <1>2, <1>3 DEF Controls
<1>5. ctlQ' \in [Lanes -> Seq(Controls)]
  BY <1>2 DEF TypeOK
<1>6. ASSUME NEW k \in Lanes PROVE CtlQInv(k)'
  <2>1. CASE k = l
    <3>1. ctlQ'[k] = Tail(q)
      BY <2>1 DEF TypeOK
    <3>2. 1..Len(ctlQ'[k]) = 1..(Len(q) - 1)
      BY <3>1, <1>2
    <3>3. ASSUME NEW i \in 1..(Len(q) - 1)
          PROVE  i + 1 \in 1..Len(q) /\ ctlQ'[k][i] = q[i + 1]
      <4>1. i + 1 \in 1..Len(q)
        BY <1>2
      <4>2. Tail(q)[i] = q[i + 1]
        BY <1>2
      <4> QED
        BY <3>1, <4>1, <4>2
    <3>4. \A i \in 1..Len(ctlQ'[k]) : ctlQ'[k][i].kind = 1 => handed'[ctlQ'[k][i].task] = 1
      BY <1>3, <3>2, <3>3
    <3> QED
      BY <3>4 DEF CtlQInv
  <2>2. CASE k # l
    <3>1. ctlQ'[k] = ctlQ[k]
      BY <2>2 DEF TypeOK
    <3> QED
      BY <3>1 DEF CtlQInv
  <2> QED
    BY <2>1, <2>2
<1> QED
  BY <1>2, <1>4, <1>5, <1>6

\* Handling an ACK (handleControl) keeps the invariant.
LEMMA HandleAckInv ==
    ASSUME RecordsInv, NEW l \in Lanes, HandleAck(l)
    PROVE  RecordsInv'
<1> USE DEF RecordsInv
<1> DEFINE t == Head(ctlQ[l]).task
<1>1. /\ ctlQ[l] # <<>> /\ Head(ctlQ[l]).kind = 1
      /\ ctlQ' = [ctlQ EXCEPT ![l] = Tail(@)]
      /\ acked' = IF entry[t] = "ready" THEN [acked EXCEPT ![t] = TRUE] ELSE acked
      /\ UNCHANGED <<owner, taskQ, resQ, entry, result, legacy, retry, history>>
  BY DEF HandleAck, PopControl
<1>2. decision' = decision /\ handed' = handed /\ runs' = runs /\ effects' = effects
  BY <1>1 DEF history
<1>3. /\ t \in Tasks /\ handed[t] = 1
      /\ ctlQ' \in [Lanes -> Seq(Controls)]
      /\ \A k \in Lanes : CtlQInv(k)'
  BY <1>1, <1>2, PopControlFacts
<1> HIDE DEF t
<1>4. TypeOK' /\ ActiveIndexExact'
  BY <1>1, <1>2, <1>3 DEF TypeOK, ActiveIndexExact, NeedsScheduling, owner, record
<1>5. \A u \in Tasks : Truthful(u)' /\ OwnerInv(u)'
  BY <1>1, <1>2 DEF Truthful, OwnerInv, owner, record
<1>6. \A u \in Tasks : ChannelInv(u)'
  BY <1>1, <1>2, <1>3 DEF ChannelInv, TypeOK
<1>7. \A k \in Lanes : TaskQInv(k)' /\ ResQInv(k)'
  BY <1>1, <1>2 DEF TaskQInv, ResQInv, owner, record
<1> QED
  BY <1>3, <1>4, <1>5, <1>6, <1>7

\* Handling a status query (processControls) keeps the invariant.
LEMMA HandleQueryInv ==
    ASSUME RecordsInv, NEW l \in Lanes, HandleQuery(l)
    PROVE  RecordsInv'
<1> USE DEF RecordsInv
<1> DEFINE t == Head(ctlQ[l]).task
<1>1. /\ ctlQ[l] # <<>>
      /\ ctlQ' = [ctlQ EXCEPT ![l] = Tail(@)]
      /\ acked' = IF entry[t] # "absent" THEN [acked EXCEPT ![t] = FALSE] ELSE acked
      /\ \/ legacy' = legacy
         \/ legacy' = [legacy EXCEPT ![t] = Append(@, Status(t))]
      /\ UNCHANGED <<owner, taskQ, resQ, entry, result, retry, history>>
  BY DEF HandleQuery, PopControl
<1>2. decision' = decision /\ handed' = handed /\ runs' = runs /\ effects' = effects
  BY <1>1 DEF history
<1>3. /\ t \in Tasks
      /\ ctlQ' \in [Lanes -> Seq(Controls)]
      /\ \A k \in Lanes : CtlQInv(k)'
  BY <1>1, <1>2, PopControlFacts
<1> HIDE DEF t
<1>4. legacy' \in [Tasks -> Seq(0..2)]
  <2>1. Status(t) \in 0..2
    BY DEF Status
  <2>2. legacy \in [Tasks -> Seq(0..2)] /\ legacy[t] \in Seq(0..2)
    BY <1>3 DEF TypeOK
  <2>3. Append(legacy[t], Status(t)) \in Seq(0..2)
    BY <2>1, <2>2, AppendElements
  <2> HIDE DEF Status
  <2> QED
    BY <1>1, <1>3, <2>2, <2>3
<1>5. TypeOK' /\ ActiveIndexExact'
  BY <1>1, <1>2, <1>3, <1>4 DEF TypeOK, ActiveIndexExact, NeedsScheduling, owner, record
<1>6. \A u \in Tasks : Truthful(u)' /\ OwnerInv(u)'
  BY <1>1, <1>2 DEF Truthful, OwnerInv, owner, record
<1>7. \A u \in Tasks : ChannelInv(u)'
  BY <1>1, <1>2, <1>3 DEF ChannelInv, TypeOK
<1>8. \A k \in Lanes : TaskQInv(k)' /\ ResQInv(k)'
  BY <1>1, <1>2 DEF TaskQInv, ResQInv, owner, record
<1> QED
  BY <1>3, <1>4, <1>5, <1>6, <1>7, <1>8

-----------------------------------------------------------------------------
(* The theorems *)

\* The submissions of PendingDbTasks::submit, with or without room.
LEMMA SubmitAnyInv ==
    ASSUME RecordsInv, NEW t \in Tasks,
           SubmitWithRoom(t) \/ SubmitReclaiming(t) \/ SubmitRefused(t)
    PROVE  RecordsInv'
<1>1. CASE SubmitWithRoom(t)
  <2>1. t \notin issued /\ Submit(t, {}) /\ {} \in SUBSET Tasks /\ \A u \in {} : Reclaimable(u)
    BY <1>1 DEF SubmitWithRoom
  <2> QED
    BY <2>1, SubmitInv
<1>2. CASE SubmitReclaiming(t)
  <2>1. PICK u \in Registered(Owner[t]) : Reclaimable(u) /\ Submit(t, {u}) /\ t \notin issued
    BY <1>2 DEF SubmitReclaiming
  <2>2. {u} \in SUBSET Tasks /\ \A x \in {u} : Reclaimable(x)
    BY <2>1 DEF Registered
  <2> QED
    BY <2>1, <2>2, SubmitInv
<1>3. CASE SubmitRefused(t)
  BY <1>3, SubmitRefusedInv
<1> QED
  BY <1>1, <1>2, <1>3

\* Every step keeps the invariant.
LEMMA InvNext == RecordsInv /\ [Next]_vars => RecordsInv'
<1> SUFFICES ASSUME RecordsInv, [Next]_vars PROVE RecordsInv'
  OBVIOUS
<1>1. CASE UNCHANGED vars
  <2>1. UNCHANGED <<issued, state, ackPending, observed, received, active, taskQ, ctlQ, resQ,
                    entry, acked, result, legacy, retry, runs, decision, effects, handed>>
    BY <1>1 DEF vars, owner, record, queues, ledger, history
  <2>2. TypeOK' /\ ActiveIndexExact'
    BY <2>1 DEF RecordsInv, TypeOK, ActiveIndexExact, NeedsScheduling
  <2>3. \A u \in Tasks : Truthful(u)' /\ OwnerInv(u)' /\ ChannelInv(u)'
    BY <2>1 DEF RecordsInv, Truthful, OwnerInv, ChannelInv
  <2>4. \A k \in Lanes : TaskQInv(k)' /\ CtlQInv(k)' /\ ResQInv(k)'
    BY <2>1 DEF RecordsInv, TaskQInv, CtlQInv, ResQInv
  <2> QED
    BY <2>2, <2>3, <2>4 DEF RecordsInv
<1>2. ASSUME NEW t \in Tasks, OwnerStep(t) PROVE RecordsInv'
  BY <1>2, SubmitAnyInv, TickInv, SendAckInv, SendQueryInv DEF OwnerStep
<1>3. ASSUME NEW t \in Tasks, LedgerStep(t) PROVE RecordsInv'
  BY <1>3, EvictInv, RetryInv, FlushResultInv, FlushNoticeInv DEF LedgerStep
<1>4. ASSUME NEW l \in Lanes, ReceiveStep(l) PROVE RecordsInv'
  BY <1>4, CompleteInv, AcknowledgeDuplicateInv, DropStaleInv, ObserveStatusInv DEF ReceiveStep
<1>5. ASSUME NEW l \in Lanes, ChannelStep(l) PROVE RecordsInv'
  BY <1>5, AcceptTaskInv, HandleAckInv, HandleQueryInv DEF ChannelStep
<1> QED
  BY <1>1, <1>2, <1>3, <1>4, <1>5 DEF Next

-----------------------------------------------------------------------------
(* The order of the controls, and the tasks that are waited for *)

\* Every queued control names a task (DbControl).
LEMMA ControlTask ==
    ASSUME NEW q \in Seq(Controls), NEW i \in 1..Len(q)
    PROVE  q[i].task \in Tasks
<1>1. q[i] \in Controls
  OBVIOUS
<1> QED
  BY <1>1 DEF Controls

\* Controls that stay where they are, with no more entries acknowledged.
LEMMA OrderShrinks ==
    ASSUME TypeOK, \A l \in Lanes : ControlsInOrder(l), ctlQ' = ctlQ,
           \A u \in Tasks : acked'[u] => acked[u]
    PROVE  \A l \in Lanes : ControlsInOrder(l)'
<1>1. ASSUME NEW l \in Lanes PROVE ControlsInOrder(l)'
  <2>1. PICK q : q = ctlQ[l]
    OBVIOUS
  <2>2. q \in Seq(Controls) /\ ctlQ'[l] = q
    BY <2>1 DEF TypeOK
  <2>3. \A i \in 1..Len(q) : q[i].task \in Tasks
    BY <2>2, ControlTask
  <2> QED
    BY <2>1, <2>2, <2>3 DEF ControlsInOrder
<1> QED
  BY <1>1

\* A lane that keeps its controls keeps their order.
LEMMA OrderKept ==
    ASSUME NEW l \in Lanes, ControlsInOrder(l), ctlQ'[l] = ctlQ[l], acked' = acked
    PROVE  ControlsInOrder(l)'
BY DEF ControlsInOrder

\* A control sent into its lane (sendControl): a query only while no ACK was sent.
LEMMA OrderAppend ==
    ASSUME TypeOK, \A l \in Lanes : ControlsInOrder(l), NEW t \in Tasks, NEW kind \in {1, 2},
           ctlQ' = [ctlQ EXCEPT ![Lane(t)] = Append(@, Control(t, kind))], acked' = acked,
           kind = 2 => ~acked[t],
           kind = 2 => \A l \in Lanes : \A i \in 1..Len(ctlQ[l]) : ctlQ[l][i].task = t => ctlQ[l][i].kind # 1
    PROVE  \A l \in Lanes : ControlsInOrder(l)'
<1>1. Control(t, kind) \in Controls /\ Control(t, kind).task = t /\ Control(t, kind).kind = kind
  BY DEF Control, Controls
<1>2. ASSUME NEW l \in Lanes, l = Lane(t) PROVE ControlsInOrder(l)'
  <2>1. PICK q : q = ctlQ[l]
    OBVIOUS
  <2>2. PICK p : p = ctlQ'[l]
    OBVIOUS
  <2>3. p = Append(q, Control(t, kind)) /\ q \in Seq(Controls)
    BY <1>2, <2>1, <2>2 DEF TypeOK
  <2>4. PICK n : n = Len(q)
    OBVIOUS
  <2>5. /\ n \in Nat /\ Len(p) = n + 1 /\ p[n + 1] = Control(t, kind)
        /\ \A i \in 1..n : p[i] = q[i]
    BY <1>1, <2>3, <2>4, AppendElements
  <2>6. \A i \in 1..Len(p) : i \in 1..n \/ i = n + 1
    BY <2>5
  <2>7. \A i \in 1..n : /\ Lane(q[i].task) = l
                        /\ acked[q[i].task] => q[i].kind = 1
                        /\ \A j \in 1..n : (j < i /\ q[j].task = q[i].task /\ q[j].kind = 1) => q[i].kind = 1
    BY <2>1, <2>4 DEF ControlsInOrder
  <2>8. kind = 2 => \A i \in 1..n : q[i].task = t => q[i].kind # 1
    BY <2>1, <2>4
  <2>9. ASSUME NEW i \in 1..Len(p)
        PROVE  /\ Lane(p[i].task) = l
               /\ acked'[p[i].task] => p[i].kind = 1
               /\ \A j \in 1..Len(p) : (j < i /\ p[j].task = p[i].task /\ p[j].kind = 1) => p[i].kind = 1
    <3>1. CASE i \in 1..n
      <4>1. p[i] = q[i] /\ \A j \in 1..Len(p) : j < i => j \in 1..n /\ p[j] = q[j]
        BY <2>5, <3>1
      <4> QED
        BY <2>7, <3>1, <4>1
    <3>2. CASE i = n + 1
      <4>1. p[i] = Control(t, kind) /\ \A j \in 1..Len(p) : j < i => j \in 1..n /\ p[j] = q[j]
        BY <2>5, <3>2
      <4> QED
        BY <1>1, <1>2, <2>8, <4>1
    <3> QED
      BY <2>6, <3>1, <3>2
  <2> QED
    BY <2>2, <2>9 DEF ControlsInOrder
<1>3. ASSUME NEW l \in Lanes, l # Lane(t) PROVE ControlsInOrder(l)'
  <2>1. ctlQ'[l] = ctlQ[l]
    BY <1>3 DEF TypeOK
  <2> QED
    BY <2>1, OrderKept
<1> QED
  BY <1>2, <1>3

\* The head of a lane is taken; an ACK may acknowledge its entry.
LEMMA OrderPop ==
    ASSUME TypeOK, \A k \in Lanes : ControlsInOrder(k), NEW l \in Lanes, ctlQ[l] # <<>>,
           ctlQ' = [ctlQ EXCEPT ![l] = Tail(@)],
           \A u \in Tasks : acked'[u] => acked[u] \/ (u = Head(ctlQ[l]).task /\ Head(ctlQ[l]).kind = 1)
    PROVE  \A k \in Lanes : ControlsInOrder(k)'
<1>1. PICK q : q = ctlQ[l]
  OBVIOUS
<1>2. PICK n : n = Len(q)
  OBVIOUS
<1>3. /\ q \in Seq(Controls) /\ n \in Nat \ {0} /\ Len(Tail(q)) = n - 1 /\ Head(q) = q[1]
      /\ \A i \in 1..(n - 1) : Tail(q)[i] = q[i + 1]
  BY <1>1, <1>2, TailElements DEF TypeOK
<1>4. \A i \in 1..n : /\ Lane(q[i].task) = l
                      /\ acked[q[i].task] => q[i].kind = 1
                      /\ \A j \in 1..n : (j < i /\ q[j].task = q[i].task /\ q[j].kind = 1) => q[i].kind = 1
  BY <1>1, <1>2 DEF ControlsInOrder
<1>5. \A i \in 1..n : q[i].task \in Tasks
  BY <1>2, <1>3, ControlTask
<1>6. ControlsInOrder(l)'
  <2>1. PICK p : p = ctlQ'[l]
    OBVIOUS
  <2>2. p = Tail(q)
    BY <1>1, <2>1 DEF TypeOK
  <2>3. ASSUME NEW i \in 1..Len(p)
        PROVE  /\ Lane(p[i].task) = l
               /\ acked'[p[i].task] => p[i].kind = 1
               /\ \A j \in 1..Len(p) : (j < i /\ p[j].task = p[i].task /\ p[j].kind = 1) => p[i].kind = 1
    <3>1. PICK k : k = i + 1
      OBVIOUS
    <3>2. k \in 1..n /\ 1 \in 1..n /\ 1 < k /\ p[i] = q[k]
      BY <1>3, <2>2, <3>1
    <3>3. \A j \in 1..Len(p) : j < i => j + 1 \in 1..n /\ j + 1 < k /\ p[j] = q[j + 1]
      BY <1>3, <2>2, <3>1
    <3>4. acked'[q[k].task] => acked[q[k].task] \/ (q[k].task = q[1].task /\ q[1].kind = 1)
      BY <1>1, <1>3, <1>5, <3>2
    <3>5. acked'[p[i].task] => p[i].kind = 1
      BY <1>4, <3>2, <3>4
    <3>6. \A j \in 1..Len(p) : (j < i /\ p[j].task = p[i].task /\ p[j].kind = 1) => p[i].kind = 1
      BY <1>4, <3>2, <3>3
    <3> QED
      BY <1>4, <3>2, <3>5, <3>6
  <2> QED
    BY <2>1, <2>3 DEF ControlsInOrder
<1>7. ASSUME NEW k \in Lanes, k # l PROVE ControlsInOrder(k)'
  <2>1. ctlQ'[k] = ctlQ[k] /\ ctlQ[k] \in Seq(Controls)
    BY <1>7 DEF TypeOK
  <2>2. Lane(Head(q).task) = l
    BY <1>3, <1>4
  <2>3. ASSUME NEW i \in 1..Len(ctlQ[k])
        PROVE  ctlQ[k][i].task \in Tasks /\ ctlQ[k][i].task # Head(q).task
    <3>1. ctlQ[k][i].task \in Tasks
      BY <2>1, ControlTask
    <3>2. Lane(ctlQ[k][i].task) = k
      BY DEF ControlsInOrder
    <3> QED
      BY <1>7, <2>2, <3>1, <3>2
  <2>4. ASSUME NEW i \in 1..Len(ctlQ[k]), acked'[ctlQ[k][i].task] PROVE ctlQ[k][i].kind = 1
    BY <1>1, <2>3, <2>4 DEF ControlsInOrder
  <2> QED
    BY <2>1, <2>4 DEF ControlsInOrder
<1> QED
  BY <1>6, <1>7

\* A step that leaves record, admission and hand-over alone: the task is still awaited.
LEMMA AwaitedSame ==
    ASSUME \A t \in Tasks : Awaited(t), state' = state, runs' = runs, handed' = handed
    PROVE  \A t \in Tasks : Awaited(t)'
BY DEF Awaited

\* Registering a task (submit) sends no control and drops only a record handed over.
LEMMA SubmitOrder ==
    ASSUME DeliveryInv, NEW t \in Tasks, t \notin issued,
           NEW gone \in SUBSET Tasks, \A u \in gone : Reclaimable(u), Submit(t, gone)
    PROVE  (\A u \in Tasks : Awaited(u)') /\ \A l \in Lanes : ControlsInOrder(l)'
<1>1. RecordsInv /\ TypeOK
  BY DEF DeliveryInv, RecordsInv
<1>2. runs[t] = 0 /\ \A u \in gone : handed[u] = 1
  BY <1>1 DEF RecordsInv, OwnerInv, Reclaimable
<1>3. ctlQ' = ctlQ /\ acked' = acked /\ runs' = runs /\ handed' = handed
  BY DEF Submit, ledger, history
<1>4. \A u \in Tasks \ {t} : u \notin gone => state'[u] = state[u]
  BY <1>1 DEF Submit, TypeOK
<1>5. \A u \in Tasks : Awaited(u)'
  BY <1>2, <1>3, <1>4 DEF DeliveryInv, Awaited
<1> QED
  BY <1>1, <1>3, <1>5, OrderShrinks DEF DeliveryInv

\* The owner asks only before it has the result, and acknowledges only after it.
LEMMA OwnerOrder ==
    ASSUME DeliveryInv, NEW t \in Tasks, OwnerStep(t)
    PROVE  (\A u \in Tasks : Awaited(u)') /\ \A l \in Lanes : ControlsInOrder(l)'
<1>1. RecordsInv /\ TypeOK /\ (\A u \in Tasks : Awaited(u)) /\ \A l \in Lanes : ControlsInOrder(l)
  BY DEF DeliveryInv, RecordsInv
<1>2. CASE SubmitWithRoom(t)
  <2>1. t \notin issued /\ Submit(t, {}) /\ {} \in SUBSET Tasks /\ \A u \in {} : Reclaimable(u)
    BY <1>2 DEF SubmitWithRoom
  <2> QED
    BY <2>1, SubmitOrder
<1>3. CASE SubmitReclaiming(t)
  <2>1. PICK u \in Registered(Owner[t]) : Reclaimable(u) /\ Submit(t, {u}) /\ t \notin issued
    BY <1>3 DEF SubmitReclaiming
  <2>2. {u} \in SUBSET Tasks /\ \A x \in {u} : Reclaimable(x)
    BY <2>1 DEF Registered
  <2> QED
    BY <2>1, <2>2, SubmitOrder
<1>4. CASE SubmitRefused(t)
  <2>1. ctlQ' = ctlQ /\ acked' = acked /\ state' = state /\ runs' = runs /\ handed' = handed
    BY <1>4 DEF SubmitRefused, record, queues, ledger, history
  <2> QED
    BY <1>1, <2>1, OrderShrinks, AwaitedSame
<1>5. CASE Tick(t)
  <2>1. ctlQ' = ctlQ /\ acked' = acked /\ runs' = runs /\ handed' = handed
    BY <1>5 DEF Tick, ledger, history
  <2>2. runs[t] = 0 /\ \A u \in Tasks \ {t} : state'[u] = state[u]
    BY <1>1, <1>5 DEF Tick, RecordsInv, OwnerInv, TypeOK
  <2>3. \A u \in Tasks : Awaited(u)'
    BY <1>1, <2>1, <2>2 DEF Awaited
  <2> QED
    BY <1>1, <2>1, <2>3, OrderShrinks
<1>6. CASE SendAck(t)
  <2>1. /\ ctlQ' = [ctlQ EXCEPT ![Lane(t)] = Append(@, Control(t, 1))]
        /\ acked' = acked /\ state' = state /\ runs' = runs /\ handed' = handed
    BY <1>6 DEF SendAck, ledger, history
  <2>2. PICK kind \in {1, 2} : kind = 1
    OBVIOUS
  <2>3. /\ kind # 2 /\ acked' = acked
        /\ ctlQ' = [ctlQ EXCEPT ![Lane(t)] = Append(ctlQ[Lane(t)], Control(t, kind))]
    BY <2>1, <2>2
  <2>4. \A l \in Lanes : ControlsInOrder(l)'
    BY <1>1, <2>3, OrderAppend
  <2> QED
    BY <1>1, <2>1, <2>4, AwaitedSame
<1>7. CASE SendQuery(t)
  <2>1. /\ ctlQ' = [ctlQ EXCEPT ![Lane(t)] = Append(@, Control(t, 2))]
        /\ acked' = acked /\ state' = state /\ runs' = runs /\ handed' = handed
    BY <1>7 DEF SendQuery, owner, record, ledger, history
  <2>2. handed[t] = 0 /\ ~acked[t]
    BY <1>1, <1>7 DEF SendQuery, RecordsInv, OwnerInv, ChannelInv
  <2>3. \A l \in Lanes : \A i \in 1..Len(ctlQ[l]) : ctlQ[l][i].task = t => ctlQ[l][i].kind # 1
    BY <1>1, <2>2 DEF RecordsInv, CtlQInv
  <2> QED
    BY <1>1, <2>1, <2>2, <2>3, OrderAppend, AwaitedSame
<1> QED
  BY <1>2, <1>3, <1>4, <1>5, <1>6, <1>7 DEF OwnerStep

\* Receiving a result or a notice sends nothing but ACKs.
LEMMA ReceiveOrder ==
    ASSUME DeliveryInv, NEW l \in Lanes, ReceiveStep(l)
    PROVE  (\A u \in Tasks : Awaited(u)') /\ \A k \in Lanes : ControlsInOrder(k)'
<1>1. RecordsInv /\ TypeOK /\ (\A u \in Tasks : Awaited(u)) /\ \A k \in Lanes : ControlsInOrder(k)
  BY DEF DeliveryInv, RecordsInv
<1>2. PICK t : t = Head(resQ[l]).task
  OBVIOUS
<1>3. resQ[l] # <<>> /\ resQ' = [resQ EXCEPT ![l] = Tail(@)]
  BY DEF ReceiveStep, Complete, AcknowledgeDuplicate, DropStale, ObserveStatus, Receive
<1>4. t \in Tasks
  <2>1. resQ[l] \in Seq(Messages)
    BY <1>1 DEF TypeOK
  <2>2. Head(resQ[l]) \in Messages
    BY <1>3, <2>1, TailElements
  <2> QED
    BY <1>2, <2>2 DEF Messages
<1>5. CASE Complete(l)
  <2>1. /\ ctlQ' = ctlQ /\ acked' = acked /\ runs' = runs
        /\ handed' = [handed EXCEPT ![t] = @ + 1] /\ state' = [state EXCEPT ![t] = "Completed"]
    BY <1>2, <1>5 DEF Complete, ledger
  <2>2. handed[t] \in Nat /\ handed'[t] # 0
    BY <1>1, <1>4, <2>1 DEF TypeOK
  <2>3. \A u \in Tasks \ {t} : handed'[u] = handed[u] /\ state'[u] = state[u]
    BY <1>1, <2>1 DEF TypeOK
  <2>4. \A u \in Tasks : Awaited(u)'
    BY <1>1, <2>1, <2>2, <2>3 DEF Awaited
  <2> QED
    BY <1>1, <2>1, <2>4, OrderShrinks
<1>6. CASE AcknowledgeDuplicate(l)
  <2>1. /\ ctlQ' = ctlQ \/ ctlQ' = [ctlQ EXCEPT ![Lane(t)] = Append(@, Control(t, 1))]
        /\ acked' = acked /\ state' = state /\ runs' = runs /\ handed' = handed
    BY <1>2, <1>6 DEF AcknowledgeDuplicate, ledger, history
  <2> QED
    BY <1>1, <1>4, <2>1, OrderAppend, OrderShrinks, AwaitedSame
<1>7. CASE DropStale(l) \/ ObserveStatus(l)
  <2>1. ctlQ' = ctlQ /\ acked' = acked /\ state' = state /\ runs' = runs /\ handed' = handed
    BY <1>7 DEF DropStale, ObserveStatus, owner, record, ledger, history
  <2> QED
    BY <1>1, <2>1, OrderShrinks, AwaitedSame
<1> QED
  BY <1>5, <1>6, <1>7 DEF ReceiveStep

\* Eviction, retries and flushes touch no control and acknowledge nothing.
LEMMA LedgerOrder ==
    ASSUME DeliveryInv, NEW t \in Tasks, LedgerStep(t)
    PROVE  (\A u \in Tasks : Awaited(u)') /\ \A l \in Lanes : ControlsInOrder(l)'
<1>1. TypeOK /\ (\A u \in Tasks : Awaited(u)) /\ \A l \in Lanes : ControlsInOrder(l)
  BY DEF DeliveryInv, RecordsInv
<1>2. ctlQ' = ctlQ /\ state' = state /\ runs' = runs /\ handed' = handed
  BY DEF LedgerStep, EvictAcknowledged, Retry, FlushResult, FlushNotice, owner, record, queues, history
<1>3. \A u \in Tasks : acked'[u] => acked[u]
  <2>1. CASE EvictAcknowledged(t)
    BY <1>1, <2>1 DEF EvictAcknowledged, TypeOK
  <2>2. CASE Retry(t) \/ FlushResult(t) \/ FlushNotice(t)
    BY <2>2 DEF Retry, FlushResult, FlushNotice, ledger
  <2> QED
    BY <2>1, <2>2 DEF LedgerStep
<1> QED
  BY <1>1, <1>2, <1>3, OrderShrinks, AwaitedSame

\* The channel takes its controls from the head, and an admitted task is awaited.
LEMMA ChannelOrder ==
    ASSUME DeliveryInv, NEW l \in Lanes, ChannelStep(l)
    PROVE  (\A u \in Tasks : Awaited(u)') /\ \A k \in Lanes : ControlsInOrder(k)'
<1>1. RecordsInv /\ TypeOK /\ (\A u \in Tasks : Awaited(u)) /\ \A k \in Lanes : ControlsInOrder(k)
  BY DEF DeliveryInv, RecordsInv
<1>2. CASE AcceptTask(l)
  <2>1. PICK t : t = Head(taskQ[l])
    OBVIOUS
  <2>2. /\ t \in Tasks /\ state[t] = "AwaitResult" /\ runs' = [runs EXCEPT ![t] = 1]
        /\ UNCHANGED <<owner, ctlQ, acked, legacy, handed>>
    BY <1>1, <1>2, <2>1, AcceptTaskFacts
  <2>3. ctlQ' = ctlQ /\ acked' = acked /\ handed' = handed /\ state' = state
    BY <2>2 DEF owner, record
  <2>4. \A u \in Tasks \ {t} : runs'[u] = runs[u]
    BY <1>1, <2>2 DEF TypeOK
  <2>5. \A u \in Tasks : Awaited(u)'
    BY <1>1, <2>2, <2>3, <2>4 DEF Awaited
  <2> QED
    BY <1>1, <2>3, <2>5, OrderShrinks
<1>3. CASE HandleAck(l) \/ HandleQuery(l)
  <2>1. PICK t : t = Head(ctlQ[l]).task
    OBVIOUS
  <2>2. /\ ctlQ[l] # <<>> /\ ctlQ' = [ctlQ EXCEPT ![l] = Tail(@)]
        /\ state' = state /\ runs' = runs /\ handed' = handed
    BY <1>3 DEF HandleAck, HandleQuery, PopControl, owner, record, history
  <2>3. \A u \in Tasks : acked'[u] => acked[u] \/ (u = Head(ctlQ[l]).task /\ Head(ctlQ[l]).kind = 1)
    <3>1. CASE HandleAck(l)
      BY <1>1, <3>1 DEF HandleAck, PopControl, TypeOK
    <3>2. CASE HandleQuery(l)
      BY <1>1, <3>2 DEF HandleQuery, TypeOK
    <3> QED
      BY <1>3, <3>1, <3>2
  <2> QED
    BY <1>1, <2>2, <2>3, OrderPop, AwaitedSame
<1> QED
  BY <1>2, <1>3 DEF ChannelStep

\* The invariant holds of every behaviour, for any tasks, workers, channels
\* and capacities.
THEOREM Invariance == Spec => []DeliveryInv
<1>1. Init => DeliveryInv
  BY InvInit DEF DeliveryInv, Init, Awaited, ControlsInOrder
<1>2. DeliveryInv /\ [Next]_vars => DeliveryInv'
  <2> SUFFICES ASSUME DeliveryInv, [Next]_vars
               PROVE  (\A u \in Tasks : Awaited(u)') /\ \A l \in Lanes : ControlsInOrder(l)'
    BY InvNext DEF DeliveryInv
  <2>1. CASE UNCHANGED vars
    <3>1. ctlQ' = ctlQ /\ acked' = acked /\ state' = state /\ runs' = runs /\ handed' = handed
      BY <2>1 DEF vars, owner, record, queues, ledger, history
    <3> QED
      BY <3>1, OrderShrinks, AwaitedSame DEF DeliveryInv, RecordsInv
  <2> QED
    BY <2>1, OwnerOrder, ReceiveOrder, LedgerOrder, ChannelOrder DEF Next
<1> QED
  BY <1>1, <1>2, PTL DEF Spec

\* Every variable of the delivery protocol keeps its type.
THEOREM TypeCorrect == Spec => []TypeOK
<1>1. DeliveryInv => TypeOK
  BY DEF DeliveryInv, RecordsInv
<1> QED
  BY <1>1, Invariance, PTL

\* A task runs at most once and takes effect at most once, whatever the
\* queues refuse and however often results and queries are repeated.
THEOREM RunsOnce == Spec => []ExecutedOnce
<1>1. DeliveryInv => ExecutedOnce
  BY DEF DeliveryInv, RecordsInv, Truthful, ChannelInv, ExecutedOnce
<1> QED
  BY <1>1, Invariance, PTL

\* The owner acts on a result at most once.
THEOREM HandsOnce == Spec => []HandedOnce
<1>1. DeliveryInv => HandedOnce
  BY DEF DeliveryInv, RecordsInv, OwnerInv, HandedOnce
<1> QED
  BY <1>1, Invariance, PTL

\* The owner is told what the database did.
THEOREM TellsTruth == Spec => []ResultTruthful
<1>1. DeliveryInv => ResultTruthful
  BY DEF DeliveryInv, RecordsInv, OwnerInv, Truthful, ResultTruthful
<1> QED
  BY <1>1, Invariance, PTL

\* The ledger forgets a task only after its owner acted on the result.
THEOREM ForgetsNothingUnseen == Spec => []ForgottenOnlyWhenHanded
<1>1. DeliveryInv => ForgottenOnlyWhenHanded
  BY DEF DeliveryInv, RecordsInv, ChannelInv, ForgottenOnlyWhenHanded
<1> QED
  BY <1>1, Invariance, PTL

\* The index of schedulable tasks is exact, so the two scheduling policies of
\* PendingDbTasks visit the same work.
THEOREM IndexIsExact == Spec => []ActiveIndexExact
<1>1. DeliveryInv => ActiveIndexExact
  BY DEF DeliveryInv, RecordsInv
<1> QED
  BY <1>1, Invariance, PTL

\* The ledger never meets a task identity twice.
THEOREM AdmitsOnlyNew == Spec => []AdmissionIsNew
<1>1. DeliveryInv => AdmissionIsNew
  <2> SUFFICES ASSUME DeliveryInv, NEW l \in Lanes, NEW i \in 1..Len(taskQ[l])
               PROVE  /\ entry[taskQ[l][i]] = "absent"
                      /\ \A j \in 1..Len(taskQ[l]) : taskQ[l][i] = taskQ[l][j] => i = j
    BY DEF AdmissionIsNew
  <2>1. taskQ[l][i] \in Tasks
    BY DEF DeliveryInv, RecordsInv, TypeOK
  <2>2. runs[taskQ[l][i]] = 0 /\ \A j \in 1..Len(taskQ[l]) : taskQ[l][i] = taskQ[l][j] => i = j
    BY DEF DeliveryInv, RecordsInv, TaskQInv
  <2> QED
    BY <2>1, <2>2 DEF DeliveryInv, RecordsInv, ChannelInv
<1> QED
  BY <1>1, Invariance, PTL


-----------------------------------------------------------------------------
(* An acknowledgement is final *)

\* A query is handled only while its task is unacknowledged (handleControl), and
\* accept meets no known identity: only an eviction clears the mark.
LEMMA AckStep ==
    ASSUME DeliveryInv, [Next]_vars, NEW t \in Tasks, acked[t]
    PROVE  acked'[t] \/ entry'[t] = "absent"
<1>0. RecordsInv /\ TypeOK
  BY DEF DeliveryInv, RecordsInv
<1>1. CASE UNCHANGED vars
  BY <1>1 DEF vars, ledger
<1>2. ASSUME NEW u \in Tasks, OwnerStep(u) PROVE acked' = acked
  BY <1>2 DEF OwnerStep, SubmitWithRoom, SubmitReclaiming, SubmitRefused, Submit, Tick, SendAck, SendQuery, ledger
<1>3. ASSUME NEW u \in Tasks, LedgerStep(u) PROVE acked'[t] \/ entry'[t] = "absent"
  <2>1. CASE EvictAcknowledged(u)
    BY <1>0, <2>1 DEF EvictAcknowledged, TypeOK
  <2>2. CASE Retry(u) \/ FlushResult(u) \/ FlushNotice(u)
    BY <2>2 DEF Retry, FlushResult, FlushNotice, ledger
  <2> QED
    BY <1>3, <2>1, <2>2 DEF LedgerStep
<1>4. ASSUME NEW l \in Lanes, ReceiveStep(l) PROVE acked' = acked
  BY <1>4 DEF ReceiveStep, Complete, AcknowledgeDuplicate, DropStale, ObserveStatus, ledger
<1>5. ASSUME NEW l \in Lanes, ChannelStep(l) PROVE acked'[t]
  <2>1. CASE AcceptTask(l)
    BY <1>0, <2>1, AcceptTaskFacts
  <2>2. CASE HandleAck(l)
    BY <1>0, <2>2 DEF HandleAck, TypeOK
  <2>3. CASE HandleQuery(l)
    <3>1. PICK q : q = ctlQ[l]
      OBVIOUS
    <3>2. q \in Seq(Controls) /\ q # <<>>
      BY <1>0, <2>3, <3>1 DEF HandleQuery, PopControl, TypeOK
    <3>3. 1 \in 1..Len(q) /\ Head(q) = q[1]
      BY <3>2
    <3>4. q[1].task \in Tasks /\ (acked[q[1].task] => q[1].kind = 1)
      BY <3>1, <3>2, <3>3, ControlTask DEF DeliveryInv, ControlsInOrder
    <3>5. q[1].kind = 2
      BY <2>3, <3>1, <3>3 DEF HandleQuery, PopControl
    <3>6. acked' = IF entry[q[1].task] # "absent" THEN [acked EXCEPT ![q[1].task] = FALSE] ELSE acked
      BY <2>3, <3>1, <3>3 DEF HandleQuery
    <3>7. q[1].task # t
      BY <3>4, <3>5
    <3> QED
      BY <1>0, <3>6, <3>7 DEF TypeOK
  <2> QED
    BY <1>5, <2>1, <2>2, <2>3 DEF ChannelStep
<1> QED
  BY <1>1, <1>2, <1>3, <1>4, <1>5 DEF Next

\* Once its result is acknowledged, an entry is never sent again; it can only be forgotten.
THEOREM AckStaysFinal == Spec => AckIsFinal
<1>1. DeliveryInv /\ [Next]_vars => [\A t \in Tasks : acked[t] => (acked'[t] \/ entry'[t] = "absent")]_vars
  BY AckStep
<1> QED
  BY <1>1, Invariance, PTL DEF Spec, AckIsFinal


-----------------------------------------------------------------------------
(* Delivery implements the contract *)

\* A step that leaves every phase and the history alone is a stutter of the contract.
LEMMA ContractStutter ==
    ASSUME \A u \in Tasks : Phase(u)' = Phase(u), decision' = decision, effects' = effects
    PROVE  UNCHANGED Contract!vars
<1>1. [u \in Tasks |-> Phase(u)]' = [u \in Tasks |-> Phase(u)]
  <2>1. [u \in Tasks |-> Phase(u)'] = [u \in Tasks |-> Phase(u)]
    OBVIOUS
  <2> QED
    BY <2>1
<1> QED
  BY <1>1 DEF Contract!vars

\* The phases after a step that moves only t.
LEMMA PhaseMoves ==
    ASSUME NEW t \in Tasks, NEW p, Phase(t)' = p, \A u \in Tasks \ {t} : Phase(u)' = Phase(u)
    PROVE  [u \in Tasks |-> Phase(u)]' = [[u \in Tasks |-> Phase(u)] EXCEPT ![t] = p]
<1>1. [u \in Tasks |-> Phase(u)'] = [[u \in Tasks |-> Phase(u)] EXCEPT ![t] = p]
  OBVIOUS
<1> QED
  BY <1>1

\* Registering a fresh identity (submit) registers it in the contract too; a
\* reclaimed record was handed over, and an unroutable task stays free.
LEMMA SubmitRefines ==
    ASSUME DeliveryInv, NEW t \in Tasks, t \notin issued,
           NEW gone \in SUBSET Tasks, \A u \in gone : Reclaimable(u), Submit(t, gone)
    PROVE  Contract!Register(t) \/ UNCHANGED Contract!vars
<1>0. RecordsInv /\ TypeOK
  BY DEF DeliveryInv, RecordsInv
<1>1. state[t] = None /\ decision[t] = None /\ handed[t] = 0 /\ \A u \in gone : handed[u] = 1
  BY <1>0 DEF RecordsInv, OwnerInv, ChannelInv, Reclaimable
<1>2. decision' = decision /\ effects' = effects /\ handed' = handed
  BY DEF Submit, history
<1>3. t \notin gone
  BY <1>1
<1>4. \A u \in Tasks \ {t} : state'[u] = IF u \in gone THEN None ELSE state[u]
  BY <1>0 DEF Submit, TypeOK
<1>5. \A u \in Tasks \ {t} : Phase(u)' = Phase(u)
  BY <1>1, <1>2, <1>4 DEF Phase
<1>6. Phase(t) = "free"
  BY <1>1 DEF Phase
<1>7. CASE Routable(t)
  <2>1. state'[t] \in {"AwaitResult", "PendingDispatch"}
    BY <1>7 DEF Submit
  <2>2. Phase(t)' = "registered"
    BY <1>1, <1>2, <2>1 DEF Phase, None
  <2>3. [u \in Tasks |-> Phase(u)]' = [[u \in Tasks |-> Phase(u)] EXCEPT ![t] = "registered"]
    BY <1>5, <2>2, PhaseMoves
  <2> QED
    BY <1>2, <1>6, <2>3 DEF Contract!Register
<1>8. CASE ~Routable(t)
  <2>1. state'[t] = None
    BY <1>1, <1>3, <1>8 DEF Submit
  <2>2. Phase(t)' = Phase(t)
    BY <1>1, <1>2, <2>1 DEF Phase
  <2> QED
    BY <1>2, <1>5, <2>2, ContractStutter
<1> QED
  BY <1>7, <1>8

\* An execution decides its task, unless it is rolled back and tried again.
LEMMA AttemptRefines ==
    ASSUME TypeOK, NEW t \in Tasks, Truthful(t), decision[t] = None, handed[t] = 0, state[t] # None,
           state' = state, handed' = handed, NEW attempts, ExecuteAttempt(t, attempts)
    PROVE  Contract!Decide(t) \/ UNCHANGED Contract!vars
<1>1. PICK e \in Executions(t) :
        /\ effects' = [effects EXCEPT ![t] = @ + e[2]]
        /\ IF CanRetry(t, e[1], attempts)
             THEN /\ retry' = [retry EXCEPT ![t] = attempts]
                  /\ entry' = [entry EXCEPT ![t] = "processing"]
                  /\ UNCHANGED <<result, resQ, decision>>
             ELSE /\ retry' = [retry EXCEPT ![t] = 0]
                  /\ ReplyResult(t, e[1])
  BY DEF ExecuteAttempt
<1>2. e[1] # None /\ e[2] \in {0, 1} /\ (e[1] = "retryable" => e[2] = 0)
  BY DEF Executions, None
<1>3. effects[t] = 0
  BY DEF Truthful
<1>4. effects' = [effects EXCEPT ![t] = e[2]]
  <2>1. effects[t] + e[2] = e[2]
    BY <1>2, <1>3
  <2>2. effects' = [effects EXCEPT ![t] = effects[t] + e[2]]
    BY <1>1
  <2> QED
    BY <2>1, <2>2
<1>5. CASE CanRetry(t, e[1], attempts)
  <2>1. decision' = decision /\ e[1] = "retryable"
    BY <1>1, <1>5 DEF CanRetry
  <2>2. effects' = effects
    BY <1>2, <1>3, <1>4, <2>1 DEF TypeOK
  <2>3. \A u \in Tasks : Phase(u)' = Phase(u)
    BY <2>1 DEF Phase
  <2> QED
    BY <2>1, <2>2, <2>3, ContractStutter
<1>6. CASE ~CanRetry(t, e[1], attempts)
  <2>1. decision' = [decision EXCEPT ![t] = e[1]]
    BY <1>1, <1>6 DEF ReplyResult
  <2>2. decision'[t] = e[1] /\ \A u \in Tasks \ {t} : decision'[u] = decision[u]
    BY <2>1 DEF TypeOK
  <2>3. Phase(t) = "registered" /\ Phase(t)' = "decided"
    BY <1>2, <2>2 DEF Phase
  <2>4. \A u \in Tasks \ {t} : Phase(u)' = Phase(u)
    BY <2>2 DEF Phase
  <2>5. [u \in Tasks |-> Phase(u)]' = [[u \in Tasks |-> Phase(u)] EXCEPT ![t] = "decided"]
    BY <2>3, <2>4, PhaseMoves
  <2>6. e \in Contract!Verdicts(t)
    BY DEF Executions, Contract!Verdicts
  <2> QED
    BY <1>4, <2>1, <2>3, <2>5, <2>6 DEF Contract!Decide
<1> QED
  BY <1>5, <1>6

\* The first result of a waiting task (complete) hands its decision over.
LEMMA CompleteRefines ==
    ASSUME DeliveryInv, NEW l \in Lanes, Complete(l)
    PROVE  \E t \in Tasks : Contract!Hand(t)
<1>0. RecordsInv /\ TypeOK
  BY DEF DeliveryInv, RecordsInv
<1>1. PICK q : q = resQ[l]
  OBVIOUS
<1>2. q \in Seq(Messages) /\ q # <<>> /\ Head(q).type = "result"
  BY <1>0, <1>1 DEF Complete, Receive, TypeOK
<1>3. 1 \in 1..Len(q) /\ Head(q) = q[1] /\ q[1] \in Messages
  BY <1>2
<1>4. q[1].task \in Tasks
  BY <1>3 DEF Messages
<1>5. PICK t \in Tasks : t = q[1].task
  BY <1>4
<1>6. decision[t] # None
  BY <1>0, <1>1, <1>2, <1>3, <1>5 DEF RecordsInv, ResQInv
<1>7. /\ state[t] = "AwaitResult" /\ state' = [state EXCEPT ![t] = "Completed"]
      /\ handed' = [handed EXCEPT ![t] = @ + 1] /\ decision' = decision /\ effects' = effects
  BY <1>1, <1>3, <1>5 DEF Complete
<1>8. handed[t] = 0
  BY <1>0, <1>7 DEF RecordsInv, OwnerInv
<1>9. handed'[t] = 1 /\ \A u \in Tasks \ {t} : handed'[u] = handed[u] /\ state'[u] = state[u]
  BY <1>0, <1>7, <1>8 DEF TypeOK
<1>10. Phase(t) = "decided" /\ Phase(t)' = "handed"
  BY <1>6, <1>8, <1>9 DEF Phase
<1>11. \A u \in Tasks \ {t} : Phase(u)' = Phase(u)
  BY <1>7, <1>9 DEF Phase
<1>12. [u \in Tasks |-> Phase(u)]' = [[u \in Tasks |-> Phase(u)] EXCEPT ![t] = "handed"]
  BY <1>10, <1>11, PhaseMoves
<1> QED
  BY <1>7, <1>10, <1>12 DEF Contract!Hand


\* Every step of delivery is a step of the contract or a stutter of it.
LEMMA StepRefines ==
    ASSUME DeliveryInv, [Next]_vars
    PROVE  [Contract!Next]_(Contract!vars)
<1>0. RecordsInv /\ TypeOK
  BY DEF DeliveryInv, RecordsInv
<1>a. ASSUME state' = state, handed' = handed, decision' = decision, effects' = effects
      PROVE  UNCHANGED Contract!vars
  <2>1. \A u \in Tasks : Phase(u)' = Phase(u)
    BY <1>a DEF Phase
  <2> QED
    BY <1>a, <2>1, ContractStutter
<1>1. CASE UNCHANGED vars
  BY <1>1, <1>a DEF vars, owner, record, history
<1>2. ASSUME NEW t \in Tasks, OwnerStep(t) PROVE Contract!Register(t) \/ UNCHANGED Contract!vars
  <2>1. CASE SubmitWithRoom(t)
    BY <2>1, SubmitRefines DEF SubmitWithRoom
  <2>2. CASE SubmitReclaiming(t)
    <3>1. PICK u \in Registered(Owner[t]) : Reclaimable(u) /\ Submit(t, {u})
      BY <2>2 DEF SubmitReclaiming
    <3>2. {u} \in SUBSET Tasks /\ t \notin issued /\ \A v \in {u} : Reclaimable(v)
      BY <2>2, <3>1 DEF SubmitReclaiming, Registered
    <3> QED
      BY <3>1, <3>2, SubmitRefines
  <2>3. CASE Tick(t)
    <3>1. /\ state[t] = "PendingDispatch" /\ state' = [state EXCEPT ![t] = "AwaitResult"]
          /\ handed' = handed /\ decision' = decision /\ effects' = effects
      BY <2>3 DEF Tick, history
    <3>2. state'[t] = "AwaitResult" /\ \A u \in Tasks \ {t} : state'[u] = state[u]
      BY <1>0, <3>1 DEF TypeOK
    <3>3. \A u \in Tasks : Phase(u)' = Phase(u)
      BY <3>1, <3>2 DEF Phase, None
    <3> QED
      BY <3>1, <3>3, ContractStutter
  <2>4. CASE SubmitRefused(t) \/ SendAck(t) \/ SendQuery(t)
    BY <2>4, <1>a DEF SubmitRefused, SendAck, SendQuery, owner, record, history
  <2> QED
    BY <1>2, <2>1, <2>2, <2>3, <2>4 DEF OwnerStep
<1>3. ASSUME NEW t \in Tasks, LedgerStep(t) PROVE Contract!Decide(t) \/ UNCHANGED Contract!vars
  <2>1. CASE Retry(t)
    <3>1. /\ retry[t] > 0 /\ ExecuteAttempt(t, retry[t] + 1)
          /\ state' = state /\ handed' = handed
      BY <2>1 DEF Retry, owner, record
    <3>2. entry[t] = "processing" /\ decision[t] = None /\ runs[t] = 1 /\ handed[t] = 0 /\ Truthful(t)
      BY <1>0, <3>1 DEF RecordsInv, ChannelInv, OwnerInv
    <3>3. state[t] # None
      BY <3>2 DEF DeliveryInv, Awaited, None
    <3> QED
      BY <1>0, <3>1, <3>2, <3>3, AttemptRefines
  <2>2. CASE EvictAcknowledged(t) \/ FlushResult(t) \/ FlushNotice(t)
    BY <2>2, <1>a DEF EvictAcknowledged, FlushResult, FlushNotice, owner, record, history
  <2> QED
    BY <1>3, <2>1, <2>2 DEF LedgerStep
<1>4. ASSUME NEW l \in Lanes, ReceiveStep(l)
      PROVE  (\E t \in Tasks : Contract!Hand(t)) \/ UNCHANGED Contract!vars
  <2>1. CASE Complete(l)
    BY <2>1, CompleteRefines
  <2>2. CASE AcknowledgeDuplicate(l) \/ DropStale(l) \/ ObserveStatus(l)
    BY <2>2, <1>a DEF AcknowledgeDuplicate, DropStale, ObserveStatus, owner, record, history
  <2> QED
    BY <1>4, <2>1, <2>2 DEF ReceiveStep
<1>5. ASSUME NEW l \in Lanes, ChannelStep(l)
      PROVE  (\E t \in Tasks : Contract!Decide(t)) \/ UNCHANGED Contract!vars
  <2>1. CASE AcceptTask(l)
    <3>1. Head(taskQ[l]) \in Tasks
      BY <1>0, <2>1, AcceptTaskFacts
    <3>2. PICK t \in Tasks : t = Head(taskQ[l])
      BY <3>1
    <3>3. /\ decision[t] = None /\ state[t] = "AwaitResult" /\ ExecuteAttempt(t, 1)
          /\ UNCHANGED <<owner, ctlQ, acked, legacy, handed>>
      BY <1>0, <2>1, <3>2, AcceptTaskFacts
    <3>4. state' = state /\ handed' = handed
      BY <3>3 DEF owner, record
    <3>5. Truthful(t) /\ handed[t] = 0 /\ state[t] # None
      BY <1>0, <3>3 DEF RecordsInv, OwnerInv, None
    <3> QED
      BY <1>0, <3>3, <3>4, <3>5, AttemptRefines
  <2>2. CASE HandleAck(l) \/ HandleQuery(l)
    BY <2>2, <1>a DEF HandleAck, HandleQuery, owner, record, history
  <2> QED
    BY <1>5, <2>1, <2>2 DEF ChannelStep
<1> QED
  BY <1>1, <1>2, <1>3, <1>4, <1>5 DEF Next, Contract!Next

\* Queues, ledger, retries and acknowledgements together behave as the contract
\* says: every task is decided once, truthfully, and handed over once.
THEOREM RefinesContract == Spec => ImplementsContractSafely
<1>1. Init => Contract!Init
  <2>1. Init => \A t \in Tasks : Phase(t) = "free"
    BY DEF Init, Phase
  <2> QED
    BY <2>1 DEF Init, None, Contract!Init
<1>2. DeliveryInv /\ [Next]_vars => [Contract!Next]_(Contract!vars)
  BY StepRefines
<1> QED
  BY <1>1, <1>2, Invariance, PTL DEF Spec, ImplementsContractSafely, Contract!SafeSpec
=============================================================================
