---------------------------- MODULE NetAdmission ----------------------------
(***************************************************************************)
(* The scene server's network thread between the gateway connections and   *)
(* the logic workers: GatewayClientIndex (which connection carries which   *)
(* player), WorkerPendingTasks (what a full worker queue made wait), and   *)
(* the NetServer handlers that use them (acceptNewConn, onFrame,           *)
(* handleClose, retryClientNotifications, submitPlayerTask).               *)
(*                                                                         *)
(* The network thread is one sequential process; handlers that send to a   *)
(* worker several times (handleClose, pump) take one step per send, since  *)
(* the workers drain their queues meanwhile.  A reply to the peer matters  *)
(* here only through its failure: a failed write closes the connection in  *)
(* the middle of the handler (the write path is not modelled).  Time       *)
(* is abstract: deadlines rise along a queue, so the expired tasks are the *)
(* business tasks of some prefix of it.  sendToWorker refuses only for     *)
(* backpressure, because workerForPlayerId is always a valid index; the    *)
(* branches for ERROR_CODE_INTERNAL are therefore unreachable and left out.*)
(***************************************************************************)
EXTENDS Integers, Sequences, FiniteSets, SequencesExt, ClientIndex

CONSTANTS
    Players,
    Bindings,         \* ClientData the gateways may send
    NumWorkers,       \* MsgBus::numWorker
    WorkerOf,         \* workerForPlayerId
    Gateways,
    Sizes,            \* sizes of business tasks, in bytes
    InboxCapacity,    \* room of a worker queue (moodycamel, external)
    MaxTasks,         \* Limits::maxBusinessTasks
    MaxBytes,         \* Limits::maxBusinessBytes
    PerWorker,        \* Limits::perWorkerAttempts
    GlobalAttempts,   \* Limits::globalAttempts
    MaxSession,       \* bound: connections 1..MaxSession are ever opened
    MaxWaiting,       \* bound: frames are read while fewer tasks of the worker wait
    MaxOther,         \* bound: messages other threads and links send to workers
    LiveWorkers       \* workers that keep draining their queue (fairness)

Workers == 0..(NumWorkers - 1)
Sessions == 1..MaxSession
ClientData == [player : Players, clientSession : Nat, epoch : Nat \ {0}, gateway : Gateways]

ASSUME WorkersAssumption == NumWorkers \in Nat \ {0} /\ WorkerOf \in [Players -> Workers]
ASSUME BindingsAssumption == Bindings \subseteq ClientData /\ 0 \notin Gateways /\ Gateways \subseteq Nat
ASSUME LimitsAssumption ==
    /\ {InboxCapacity, MaxTasks, MaxBytes, PerWorker, GlobalAttempts} \subseteq Nat \ {0}
    /\ {MaxSession, MaxOther, MaxWaiting} \subseteq Nat
    /\ Sizes \subseteq Nat \ {0}
ASSUME LiveAssumption == LiveWorkers \subseteq Workers

VARIABLES
    conns,          \* sessions of the open connections
    nextSession,
    gatewayOf,      \* Conn::gatewayId; 0: not known yet
    index,          \* GatewayClientIndex (module ClientIndex)
    tasks,          \* WorkerPendingTasks::Queue::tasks, per worker
    stats,          \* Queue::stats, per worker
    cursor,         \* WorkerPendingTasks::cursor_
    pump,           \* where the network thread is in retryClientNotifications
    closing,        \* where it is in handleClose; session 0: not closing
    inbox,          \* worker_queues_
    others,         \* messages not from players so far (bounded)
    view            \* history: what the last lifecycle message a worker popped said

pending == <<tasks, stats>>
links == <<conns, nextSession, gatewayOf>>
vars == <<links, index, pending, cursor, pump, closing, inbox, others, view>>

Idle == [at |-> "idle", worker |-> 0, n |-> 0, tried |-> 0, total |-> 0, rejected |-> <<>>]
NotClosing == [session |-> 0, offline |-> {}]
NoStats == [business |-> 0, bytes |-> 0, lifecycle |-> 0]

Lifecycle(m) == m.kind \in {"online", "offline"}
Message(kind, d, c, size) == [kind |-> kind, data |-> d, session |-> c, size |-> size]
Other == Message("other", NoData, 0, 0)

Messages ==
    {Message(k, d, c, 0) : k \in {"online", "offline"}, d \in Bindings, c \in Sessions}
      \cup {Message("business", d, c, b) : d \in Bindings, c \in Sessions, b \in Sizes}

-----------------------------------------------------------------------------
(* MsgBus::sendToWorker and WorkerPendingTasks.                            *)

Room(w) == Len(inbox[w]) < InboxCapacity

Send(w, m) == inbox' = [inbox EXCEPT ![w] = Append(@, m)]

\* sendToWorker whose result the caller ignores: a full queue drops m.
SendOrDrop(w, m) == IF Room(w) THEN Send(w, m) ELSE UNCHANGED inbox

\* Mutant: accountRemove forgets the bytes.
AccountLosesBytes(s, m, by) ==
    IF Lifecycle(m) THEN [s EXCEPT !.lifecycle = @ + by]
    ELSE [s EXCEPT !.business = @ + by, !.bytes = IF by > 0 THEN @ + m.size ELSE @]


Account(s, m, by) ==
    IF Lifecycle(m)
    THEN [s EXCEPT !.lifecycle = @ + by]
    ELSE [s EXCEPT !.business = @ + by, !.bytes = @ + by * m.size]

\* Mutant: submit tries the worker with business although older tasks wait.
AdmissionOvertakes(w, m) ==
    IF Room(w) /\ (tasks[w] = <<>> \/ ~Lifecycle(m)) THEN "accepted"
    ELSE IF Lifecycle(m) THEN "pending"
    ELSE IF tasks[w] = <<>> \/ stats[w].business >= MaxTasks \/ stats[w].bytes + m.size > MaxBytes
    THEN "busy" ELSE "pending"

\* Mutant: submit refuses lifecycle messages like business ones.
AdmissionRefusesAll(w, m) ==
    IF tasks[w] = <<>> /\ Room(w) THEN "accepted"
    ELSE IF tasks[w] = <<>> \/ stats[w].business >= MaxTasks THEN "busy" ELSE "pending"

\* submit's verdict on m for worker w.
Admission(w, m) ==
    IF tasks[w] = <<>> /\ Room(w) THEN "accepted"
    ELSE IF Lifecycle(m) THEN "pending"
    ELSE IF tasks[w] = <<>> THEN "busy"
    ELSE IF stats[w].business >= MaxTasks THEN "busy"
    ELSE IF stats[w].bytes + m.size > MaxBytes THEN "busy"
    ELSE "pending"

\* WorkerPendingTasks::submit.
Submit(m) ==
    LET w == WorkerOf[m.data.player]
        verdict == Admission(w, m)
    IN
    /\ IF verdict = "accepted" THEN Send(w, m) ELSE UNCHANGED inbox
    /\ IF verdict = "pending"
       THEN /\ tasks' = [tasks EXCEPT ![w] = Append(@, m)]
            /\ stats' = [stats EXCEPT ![w] = Account(@, m, 1)]
       ELSE UNCHANGED pending

\* The entries of s at the positions in K, in order.
Entries(s, K) ==
    LET kept[n \in 0..Len(s)] ==
            IF n = 0 THEN <<>>
            ELSE IF n \in K THEN Append(kept[n - 1], s[n]) ELSE kept[n - 1]
    IN kept[Len(s)]

\* The sizes of the messages of s together.
Bytes(s) ==
    LET sum[n \in 0..Len(s)] == IF n = 0 THEN 0 ELSE sum[n - 1] + s[n].size
    IN sum[Len(s)]

Business(s) == Entries(s, {i \in DOMAIN s : ~Lifecycle(s[i])})

\* Of the positions drop[w] of the pending queue w, those of business tasks.
Gone(w, drop) == {i \in DOMAIN tasks[w] : i \in drop[w] /\ ~Lifecycle(tasks[w][i])}

\* They leave every queue and are accounted for.
RemoveBusiness(drop) ==
    /\ tasks' = [w \in Workers |-> Entries(tasks[w], DOMAIN tasks[w] \ Gone(w, drop))]
    /\ stats' = [w \in Workers |->
                   LET gone == Entries(tasks[w], Gone(w, drop))
                   IN [stats[w] EXCEPT !.business = @ - Len(gone), !.bytes = @ - Bytes(gone)]]

Valid(m) == m.session \in conns /\ Matches(index, m.session, m.data)

-----------------------------------------------------------------------------
Init ==
    /\ conns = {}
    /\ nextSession = 1
    /\ gatewayOf = [c \in Sessions |-> 0]
    /\ index = EmptyIndex(Players, Sessions)
    /\ tasks = [w \in Workers |-> <<>>]
    /\ stats = [w \in Workers |-> NoStats]
    /\ cursor = 0
    /\ pump = Idle
    /\ closing = NotClosing
    /\ inbox = [w \in Workers |-> <<>>]
    /\ others = 0
    /\ view = [p \in Players |-> [data |-> NoData, session |-> 0, online |-> FALSE]]

\* The network thread is between handlers.
AtRest == pump.at = "idle" /\ closing.session = 0

\* A reply to connection c: nothing changes here, or its write fails and
\* handleClose(c) runs before the current handler goes on.
Reply(c) == closing' \in {NotClosing, [session |-> c, offline |-> {}]}

\* acceptNewConn, or connectTo followed by onPeerWritable (which know the
\* gateway beforehand): register the connection, announce it to the least
\* loaded worker.
OpenConn(g) ==
    /\ AtRest
    /\ nextSession <= MaxSession
    /\ conns' = conns \cup {nextSession}
    /\ nextSession' = nextSession + 1
    /\ gatewayOf' = [gatewayOf EXCEPT ![nextSession] = g]
    /\ \E w \in Workers :
         /\ \A v \in Workers : Len(inbox[w]) <= Len(inbox[v])
         /\ SendOrDrop(w, Other)
    /\ UNCHANGED <<index, pending, cursor, pump, closing, others, view>>

\* onFrame, an envelope that is malformed, for another scene, or of a gateway
\* this connection does not belong to: refused with a reply.
RejectFrame(c) ==
    /\ AtRest
    /\ c \in conns
    /\ Reply(c)
    /\ UNCHANGED <<links, index, pending, cursor, pump, inbox, others, view>>

\* onFrame, a player frame with an acceptable envelope.
OnFrame(c, kind, d, size) ==
    /\ AtRest
    /\ c \in conns
    /\ gatewayOf[c] \in {0, d.gateway}
    /\ Len(tasks[WorkerOf[d.player]]) < MaxWaiting
    /\ gatewayOf' = [gatewayOf EXCEPT ![c] = d.gateway]
    /\ LET m == Message(kind, d, c, size)
           known == IF kind = "online" THEN Bindable(index, c, d) ELSE Matches(index, c, d)
       IN
       IF ~known
       THEN UNCHANGED <<index, pending, inbox, closing>>
       ELSE /\ index' = CASE kind = "online" -> Bind(index, c, d)
                          [] kind = "offline" -> Unbind(index, c, d)
                          [] OTHER -> index
            /\ Submit(m)
            /\ IF Admission(WorkerOf[d.player], m) = "busy" THEN Reply(c) ELSE UNCHANGED closing
    /\ UNCHANGED <<conns, nextSession, cursor, pump, others, view>>

\* onFrame, a frame of no player: passed on, or lost when the queue is full.
\* Any other thread's message to a worker has the same effect.
OtherMessage(w) ==
    /\ others < MaxOther
    /\ Room(w)
    /\ others' = others + 1
    /\ Send(w, Other)
    /\ UNCHANGED <<links, index, pending, cursor, pump, closing, view>>

\* handleClose is called for c: hang-up, read error, a protocol limit, an
\* invalid handshake, a write that failed while flushing, MSGTYPE_CLOSE.
Disconnect(c) ==
    /\ AtRest
    /\ c \in conns
    /\ closing' = [session |-> c, offline |-> {}]
    /\ UNCHANGED <<links, index, pending, cursor, pump, inbox, others, view>>

\* handleClose, first half: forget the connection, cancel its business tasks,
\* take its bindings (GatewayClientIndex::Close).
CloseConn ==
    LET c == closing.session IN
    /\ c \in conns
    /\ conns' = conns \ {c}
    /\ RemoveBusiness([w \in Workers |-> {i \in DOMAIN tasks[w] : tasks[w][i].session = c}])
    /\ closing' = [closing EXCEPT !.offline = index.byConn[c]]
    /\ index' = CloseIndex(index, c)
    /\ UNCHANGED <<nextSession, gatewayOf, cursor, pump, inbox, others, view>>

\* handleClose: one OFFLINE per binding.
CloseBinding(d) ==
    /\ closing.session \notin conns
    /\ d \in closing.offline
    /\ Submit(Message("offline", d, closing.session, 0))
    /\ closing' = [closing EXCEPT !.offline = @ \ {d}]
    /\ UNCHANGED <<links, index, cursor, pump, others, view>>

\* handleClose: CONN_CLOSE to the connection's worker; the handler returns.
CloseDone ==
    /\ closing.session \notin conns \cup {0}
    /\ closing.offline = {}
    /\ \E w \in Workers : SendOrDrop(w, Other)
    /\ closing' = NotClosing
    /\ UNCHANGED <<links, index, pending, cursor, pump, others, view>>

-----------------------------------------------------------------------------
(* retryClientNotifications.                                               *)

\* Mutant: the cursor does not rotate.
StepStays(n) == 0


Step(n) == (n + 1) % NumWorkers

\* Leave the current worker: the next one in turn, or the replies.
NextWorker(total) ==
    IF pump.n + 1 < NumWorkers /\ total < GlobalAttempts
    THEN /\ pump' = [pump EXCEPT !.worker = cursor, !.n = @ + 1, !.tried = 0, !.total = total]
         /\ cursor' = Step(cursor)
    ELSE /\ pump' = [Idle EXCEPT !.at = "reply", !.rejected = pump.rejected]
         /\ UNCHANGED cursor

\* pump's scan: expired and stale business tasks leave every queue.
PumpScan ==
    /\ AtRest
    /\ \E w \in Workers : tasks[w] # <<>>
    /\ \E cut \in [Workers -> 0..Max({Len(tasks[w]) : w \in Workers})] :
         LET dead == [w \in Workers |->
                 {i \in DOMAIN tasks[w] : i <= cut[w] \/ ~Valid(tasks[w][i])}]
         IN /\ RemoveBusiness(dead)
            /\ pump' = [Idle EXCEPT !.at = "send", !.worker = cursor,
                          !.rejected = FlattenSeq([k \in 1..NumWorkers |->
                              Entries(tasks[k - 1], Gone(k - 1, dead))])]
    /\ cursor' = Step(cursor)
    /\ UNCHANGED <<links, index, closing, inbox, others, view>>

\* pump: the head of the current worker's queue is sent.
PumpSend ==
    LET w == pump.worker IN
    /\ pump.at = "send"
    /\ tasks[w] # <<>> /\ pump.tried < PerWorker /\ pump.total < GlobalAttempts
    /\ Room(w)
    /\ Send(w, Head(tasks[w]))
    /\ tasks' = [tasks EXCEPT ![w] = Tail(@)]
    /\ stats' = [stats EXCEPT ![w] = Account(@, Head(tasks[w]), -1)]
    /\ pump' = [pump EXCEPT !.tried = @ + 1, !.total = @ + 1]
    /\ UNCHANGED <<links, index, cursor, closing, others, view>>

\* pump: the worker's queue is full (an attempt that counts), its pending
\* queue is empty, or an attempt limit is reached.
PumpLeave ==
    LET w == pump.worker
        try == tasks[w] # <<>> /\ pump.tried < PerWorker /\ pump.total < GlobalAttempts
    IN
    /\ pump.at = "send"
    /\ try => ~Room(w)
    /\ NextWorker(IF try THEN pump.total + 1 ELSE pump.total)
    /\ UNCHANGED <<links, index, pending, closing, inbox, others, view>>

\* retryClientNotifications answers a rejected task whose connection still
\* carries the player; the answer may close connections.
PumpReply ==
    /\ pump.at = "reply"
    /\ closing.session = 0
    /\ IF pump.rejected = <<>>
       THEN pump' = Idle /\ UNCHANGED closing
       ELSE LET m == Head(pump.rejected) IN
            /\ pump' = [pump EXCEPT !.rejected = Tail(@)]
            /\ IF Valid(m) THEN Reply(m.session) ELSE UNCHANGED closing
    /\ UNCHANGED <<links, index, pending, cursor, inbox, others, view>>

\* What a lifecycle message says.
Told(m) == [data |-> m.data, session |-> m.session, online |-> m.kind = "online"]

\* A logic worker takes the next message of its queue.
WorkerPop(w) ==
    /\ inbox[w] # <<>>
    /\ inbox' = [inbox EXCEPT ![w] = Tail(@)]
    /\ LET m == Head(inbox[w]) IN
       view' = IF Lifecycle(m) THEN [view EXCEPT ![m.data.player] = Told(m)] ELSE view
    /\ UNCHANGED <<links, index, pending, cursor, pump, closing, others>>

Frame ==
    \E c \in conns, d \in Bindings :
      \/ OnFrame(c, "online", d, 0)
      \/ OnFrame(c, "offline", d, 0)
      \/ \E b \in Sizes : OnFrame(c, "business", d, b)

Closing == CloseConn \/ (\E d \in closing.offline : CloseBinding(d)) \/ CloseDone
Pumping == PumpSend \/ PumpLeave \/ PumpReply

\* Every connection of the bounded run was opened and closed, and all that was
\* on its way has arrived.
Quiescent ==
    /\ AtRest
    /\ nextSession > MaxSession /\ conns = {} /\ others = MaxOther
    /\ \A w \in Workers : tasks[w] = <<>> /\ inbox[w] = <<>>
    /\ UNCHANGED vars

Next ==
    \/ \E g \in Gateways \cup {0} : OpenConn(g)
    \/ \E c \in conns : RejectFrame(c) \/ Disconnect(c)
    \/ Frame
    \/ \E w \in Workers : OtherMessage(w) \/ WorkerPop(w)
    \/ Closing
    \/ PumpScan
    \/ Pumping
    \/ Quiescent

Spec == Init /\ [][Next]_vars

\* epoll_wait never sleeps past retryIntervalMs while tasks wait (waitMs), so
\* the network thread keeps pumping and finishes every handler it began.
Fairness ==
    /\ WF_vars(Closing)
    /\ WF_vars(PumpScan)
    /\ WF_vars(Pumping)
    /\ \A w \in LiveWorkers : WF_vars(WorkerPop(w))

FairSpec == Spec /\ Fairness

-----------------------------------------------------------------------------
(* Properties.                                                             *)

Mine(p, m) == m.kind # "other" /\ m.data.player = p

\* What is on its way to player p's worker, oldest first: sendToWorker's queue,
\* then the pending tasks.
Pipeline(p) == inbox[WorkerOf[p]] \o tasks[WorkerOf[p]]

\* What the worker knows of p after the first k messages of the pipeline.
ViewAfter(p, k) ==
    LET s == Pipeline(p)
        past == {i \in 1..k : Mine(p, s[i]) /\ Lifecycle(s[i])}
    IN IF past = {} THEN view[p] ELSE Told(s[Max(past)])

\* The types of the network thread's state.
TypeOK ==
    /\ conns \subseteq 1..(nextSession - 1) /\ nextSession \in 1..(MaxSession + 1)
    /\ gatewayOf \in [Sessions -> Gateways \cup {0}]
    /\ index.latest \in [Players -> Bindings \cup {NoData}]
    /\ index.route \in [Players -> Sessions \cup {0}]
    /\ index.byConn \in [Sessions -> SUBSET Bindings]
    /\ \A w \in Workers : Range(tasks[w]) \subseteq Messages
    /\ \A w \in Workers : Range(inbox[w]) \subseteq Messages \cup {Other}
    /\ stats \in [Workers -> [business : Nat, bytes : Nat, lifecycle : Nat]]
    /\ cursor \in Workers /\ others \in 0..MaxOther
    /\ pump.at \in {"idle", "send", "reply"} /\ pump.worker \in Workers
    /\ closing.session \in Sessions \cup {0} /\ closing.offline \subseteq Bindings

\* No lifecycle notification is lost or overtaken: when a worker has drained
\* everything on its way, what it believes of a player (which binding, through
\* which connection, online or not) is what the network thread's index says,
\* whatever was refused, expired, cancelled or closed in between.
ViewConverges ==
    \A p \in Players :
      LET end == ViewAfter(p, Len(Pipeline(p)))
          leaving == \E d \in closing.offline : d.player = p
      IN /\ end.data = index.latest[p]
         /\ end.online = (index.route[p] # 0 \/ leaving)
         /\ index.route[p] # 0 => end.session = index.route[p]

\* A business request reaches its worker only between the ONLINE and the
\* OFFLINE of the very binding it was sent under, never before the player is
\* bound, after it left or after a newer binding took over.
BusinessInsideBinding ==
    \A p \in Players :
      LET s == Pipeline(p) IN
      \A k \in DOMAIN s : Mine(p, s[k]) /\ ~Lifecycle(s[k]) =>
        LET v == ViewAfter(p, k) IN v.online /\ v.data = s[k].data /\ v.session = s[k].session

\* The counters that admission and the busy diagnosis rely on agree with the
\* queues through direct refusals, expiry, cancellation and retries.
AccountingExact ==
    \A w \in Workers :
      LET business == Business(tasks[w])
      IN /\ stats[w].business = Len(business)
         /\ stats[w].bytes = Bytes(business)
         /\ stats[w].lifecycle = Len(tasks[w]) - Len(business)

\* Pending business work is bounded in number and bytes, per worker.
BusinessBounded ==
    \A w \in Workers : stats[w].business <= MaxTasks /\ stats[w].bytes <= MaxBytes

\* GatewayClientIndex's two directions agree, a player is carried by at most
\* one connection, by its latest binding, and a closed connection carries none.
IndexConsistent ==
    /\ \A p \in Players : index.route[p] # 0 => index.route[p] \in conns /\ index.latest[p] \in index.byConn[index.route[p]]
    /\ \A c \in Sessions : \A d \in index.byConn[c] : index.route[d.player] = c /\ index.latest[d.player] = d

\* Closing a connection cancels its waiting business tasks: none survives it.
NoOrphanBusiness ==
    \A w \in Workers : \A m \in Range(tasks[w]) : m.kind = "business" => m.session \in conns

\* What a worker is told of a player never goes back: a newer epoch, or the
\* same binding going offline; an ended binding is never revived.
NeverRevived ==
    [][\A p \in Players :
         LET old == view[p]
             new == view'[p]
         IN \/ new.data.epoch > old.data.epoch
            \/ new = old
            \/ old.online /\ new = [old EXCEPT !.online = FALSE]]_vars

\* A connection that closes is eventually off every player of every worker
\* that keeps draining, even while another worker's queue stays full: the
\* rotating cursor shares the attempts.
ClosedReachesWorkers ==
    \A c \in Sessions :
      (c < nextSession /\ c \notin conns) ~>
        \A p \in Players : WorkerOf[p] \in LiveWorkers => ~(view[p].online /\ view[p].session = c)

\* The network thread's books agree: types, the counters of every pending
\* queue, their limits, the two sides of the client index, and no business of
\* a connection that is gone.
AdmissionInv ==
    /\ TypeOK
    /\ AccountingExact
    /\ BusinessBounded
    /\ IndexConsistent
    /\ NoOrphanBusiness
=============================================================================
