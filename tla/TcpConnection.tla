--------------------------- MODULE TcpConnection ---------------------------
(***************************************************************************)
(* One connection of the gateway from newConnection to its destructor:     *)
(* TcpConnection, its Channel in the epoll of its IO loop, its idle and    *)
(* retransmission timers, the removal through the base loop                *)
(* (removeConnection, removeConnectionInLoop, connectDestroyed), and the   *)
(* threads that call send() and forceClose() from outside the IO loop.     *)
(*                                                                         *)
(* What runs inside the IO loop is one step per event, timer expiry or     *)
(* queued function; a handler with several outcomes is the set of records  *)
(* it may leave behind.  A call from another thread takes three steps,     *)
(* because it loads state_, stores it and queues a function without a      *)
(* lock.  A message is two units long, so a write may stop inside one; its *)
(* units are numbered in the order sendInLoop takes them.  Reading is      *)
(* never disabled on a connection, so epoll interest is never empty.       *)
(***************************************************************************)
EXTENDS Integers, Sequences, FiniteSets

CONSTANTS
    Callers,        \* threads other than the IO loop
    MaxSends,       \* bound: messages taken by sendInLoop
    MaxCalls,       \* bound: calls of the connection's interface
    MaxInput,       \* bound: messages of the peer
    kMaxRetries     \* RetransmitEntry::kMaxRetries

ASSUME ConnectionAssumption ==
    {MaxSends, MaxCalls, MaxInput, kMaxRetries} \subseteq Nat

VARIABLES
    conn,           \* the TcpConnection and its Channel
    ioQueue,        \* pendingFunc_ of the connection's loop
    removals,       \* removeConnectionInLoop calls queued on the base loop
    listed,         \* the name is in connections_
    pc,             \* what each caller has done of its call
    calls,          \* calls of the interface so far (bounded)
    peer,           \* the other end: sent input, half closed, or reset
    released        \* the last shared_ptr is gone, ~TcpConnection has run

connectionVars == <<conn, ioQueue, removals, listed, pc, calls, peer, released>>

None == -1          \* no entry in pendingRetrans_
Idle == [op |-> "idle", step |-> 0]
Functions == {"establish", "send", "forceClose", "destroy"}

\* TcpConnection's state, Channel's interest and registration, the write
\* buffer, the file being sent, and the timers armed with a raw this.
NewConnection ==
    [state |-> "connecting", added |-> FALSE, polled |-> FALSE, writing |-> FALSE,
     buffer |-> <<>>, wire |-> <<>>, taken |-> 0, file |-> 0, shut |-> FALSE,
     idle |-> FALSE, active |-> FALSE, tries |-> None, timer |-> FALSE,
     unowned |-> FALSE, notified |-> 0, closed |-> 0, destroyed |-> 0]

ConnectionInit ==
    /\ conn = NewConnection
    /\ ioQueue = <<"establish">>
    /\ removals = 0
    /\ listed = TRUE
    /\ pc = [t \in Callers |-> Idle]
    /\ calls = 0
    /\ peer = [sent |-> 0, unread |-> 0, half |-> FALSE, reset |-> FALSE]
    /\ released = FALSE

\* What a TcpConnection with its Channel may be.
Connections ==
    [state : {"connecting", "connected", "disconnecting", "disconnected"},
     added : BOOLEAN, polled : BOOLEAN, writing : BOOLEAN,
     buffer : Seq(Nat), wire : Seq(Nat), taken : Nat, file : 0..2, shut : BOOLEAN,
     idle : BOOLEAN, active : BOOLEAN, tries : None..kMaxRetries, timer : BOOLEAN,
     unowned : BOOLEAN, notified : Nat, closed : Nat, destroyed : Nat]

\* Once it is released, nothing that could still reach it is under way.
ConnectionTypes ==
    /\ conn \in Connections
    /\ ioQueue \in Seq(Functions) /\ removals \in Nat /\ listed \in BOOLEAN /\ released \in BOOLEAN
    /\ pc \in [Callers -> [op : {"idle", "send", "forceClose"}, step : 0..2]]
    /\ calls \in 0..MaxCalls
    /\ peer \in [sent : 0..MaxInput, unread : 0..MaxInput, half : BOOLEAN, reset : BOOLEAN]
    /\ peer.unread <= peer.sent
    /\ released => ~listed /\ ioQueue = <<>> /\ removals = 0 /\ \A t \in Callers : pc[t] = Idle

-----------------------------------------------------------------------------
(* Channel.                                                                *)

\* Channel::remove; added_ may be stale only in the direction it checks.
RemoveChannel(c) == [c EXCEPT !.added = FALSE, !.polled = IF c.added THEN FALSE ELSE @]

\* Channel::update: a deleted channel is added to epoll again.
Update(c) == [c EXCEPT !.added = TRUE, !.polled = TRUE]
EnableWriting(c) == Update([c EXCEPT !.writing = TRUE])
DisableWriting(c) == Update([c EXCEPT !.writing = FALSE])

-----------------------------------------------------------------------------
(* Closing.                                                                *)

Open(c) == c.state \in {"connected", "disconnecting"}

\* Cancelling idleTimerId_ and every timer of pendingRetrans_.
CancelTimers(c) == [c EXCEPT !.idle = FALSE, !.timer = FALSE, !.tries = None]

Close(c) ==
    [CancelTimers(RemoveChannel(c)) EXCEPT
        !.state = "disconnected", !.file = 0, !.notified = @ + 1, !.closed = @ + 1]

HandleClose(c) == IF c.state = "disconnected" THEN c ELSE Close(c)

ForceCloseInLoop(c) == IF Open(c) THEN HandleClose(c) ELSE c

\* With data to write only the write side is shut.
ShutdownInLoop(c) ==
    IF c.writing THEN [c EXCEPT !.shut = TRUE] ELSE HandleClose([c EXCEPT !.shut = TRUE])

ConnectDestroyed(c) ==
    LET d == RemoveChannel(CancelTimers(c)) IN
    [d EXCEPT !.state = "disconnected", !.destroyed = @ + 1,
              !.notified = IF c.state = "disconnected" THEN @ ELSE @ + 1]

ConnectEstablelished(c) == [Update(c) EXCEPT !.state = "connected", !.active = FALSE, !.idle = TRUE]

-----------------------------------------------------------------------------
(* Writing.                                                                *)

Broken(c) == c.shut \/ peer.reset

Message(c) == <<c.taken + 1, c.taken + 2>>

Put(c, units, n) ==
    [c EXCEPT !.wire = @ \o SubSeq(units, 1, n), !.buffer = SubSeq(units, n + 1, Len(units))]

\* Mutant: a message overtakes what is still buffered.
SendInLoopOvertakes(c) ==
    LET d == [c EXCEPT !.taken = @ + 2] IN
    IF c.state = "disconnected" \/ c.taken >= 2 * MaxSends THEN {c}
    ELSE {[d EXCEPT !.wire = @ \o Message(c), !.active = TRUE]} \cup
         {EnableWriting([d EXCEPT !.buffer = @ \o Message(c)])}

\* sendInLoop: a send in full, a send of part or nothing (EAGAIN), an error
\* after which the unsent data is still buffered.  The trailing call of
\* shutdownInLoop needs an empty buffer, which a send in full has returned from.
SendInLoop(c) ==
    LET m == Message(c)
        d == [c EXCEPT !.taken = @ + 2]
    IN  IF c.state = "disconnected" \/ c.taken >= 2 * MaxSends THEN {c}
        ELSE IF c.writing \/ c.buffer # <<>>
        THEN {EnableWriting([d EXCEPT !.buffer = @ \o m])}
        ELSE IF Broken(c) THEN {EnableWriting(Put(HandleClose(d), m, 0))}
        ELSE {[Put(d, m, 2) EXCEPT !.active = TRUE]} \cup
             {EnableWriting([Put(d, m, n) EXCEPT !.active = TRUE]) : n \in 0..1}

Send(c) == IF c.state = "connected" THEN SendInLoop(c) ELSE {c}

\* sendFileInLoop: a file that cannot be opened closes the connection.
SendFileInLoop(c) ==
    IF c.state = "disconnected" THEN {c}
    ELSE {ForceCloseInLoop(c), EnableWriting([c EXCEPT !.file = 2])}

\* The first part of handleWrite: writeBuffer_.WriteFd.
WriteBuffer(c) ==
    IF c.buffer = <<>> THEN {c}
    ELSE IF Broken(c) THEN {HandleClose(c)}
    ELSE {LET d == Put(c, c.buffer, n) IN
          IF d.buffer = <<>> /\ d.file = 0 THEN DisableWriting(d) ELSE d : n \in 1..Len(c.buffer)}

\* The second: sendfile, once the buffer is empty.
WriteFile(c) ==
    IF c.buffer # <<>> \/ c.file = 0 THEN c
    ELSE IF Broken(c) THEN HandleClose(DisableWriting([c EXCEPT !.file = 0]))
    ELSE IF c.file > 1 THEN [c EXCEPT !.file = @ - 1]
    ELSE DisableWriting([c EXCEPT !.file = 0])

\* The third part of handleWrite asks for a non-empty buffer and is not reached.
HandleWrite(c) ==
    IF c.writing THEN {WriteFile(d) : d \in WriteBuffer([c EXCEPT !.active = TRUE])} ELSE {c}

-----------------------------------------------------------------------------
(* Retransmission and idleness: the two kinds of timer that hold this.     *)

\* sendWithRetransmit's SendFunc: the entry and its timer are added whether
\* or not send() took the message.
SendFunc(c) == {[d EXCEPT !.tries = 0, !.timer = TRUE] : d \in Send(c)}

AckReceived(c) == [c EXCEPT !.tries = None, !.timer = FALSE]

\* An entry that sendInLoop's handleClose has cleared is used all the same:
\* the timer is armed and no live entry remembers it.
OnRetransmitTimeout(c) ==
    IF c.tries = None THEN {c}
    ELSE IF c.tries >= kMaxRetries THEN {ForceCloseInLoop([c EXCEPT !.tries = None])}
    ELSE {IF d.tries = None THEN [d EXCEPT !.unowned = TRUE]
          ELSE [d EXCEPT !.tries = @ + 1, !.timer = TRUE] : d \in SendInLoop(c)}

\* Mutant: the timer is not armed again when there was activity.
OnIdleTimeoutOnce(c) == IF c.active THEN {c} ELSE {ForceCloseInLoop(c)}

\* Activity since the last expiry leaves time on the clock, unless this
\* expiry is itself later than the timeout.
OnIdleTimeout(c) ==
    {ForceCloseInLoop(c)} \cup
    (IF c.active THEN {[c EXCEPT !.idle = TRUE, !.active = FALSE]} ELSE {})

Fire(timer, c) == IF timer = "idle" THEN OnIdleTimeout(c) ELSE OnRetransmitTimeout(c)

ArmedTimers == (IF conn.idle THEN {"idle"} ELSE {}) \cup (IF conn.timer THEN {"retransmit"} ELSE {})

-----------------------------------------------------------------------------
(* The IO loop.                                                            *)

\* closeCallback_ queues removeConnectionInLoop on the base loop.
Becomes(c) ==
    /\ conn' = c
    /\ removals' = removals + (c.closed - conn.closed)

\* The message callback may answer, close the connection, or neither.
OnMessage(c) == {c, ForceCloseInLoop(c)} \cup Send(c)

\* Input first, then end of file; a spurious wake-up (EAGAIN) closes too.
HandleRead(c) ==
    IF peer.unread > 0 THEN OnMessage([c EXCEPT !.active = TRUE]) ELSE {HandleClose(c)}

\* Channel::handleEvent for the reported events.
HandleEvent(c, revents) ==
    IF "ERR" \in revents THEN {HandleClose(c)}
    ELSE LET afterRead == IF "IN" \in revents THEN HandleRead(c) ELSE {c} IN
         IF "HUP" \in revents /\ "IN" \notin revents THEN {HandleClose(d) : d \in afterRead}
         ELSE IF "OUT" \in revents THEN UNION {HandleWrite(d) : d \in afterRead}
         ELSE afterRead

Readable == peer.unread > 0 \/ peer.half \/ peer.reset

Event ==
    /\ conn.polled /\ ~released
    /\ \E revents \in (SUBSET {"ERR", "IN", "HUP", "OUT"}) \ {{}} :
        /\ "IN" \in revents => Readable
        /\ "OUT" \in revents => conn.writing
        /\ revents \cap {"ERR", "HUP"} # {} => peer.reset
        /\ \E c \in HandleEvent(conn, revents) : Becomes(c)
        /\ peer' = IF "IN" \in revents /\ "ERR" \notin revents THEN [peer EXCEPT !.unread = 0] ELSE peer
    /\ UNCHANGED <<ioQueue, listed, pc, calls, released>>

\* TimerQueue::handleRead for the timers that expired together: a callback
\* cannot stop another of its batch.
Expired(batch) ==
    [conn EXCEPT !.idle = @ /\ "idle" \notin batch, !.timer = @ /\ "retransmit" \notin batch]

FireBatch(batch, first, c) ==
    IF batch = {first} THEN Fire(first, c)
    ELSE UNION {Fire(second, d) : second \in batch \ {first}, d \in Fire(first, c)}

Expire ==
    /\ ~released
    /\ \E batch \in (SUBSET ArmedTimers) \ {{}} : \E first \in batch :
        \E c \in FireBatch(batch, first, Expired(batch)) : Becomes(c)
    /\ UNCHANGED <<ioQueue, listed, pc, calls, peer, released>>

\* The timer no entry owns finds no entry either.
ExpireUnowned ==
    /\ conn.unowned /\ ~released
    /\ conn' = [conn EXCEPT !.unowned = FALSE]
    /\ UNCHANGED <<ioQueue, removals, listed, pc, calls, peer, released>>

\* doPendingFuncs, one function at a time.
Run(f) ==
    CASE f = "establish"  -> {ConnectEstablelished(conn)}
      [] f = "send"       -> SendInLoop(conn)
      [] f = "forceClose" -> {ForceCloseInLoop(conn)}
      [] f = "destroy"    -> {ConnectDestroyed(conn)}

RunPending ==
    /\ ioQueue # <<>>
    /\ \E c \in Run(Head(ioQueue)) : Becomes(c)
    /\ ioQueue' = Tail(ioQueue)
    /\ UNCHANGED <<listed, pc, calls, peer, released>>

\* The calls only code in the IO loop may make: shutdown(), a file, a
\* message with retransmission, its acknowledgement.
ApiCall == calls < MaxCalls /\ ~released /\ calls' = calls + 1

Shutdown ==
    /\ ApiCall
    /\ conn.state = "connected"
    /\ Becomes(ShutdownInLoop([conn EXCEPT !.state = "disconnecting"]))
    /\ UNCHANGED <<ioQueue, listed, pc, peer, released>>

SendFile ==
    /\ ApiCall
    /\ conn.state = "connected" /\ conn.file = 0
    /\ \E c \in SendFileInLoop(conn) : Becomes(c)
    /\ UNCHANGED <<ioQueue, listed, pc, peer, released>>

SendWithRetransmit ==
    /\ ApiCall
    /\ conn.tries = None /\ conn.state # "connecting"
    /\ \E c \in SendFunc(conn) : Becomes(c)
    /\ UNCHANGED <<ioQueue, listed, pc, peer, released>>

Ack ==
    /\ ApiCall
    /\ conn.tries # None
    /\ Becomes(AckReceived(conn))
    /\ UNCHANGED <<ioQueue, listed, pc, peer, released>>

-----------------------------------------------------------------------------
(* The other threads.                                                      *)

\* removeConnectionInLoop: only the first finds the name.
RemoveConnectionInLoop ==
    /\ removals > 0
    /\ removals' = removals - 1
    /\ listed' = FALSE
    /\ ioQueue' = IF listed THEN Append(ioQueue, "destroy") ELSE ioQueue
    /\ UNCHANGED <<conn, pc, calls, peer, released>>

\* The loads of state_ at the head of send() and forceClose().
Admits(op) == IF op = "send" THEN conn.state = "connected" ELSE Open(conn)

Call(t) ==
    /\ ApiCall
    /\ pc[t] = Idle
    /\ \E op \in {"send", "forceClose"} :
        pc' = [pc EXCEPT ![t] = IF Admits(op) THEN [op |-> op, step |-> 1] ELSE Idle]
    /\ UNCHANGED <<conn, ioQueue, removals, listed, peer, released>>

\* forceClose's setState(kDisConnecting).
SetState(t) ==
    /\ pc[t] = [op |-> "forceClose", step |-> 1]
    /\ conn' = [conn EXCEPT !.state = "disconnecting"]
    /\ pc' = [pc EXCEPT ![t].step = 2]
    /\ UNCHANGED <<ioQueue, removals, listed, calls, peer, released>>

\* runInLoop from a thread that is not the loop's.
QueueCall(t) ==
    /\ pc[t] \in {[op |-> "forceClose", step |-> 2], [op |-> "send", step |-> 1]}
    /\ ioQueue' = Append(ioQueue, pc[t].op)
    /\ pc' = [pc EXCEPT ![t] = Idle]
    /\ UNCHANGED <<conn, removals, listed, calls, peer, released>>

\* ~TcpConnection, when connections_, the queues and the callers let go.
Release ==
    /\ ~listed /\ ioQueue = <<>> /\ removals = 0 /\ ~released
    /\ \A t \in Callers : pc[t] = Idle
    /\ released' = TRUE
    /\ conn' = CancelTimers(conn)
    /\ UNCHANGED <<ioQueue, removals, listed, pc, calls, peer>>

PeerActs ==
    /\ ~released
    /\ \/ /\ peer.sent < MaxInput /\ ~peer.half /\ ~peer.reset
          /\ peer' = [peer EXCEPT !.sent = @ + 1, !.unread = @ + 1]
       \/ ~peer.half /\ ~peer.reset /\ peer' = [peer EXCEPT !.half = TRUE]
       \/ ~peer.reset /\ peer' = [peer EXCEPT !.reset = TRUE]
    /\ UNCHANGED <<conn, ioQueue, removals, listed, pc, calls, released>>

Io == Event \/ Expire \/ ExpireUnowned \/ RunPending
Api == Shutdown \/ SendFile \/ SendWithRetransmit \/ Ack
Outside == \E t \in Callers : Call(t) \/ SetState(t) \/ QueueCall(t)

ConnectionNext == Io \/ Api \/ Outside \/ RemoveConnectionInLoop \/ Release \/ PeerActs

ConnectionSpec == ConnectionInit /\ [][ConnectionNext]_connectionVars

\* Both loops keep running, timers expire and a call in progress returns;
\* nobody need call anything, and the peer need do nothing.
FairSpec ==
    /\ ConnectionSpec
    /\ WF_connectionVars(RunPending) /\ WF_connectionVars(Expire)
    /\ WF_connectionVars(RemoveConnectionInLoop) /\ WF_connectionVars(Release)
    /\ \A t \in Callers : WF_connectionVars(SetState(t) \/ QueueCall(t))

-----------------------------------------------------------------------------
(* Properties.                                                             *)

\* What went out followed by what is buffered is exactly what sendInLoop
\* took, in that order, whatever writes were cut short, timers resent or
\* closes came in between (sendInLoop's fast path against handleWrite); and
\* the connection is within its types.
StreamInOrder ==
    /\ ConnectionTypes
    /\ conn.wire \o conn.buffer = [i \in 1..conn.taken |-> i]

\* The destructor meets a disconnected connection (its assert) that went
\* through connectDestroyed exactly once, after the layer above was told.
\* Unless a second close came in, what closed handlers had put back into
\* epoll is out of it again, so that ~Channel need not run in the loop.
ReleasedClean ==
    /\ released
    /\ conn.state = "disconnected" /\ conn.destroyed = 1 /\ conn.notified >= 1
    /\ conn.closed = 1 => ~conn.added

\* A connection that was established is destroyed in the end and leaves
\* nothing behind, however it closes: the idle timer is armed again as long
\* as it has not closed, and every close reaches connectDestroyed.
EventuallyReleased == conn.state = "connected" ~> ReleasedClean

\* "The state guard makes sure a connection notifies only once"
\* (tcpConnection.cc:545-556).
OneCloseNotice == conn.notified <= 1

\* "Channel and poller belong to a thread" (GatewayServer::stop): the
\* destructor, which the base loop may run, leaves nothing to ~Channel.
ReleasedUnregistered == released => ~conn.added

\* "the object is destroyed and the callback still fires cannot happen"
\* (resetRetransmitTimer): no timer with a raw this outlives the object.
NoTimerOutlives == released => ~conn.unowned

=============================================================================
