---------------------------- MODULE NetTransport ----------------------------
(***************************************************************************)
(* The transport of the scene's network thread: one connection in an       *)
(* edge-triggered epoll, accepted or opened by connectTo (which runs on    *)
(* the main thread), its send buffer and write interest, the bus of        *)
(* outbound messages with its eventfd, and stop().  What frames and closes *)
(* mean to players is NetAdmission's subject.  Buffers count frames.       *)
(***************************************************************************)
EXTENDS Integers, Sequences, FiniteSets

CONSTANTS
    MaxRoom,        \* frames the kernel buffers towards the peer
    maxWriteBuffer, \* maxWriteBufferBytes, in frames
    MaxIn,          \* bound: frames of the peer
    MaxBus          \* bound: messages logic sends

VARIABLES
    outbound,       \* opened by connectTo
    life,           \* none, added (in epoll only), live (in conns_), gone
    c,              \* the Conn: flags and buffers
    ready,          \* the descriptor is on epoll's ready list
    kernel,         \* the socket and its peer
    started,        \* started_
    stopping,       \* stop() is between the store and its wakeup
    net,            \* where run() is
    ev,             \* the events of this connection in the batch
    wake,           \* the eventfd is part of the batch
    woken,          \* the eventfd is readable
    bus,            \* messages for the network thread
    pushing,        \* logic is between the push and the wakeup
    pushed,         \* messages so far (bounded)
    told,           \* what the logic threads were told of the connection
    missed          \* an event was dropped for want of an entry in conns_

vars == <<outbound, life, c, ready, kernel, started, stopping, net, ev, wake, woken, bus, pushing, pushed, told, missed>>

NewConn == [connecting |-> FALSE, writing |-> FALSE, interest |-> FALSE, peerClosed |-> FALSE, out |-> 0, in |-> 0]
NewKernel == [up |-> FALSE, failed |-> FALSE, room |-> MaxRoom, unread |-> 0, sent |-> 0, fin |-> FALSE, reset |-> FALSE, greeted |-> FALSE]

Init ==
    /\ outbound \in BOOLEAN
    /\ life = "none" /\ c = NewConn /\ ready = FALSE /\ kernel = NewKernel
    /\ started = TRUE /\ stopping = FALSE
    /\ net = "check" /\ ev = {} /\ wake = FALSE /\ woken = FALSE
    /\ bus = <<>> /\ pushing = FALSE /\ pushed = 0
    /\ told = {} /\ missed = FALSE

Kept == UNCHANGED <<outbound, started, stopping, bus, pushing, pushed>>

-----------------------------------------------------------------------------
(* The kernel: what epoll reports of a descriptor, and when it reports it. *)

Reported(k, interest) ==
    (IF k.unread > 0 \/ k.fin THEN {"IN"} ELSE {}) \cup
    (IF interest /\ ((k.up /\ k.room > 0) \/ k.failed) THEN {"OUT"} ELSE {}) \cup
    (IF k.reset \/ k.failed THEN {"HUP"} ELSE {})

Registered == life \in {"added", "live"}

\* An edge puts the descriptor on the ready list.
Edge(k) ==
    /\ kernel' = k
    /\ ready' = (ready \/ (Registered /\ Reported(k, c.interest) # {}))
    /\ UNCHANGED <<life, c, net, ev, wake, woken, told, missed>>
    /\ Kept

Established == outbound /\ Registered /\ ~kernel.up /\ ~kernel.failed /\ Edge([kernel EXCEPT !.up = TRUE])
ConnectFails == outbound /\ Registered /\ ~kernel.up /\ ~kernel.failed /\ Edge([kernel EXCEPT !.failed = TRUE])
PeerSends ==
    /\ kernel.up /\ ~kernel.fin /\ ~kernel.reset /\ kernel.sent < MaxIn
    /\ outbound => kernel.greeted
    /\ Edge([kernel EXCEPT !.sent = @ + 1, !.unread = @ + 1])
PeerReads == kernel.up /\ ~kernel.fin /\ kernel.room < MaxRoom /\ Edge([kernel EXCEPT !.room = MaxRoom, !.greeted = TRUE])
PeerCloses == kernel.up /\ ~kernel.fin /\ ~kernel.reset /\ Edge([kernel EXCEPT !.fin = TRUE])

\* A peer that has closed answers what it is sent with a reset.
PeerResets == kernel.up /\ kernel.fin /\ ~kernel.reset /\ kernel.room < MaxRoom /\ Edge([kernel EXCEPT !.reset = TRUE])

-----------------------------------------------------------------------------
(* One Conn; an operation gives back [life, c, kernel, ready].             *)

State(l, x, k, r) == [life |-> l, c |-> x, kernel |-> k, ready |-> r]
Here == State(life, c, kernel, ready)

HandleClose(s) == State("gone", s.c, s.kernel, FALSE)

\* EPOLL_CTL_MOD looks at the descriptor again.
EnableWrite(s, on) ==
    IF s.c.writing = on THEN s
    ELSE State(s.life, [s.c EXCEPT !.writing = on, !.interest = on], s.kernel,
               s.ready \/ Reported(s.kernel, on) # {})

\* Mutant: a partial write does not ask for EPOLLOUT.
DoWriteOnce(s) ==
    LET n == IF s.c.out < s.kernel.room THEN s.c.out ELSE s.kernel.room
        w == [s EXCEPT !.c.out = @ - n, !.kernel.room = @ - n]
    IN  IF s.c.out > 0 /\ s.kernel.reset THEN HandleClose(s)
        ELSE IF w.c.out > 0 THEN w
        ELSE IF s.c.peerClosed THEN HandleClose(w) ELSE EnableWrite(w, FALSE)

\* Write to EAGAIN, an error, or the end; a peer that has closed is then let go.
DoWrite(s) ==
    LET n == IF s.c.out < s.kernel.room THEN s.c.out ELSE s.kernel.room
        w == [s EXCEPT !.c.out = @ - n, !.kernel.room = @ - n]
    IN  IF s.c.out > 0 /\ s.kernel.reset THEN HandleClose(s)
        ELSE IF w.c.out > 0 THEN EnableWrite(w, TRUE)
        ELSE IF s.c.peerClosed THEN HandleClose(w) ELSE EnableWrite(w, FALSE)

\* A message that the send buffer has no room for is dropped.
SendTo(s) == IF s.c.out >= maxWriteBuffer THEN s ELSE DoWrite([s EXCEPT !.c.out = @ + 1])

\* The handshake goes first; writing is still FALSE, so EPOLLOUT stays on.
OnPeerWritable(s) ==
    IF s.kernel.failed THEN HandleClose(s)
    ELSE DoWrite(EnableWrite([s EXCEPT !.c.connecting = FALSE, !.c.out = @ + 1], FALSE))

\* Read to EAGAIN or end of file.
ReadAll(s) == [s EXCEPT !.c.in = @ + s.kernel.unread, !.c.peerClosed = @ \/ s.kernel.fin, !.kernel.unread = 0]

\* What a step left behind, and what it told the logic threads.
Becomes(s) ==
    /\ life' = s.life /\ c' = s.c /\ kernel' = s.kernel /\ ready' = s.ready
    /\ told' = told \cup (IF c.connecting /\ ~s.c.connecting /\ s.life = "live" THEN {"new"} ELSE {})
                    \cup (IF life = "live" /\ s.life = "gone" THEN {"close"} ELSE {})

-----------------------------------------------------------------------------
(* connectTo, on the main thread.                                          *)

\* connect() and EPOLL_CTL_ADD ...
ConnectTo ==
    /\ outbound /\ life = "none" /\ started
    /\ life' = "added"
    /\ c' = [NewConn EXCEPT !.connecting = TRUE, !.interest = TRUE]
    /\ UNCHANGED <<ready, kernel, net, ev, wake, woken, told, missed>>
    /\ Kept

\* ... and conns_.emplace after it.
Emplace ==
    /\ life = "added"
    /\ life' = "live"
    /\ UNCHANGED <<c, ready, kernel, net, ev, wake, woken, told, missed>>
    /\ Kept

-----------------------------------------------------------------------------
(* run().                                                                  *)

\* The condition of the loop: started_ is looked at here and nowhere else.
CheckStarted ==
    /\ net = "check"
    /\ net' = IF started THEN "wait" ELSE "last"
    /\ UNCHANGED <<life, c, ready, kernel, ev, wake, woken, told, missed>>
    /\ Kept

\* epoll_wait(-1): everything that is ready, once; until something is, the
\* thread stays in the call whatever started_ is.
EpollWait ==
    /\ net = "wait"
    /\ ready \/ woken
    /\ ev' = IF ready THEN Reported(kernel, c.interest) ELSE {}
    /\ ready' = FALSE
    /\ wake' = woken
    /\ net' = "events"
    /\ UNCHANGED <<life, c, kernel, woken, told, missed>>
    /\ Kept

\* A batch that begins with the listening socket.
AcceptNewConn ==
    /\ net = "wait"
    /\ ~outbound /\ life = "none"
    /\ life' = "live" /\ told' = {"new"}
    /\ kernel' = [kernel EXCEPT !.up = TRUE]
    /\ wake' = woken
    /\ net' = "events"
    /\ UNCHANGED <<c, ready, ev, woken, missed>>
    /\ Kept

\* kWakeupTag: drainWakeup, then processBusMsg in the middle of the batch.
HandleWakeup ==
    /\ net = "events" /\ wake
    /\ wake' = FALSE /\ woken' = FALSE
    /\ net' = "drain"
    /\ UNCHANGED <<life, c, ready, kernel, ev, told, missed>>
    /\ Kept

\* The connection's event up to the frames it brought.
HandleEvent ==
    /\ net = "events" /\ ev # {}
    /\ IF life # "live"
       THEN /\ missed' = (missed \/ life = "added")
            /\ ev' = {}
            /\ UNCHANGED <<life, c, kernel, ready, told, net>>
       ELSE /\ UNCHANGED missed
            /\ IF c.connecting /\ ev \cap {"OUT", "HUP"} # {}
               THEN Becomes(OnPeerWritable(Here)) /\ ev' = {} /\ UNCHANGED net
               ELSE IF "HUP" \in ev THEN Becomes(HandleClose(Here)) /\ ev' = {} /\ UNCHANGED net
               ELSE IF "IN" \in ev THEN Becomes(ReadAll(Here)) /\ ev' = ev \ {"IN"} /\ net' = "frames"
               ELSE Becomes(DoWrite(Here)) /\ ev' = {} /\ UNCHANGED net
    /\ UNCHANGED <<wake, woken>>
    /\ Kept

\* One decoded frame: handed on, or answered with a tip, or the end of the
\* connection (too many errors, too many frames, a wrong handshake).
HandleFrame ==
    /\ net = "frames" /\ life = "live" /\ c.in > 0
    /\ LET s == [Here EXCEPT !.c.in = @ - 1] IN \E t \in {s, SendTo(s), HandleClose(s)} : Becomes(t)
    /\ UNCHANGED <<net, ev, wake, woken, missed>>
    /\ Kept

\* kNeedMore: the end of the frames, and of a connection whose peer has gone.
FramesDone ==
    /\ net = "frames" /\ (life = "gone" \/ c.in = 0)
    /\ Becomes(IF life = "live" /\ c.peerClosed THEN HandleClose(Here) ELSE Here)
    /\ net' = "events"
    /\ UNCHANGED <<ev, wake, woken, missed>>
    /\ Kept

EventsDone ==
    /\ net = "events" /\ ~wake /\ ev = {}
    /\ net' = "bus"
    /\ UNCHANGED <<life, c, ready, kernel, ev, wake, woken, told, missed>>
    /\ Kept

\* processBusMsg, one message at a time.
PopBus ==
    /\ net \in {"drain", "bus", "last"} /\ bus # <<>>
    /\ bus' = Tail(bus)
    /\ Becomes(IF life # "live" THEN Here
               ELSE IF Head(bus) = "send" THEN SendTo(Here) ELSE HandleClose(Here))
    /\ UNCHANGED <<outbound, started, stopping, net, ev, wake, woken, pushing, pushed, missed>>

\* Back to the batch or to the condition of the loop; after the loop the bus
\* is emptied once more, and then everything is closed.
BusDone ==
    /\ net \in {"drain", "bus", "last"} /\ bus = <<>>
    /\ net' = CASE net = "drain" -> "events" [] net = "bus" -> "check" [] net = "last" -> "ended"
    /\ life' = IF net = "last" THEN "gone" ELSE life
    /\ UNCHANGED <<c, ready, kernel, ev, wake, woken, told, missed>>
    /\ Kept

-----------------------------------------------------------------------------
(* The other threads: sendToNet and stop() write the eventfd afterwards.   *)

\* Logic knows a session from its CONN_NEW on.
SendToNet ==
    /\ ~pushing /\ pushed < MaxBus /\ told # {}
    /\ \E m \in {"send", "close"} : bus' = Append(bus, m)
    /\ pushing' = TRUE /\ pushed' = pushed + 1
    /\ UNCHANGED <<outbound, life, c, ready, kernel, started, stopping, net, ev, wake, woken, told, missed>>

Wakeup ==
    /\ \/ pushing /\ pushing' = FALSE /\ UNCHANGED stopping
       \/ stopping /\ stopping' = FALSE /\ UNCHANGED pushing
    /\ woken' = TRUE
    /\ UNCHANGED <<outbound, life, c, ready, kernel, started, net, ev, wake, bus, pushed, told, missed>>

\* Mutant: stop() does not write the eventfd.
StopSilent ==
    /\ started
    /\ started' = FALSE
    /\ UNCHANGED <<outbound, life, c, ready, kernel, stopping, net, ev, wake, woken, bus, pushing, pushed, told, missed>>

\* stop() up to its wakeup.
Stop ==
    /\ started
    /\ started' = FALSE /\ stopping' = TRUE
    /\ UNCHANGED <<outbound, life, c, ready, kernel, net, ev, wake, woken, bus, pushing, pushed, told, missed>>

NetThread ==
    CheckStarted \/ EpollWait \/ HandleWakeup \/ HandleEvent \/ HandleFrame \/ FramesDone \/ EventsDone \/ PopBus \/ BusDone

Connected == Established \/ ConnectFails
PeerAnswers == PeerReads \/ PeerResets
Peer == Connected \/ PeerSends \/ PeerCloses \/ PeerAnswers

Next == NetThread \/ AcceptNewConn \/ ConnectTo \/ Emplace \/ Peer \/ SendToNet \/ Wakeup \/ Stop

\* The threads run and finish their calls, a connect ends one way or the
\* other, and a peer that is there reads.
Fairness ==
    /\ WF_vars(NetThread) /\ WF_vars(Emplace) /\ WF_vars(Wakeup)
    /\ WF_vars(Connected) /\ WF_vars(PeerAnswers)

-----------------------------------------------------------------------------

\* A message waits for the network thread, a frame is unsent, the peer has
\* gone and the connection has not, or stop() waits for the thread.
Owes ==
    \/ bus # <<>> /\ net # "ended"
    \/ ~started /\ net # "ended"
    \/ life = "live" /\ c.out > 0
    \/ life = "live" /\ kernel.fin /\ ~missed

\* Every message is taken, every unsent frame goes out or its connection
\* ends, a peer that has gone is noticed, and a thread blocked in epoll_wait
\* when stop() is called ends.
TransportServes == Owes ~> ~Owes

\* "when it is complete, MSGTYPE_CONN_NEW is posted" (connectTo, net_server.h):
\* a connection that connectTo has begun is announced or closed.
LinkComesUp == life = "added" ~> (told # {} \/ life = "gone")

=============================================================================
