----------------------------- MODULE ServiceApp -----------------------------
(***************************************************************************)
(* RunService, the body of the chat and the global server: a network       *)
(* thread that polls one link per gateway, a logic thread, and a bounded   *)
(* queue in each direction.  A chat message is answered and pushed to all  *)
(* gateways in one batch; everything else is answered only.  One request   *)
(* is decoded at a time; bytes are counted as messages.                    *)
(***************************************************************************)
EXTENDS Integers, Sequences, FiniteSets, SequencesExt

CONSTANTS
    Gateways,       \* 1..n: the links, in the order of the command line
    kCapacity,      \* Queue::kCapacity
    MaxOutput,      \* the limit of a link's output buffer
    MaxRequests     \* bound: requests of the gateways

ASSUME ServiceAssumption ==
    {kCapacity, MaxOutput, Cardinality(Gateways)} \subseteq Nat /\ Gateways = 1..Cardinality(Gateways)

VARIABLES
    serving,        \* running
    ok,             \* ok of RunService
    poller,         \* where the network thread is
    visiting,       \* the next link of the connect loop, or after poll()
    logic,          \* where the logic thread is
    msg,            \* the request it holds
    toLogic, toNet, \* the two queues
    output,         \* links[i].output
    wire,           \* requests on their way, per link
    requested,      \* requests so far (bounded)
    outbox,         \* history: messages written, per link
    accepted,       \* history: requests answered with "accepted", in order
    received        \* history: requests put into toLogic

serviceVars == <<serving, ok, poller, visiting, logic, msg, toLogic, toNet, output, wire, requested, outbox, accepted, received>>

NoMsg == [id |-> 0, from |-> 0, kind |-> "none"]
Handshake == [to |-> 0, kind |-> "handshake", id |-> 0]
Reply(r) == [to |-> r.from, kind |-> "reply", id |-> r.id]
Pushes(r) == [g \in Gateways |-> [to |-> g, kind |-> "push", id |-> r.id]]

ServiceInit ==
    /\ serving = TRUE /\ ok = TRUE
    /\ poller = "connect" /\ visiting = 1
    /\ logic = "get" /\ msg = NoMsg
    /\ toLogic = <<>> /\ toNet = <<>>
    /\ output = [g \in Gateways |-> <<>>]
    /\ wire = [g \in Gateways |-> <<>>]
    /\ requested = 0
    /\ outbox = [g \in Gateways |-> <<>>]
    /\ accepted = <<>> /\ received = {}

-----------------------------------------------------------------------------
(* The queue: each operation is under its lock.                            *)

Fits(q, batch) == Len(batch) <= kCapacity - Len(q)

\* Mutant: a batch is cut off at the end of the queue.
PutBatchPart(q, batch) == IF Fits(q, batch) THEN q \o batch ELSE q \o SubSeq(batch, 1, kCapacity - Len(q))

\* All or nothing, for one message as for a batch.
PutBatch(q, batch) == IF Fits(q, batch) THEN q \o batch ELSE q

-----------------------------------------------------------------------------
(* The logic thread.                                                       *)

LogicUnchanged == UNCHANGED <<ok, poller, visiting, output, wire, requested, outbox, received>>

\* while (running) { Get ... }: a chat message goes to its batch, the rest
\* (invalid, unsupported, reserved, or the other service's) to a reply.
Get ==
    /\ logic = "get" /\ poller # "connect"
    /\ \/ /\ toLogic # <<>>
          /\ msg' = Head(toLogic) /\ toLogic' = Tail(toLogic)
          /\ logic' = IF msg'.kind = "chat" THEN "batch" ELSE "reply"
       \/ ~serving /\ logic' = "done" /\ UNCHANGED <<msg, toLogic>>
    /\ UNCHANGED <<serving, toNet, accepted>>
    /\ LogicUnchanged

\* The answer "accepted" and a push for every gateway.
QueueBatch ==
    /\ logic = "batch"
    /\ LET batch == <<Reply(msg)>> \o Pushes(msg)
           taken == Fits(toNet, batch)
       IN  /\ toNet' = PutBatch(toNet, batch)
           /\ accepted' = IF toNet' = toNet THEN accepted ELSE Append(accepted, msg.id)
           /\ logic' = IF taken THEN "get" ELSE "reply"
           /\ msg' = IF taken THEN NoMsg ELSE msg
    /\ UNCHANGED <<serving, toLogic>>
    /\ LogicUnchanged

\* reply: without room for it the service stops.
QueueReply ==
    /\ logic = "reply"
    /\ toNet' = PutBatch(toNet, <<Reply(msg)>>)
    /\ serving' = (serving /\ Fits(toNet, <<Reply(msg)>>))
    /\ logic' = "get" /\ msg' = NoMsg
    /\ UNCHANGED <<toLogic, accepted>>
    /\ LogicUnchanged

-----------------------------------------------------------------------------
(* The network thread.                                                     *)

NetUnchanged == UNCHANGED <<logic, msg, requested, accepted>>

\* Connect to one gateway after the other; each link begins with a handshake.
Connect ==
    /\ poller = "connect"
    /\ \/ /\ output' = [output EXCEPT ![visiting] = <<Handshake>>]
          /\ poller' = IF visiting = Len(output) THEN "drain" ELSE "connect"
          /\ visiting' = visiting + 1
       \/ poller' = "ended" /\ UNCHANGED <<output, visiting>>
    /\ UNCHANGED <<serving, ok, toLogic, toNet, wire, outbox, received>>
    /\ NetUnchanged

Leave == poller' = "joining" /\ serving' = FALSE

\* while (TryGet) EncodeFrame, with the limit of the output buffer.
Drain ==
    /\ poller = "drain" /\ toNet # <<>>
    /\ LET m == Head(toNet) IN
        /\ toNet' = Tail(toNet)
        /\ IF Len(output[m.to]) >= MaxOutput
           THEN ok' = FALSE /\ Leave /\ UNCHANGED output
           ELSE output' = [output EXCEPT ![m.to] = Append(@, m)] /\ UNCHANGED <<ok, poller, serving>>
    /\ UNCHANGED <<visiting, toLogic, wire, outbox, received>>
    /\ NetUnchanged

\* TryGet found nothing, and poll() returns for whichever links are ready.
Poll ==
    /\ poller = "drain" /\ toNet = <<>>
    /\ poller' = "visit" /\ visiting' = 1
    /\ UNCHANGED <<serving, ok, toLogic, toNet, output, wire, outbox, received>>
    /\ NetUnchanged

\* One link: POLLERR, a failed write or end of file ends the service; what is
\* writable is written as far as it goes; a request is read, and one that
\* finds no room (or has no sequence number) ends the service.
Visit ==
    /\ poller = "visit" /\ ok /\ visiting <= Len(output)
    /\ LET g == visiting IN
        \/ \E n \in 0..Len(output[g]), read \in BOOLEAN :
            /\ outbox' = [outbox EXCEPT ![g] = @ \o SubSeq(output[g], 1, n)]
            /\ output' = [output EXCEPT ![g] = SubSeq(@, n + 1, Len(@))]
            /\ IF read /\ wire[g] # <<>>
               THEN /\ wire' = [wire EXCEPT ![g] = Tail(@)]
                    /\ toLogic' = PutBatch(toLogic, <<Head(wire[g])>>)
                    /\ ok' = (Fits(toLogic, <<Head(wire[g])>>) /\ Head(wire[g]).kind # "bad")
                    /\ received' = IF ok' THEN received \cup {Head(wire[g]).id} ELSE received
               ELSE UNCHANGED <<wire, toLogic, ok, received>>
        \/ ok' = FALSE /\ UNCHANGED <<output, outbox, wire, toLogic, received>>
    /\ visiting' = visiting + 1
    /\ UNCHANGED <<serving, poller, toNet>>
    /\ NetUnchanged

\* while (running && ok), or running = false and the end.
Again ==
    /\ poller = "visit" /\ (visiting > Len(output) \/ ~ok)
    /\ IF serving /\ ok THEN poller' = "drain" /\ UNCHANGED serving ELSE Leave
    /\ UNCHANGED <<ok, visiting, toLogic, toNet, output, wire, outbox, received>>
    /\ NetUnchanged

\* worker.join(); closeLinks.
Join ==
    /\ poller = "joining" /\ logic = "done"
    /\ poller' = "ended"
    /\ UNCHANGED <<serving, ok, visiting, toLogic, toNet, output, wire, outbox, received>>
    /\ NetUnchanged

-----------------------------------------------------------------------------

\* A gateway forwards a request.
Ask ==
    /\ requested < MaxRequests
    /\ requested' = requested + 1
    /\ \E g \in Gateways, kind \in {"chat", "plain", "bad"} :
        wire' = [wire EXCEPT ![g] = Append(@, [id |-> requested + 1, from |-> g, kind |-> kind])]
    /\ UNCHANGED <<serving, ok, poller, visiting, logic, msg, toLogic, toNet, output, outbox, accepted, received>>

\* SIGTERM or SIGINT.
Signal ==
    /\ serving /\ poller \notin {"connect", "ended"}
    /\ serving' = FALSE
    /\ UNCHANGED <<ok, poller, visiting, logic, msg, toLogic, toNet, output, wire, requested, outbox, accepted, received>>

InLogic == Get \/ QueueBatch \/ QueueReply
InNet == Connect \/ Drain \/ Poll \/ Visit \/ Again \/ Join

ServiceNext == InLogic \/ InNet \/ Ask \/ Signal

ServiceSpec == ServiceInit /\ [][ServiceNext]_serviceVars

\* The two threads run.
ServiceFairness == WF_serviceVars(InLogic) /\ WF_serviceVars(InNet)

-----------------------------------------------------------------------------

\* What link g was given, written or not, followed by what the queue holds.
Sent(g) == outbox[g] \o output[g] \o toNet

\* The ids of the messages of a kind for link g, in order.
IdsFor(g, kind, s) ==
    FlattenSeq([i \in 1..Len(s) |-> IF s[i].to = g /\ s[i].kind = kind THEN <<s[i].id>> ELSE <<>>])

\* Every gateway is given the same pushes, those of the accepted messages and
\* no other, in the order they were accepted, and each request is answered at
\* most once: a batch that the queue refuses leaves nothing behind.
PushesAgree ==
    ok => \A g \in Gateways :
        /\ IdsFor(g, "push", Sent(g)) = accepted
        /\ IsInjective(IdsFor(g, "reply", Sent(g)))

Answered == UNION {ToSet(IdsFor(g, "reply", outbox[g] \o output[g])) : g \in Gateways}

\* A request was read, its link is still open, and no answer was encoded.
OwesReply == poller # "ended" /\ ~(received \subseteq Answered)

\* A request that was read is answered on its link, unless the service ends
\* and the gateway sees the link close: none is left to time out.
RequestsServed == OwesReply ~> ~OwesReply

=============================================================================
