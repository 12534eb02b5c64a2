--------------------------- MODULE AoiReplication ---------------------------
(***************************************************************************)
(* The copies of one worker's scene entities that the other workers keep:  *)
(* AoiService::ApplyLocal and RetryPublishes on the owner, the service     *)
(* messages between worker queues, onRemoteEntityEvent, FlushRemoteMoves,  *)
(* AoiReplica::Apply and ApplyOwnerSnapshot on the remote worker, and the  *)
(* recovery of LogicThread (onService, advanceAoiRecovery).                *)
(*                                                                         *)
(* One owner is modelled: entity ids carry the owner's number, so events   *)
(* of different owners never meet.  A send is accepted or refused freely,  *)
(* because a worker queue is shared with every other sender; a refused     *)
(* send that is only retried is a stuttering step.  The checks of kinds,   *)
(* ids, senders and bounds always succeed between workers of one process   *)
(* (EncodeEvent and DecodeEvent are inverse on valid events) and are left  *)
(* out, as is OnEntityReenter, which nothing calls.                        *)
(***************************************************************************)
EXTENDS Integers, Sequences, FiniteSets

CONSTANTS
    Entities,
    Positions,
    Remotes,        \* the workers that keep copies: hooks_.publishTargets
    MaxSeq,         \* bound: events the owner applies
    MaxRequests     \* bound: requests and snapshots under way for one worker

ASSUME ConstantsAssumption == /\ MaxSeq \in Nat /\ MaxRequests \in Nat \ {0}
                              /\ Entities # {} /\ Positions # {} /\ Remotes # {}

VARIABLES
    owned,          \* the owner's ents_
    generation,     \* LocalIdentity::generation
    log,            \* history: the applied events; ownerSeq_ is its length
    publishes,      \* pendingPublishes_
    answers,        \* pendingAoiSnapshots_
    requests,       \* AOI_OWNER_SNAPSHOT_REQ waiting in the owner's queue
    inbox,          \* the owner's messages in each remote worker's queue
    replica,        \* the remote's ents_, tombstones_ and ownerSnapshotSeq_
    moves,          \* pendingRemoteMoves_
    needs,          \* the owner is in ownersNeedingSnapshot_
    gone            \* history: the newest generation a remote has stopped showing

ownerVars == <<owned, generation, log, publishes>>
remoteVars == <<replica, moves, needs, gone>>
vars == <<ownerVars, answers, requests, inbox, remoteVars>>

ownerSeq == Len(log)

\* A generation of 0 stands for "not there" in all of these.
Absent == [gen |-> 0, ver |-> 0, pos |-> 0, seq |-> 0]
NoTomb == [gen |-> 0, seq |-> 0]
NoMove == [kind |-> "move", id |-> 0, gen |-> 0, ver |-> 0, pos |-> 0, seq |-> 0]
NoAnswer == [kind |-> "none", seq |-> 0, ents |-> [e \in Entities |-> Absent]]

Event(kind, e, gen, ver, pos, seq) ==
    [kind |-> kind, id |-> e, gen |-> gen, ver |-> ver, pos |-> pos, seq |-> seq]

\* updateEntity.
StateOf(ev) == [gen |-> ev.gen, ver |-> ev.ver, pos |-> ev.pos, seq |-> ev.seq]

-----------------------------------------------------------------------------
(* The owner.                                                              *)

\* ApplyLocal: the event takes the next sequence number, changes the owner's
\* own entities and waits for publication to every other worker.
ApplyLocal(kind, e, gen, ver, pos) ==
    LET ev == Event(kind, e, gen, ver, pos, ownerSeq + 1) IN
    /\ ownerSeq < MaxSeq
    /\ owned' = [owned EXCEPT ![e] = IF kind = "leave" THEN Absent ELSE StateOf(ev)]
    /\ log' = Append(log, ev)
    /\ publishes' = Append(publishes, [event |-> ev, remaining |-> Remotes])

\* OnEntityEnter: a new generation with spatial version 1.
Enter(e, pos) ==
    /\ owned[e] = Absent
    /\ ApplyLocal("entry", e, generation[e] + 1, 1, pos)
    /\ generation' = [generation EXCEPT ![e] = @ + 1]
    /\ UNCHANGED <<answers, requests, inbox, remoteVars>>

\* OnLocalEntityMoved.
Move(e, pos) ==
    /\ owned[e] # Absent /\ owned[e].pos # pos
    /\ ApplyLocal("move", e, owned[e].gen, owned[e].ver + 1, pos)
    /\ UNCHANGED <<generation, answers, requests, inbox, remoteVars>>

\* OnEntityLeave.
Leave(e) ==
    /\ owned[e] # Absent
    /\ ApplyLocal("leave", e, owned[e].gen, owned[e].ver + 1, owned[e].pos)
    /\ UNCHANGED <<generation, answers, requests, inbox, remoteVars>>

\* Mutant: a refused send is not tried again.
RemainingNobody(i, accepted) == {}

\* Who still misses publication i when the sends in accepted succeeded.
Remaining(i, accepted) == {r \in publishes[i].remaining : <<i, r>> \notin accepted}

\* The entries of s at the positions in K, in order.
Chosen(s, K) ==
    LET chosen[n \in 0..Len(s)] ==
            IF n = 0 THEN <<>>
            ELSE IF n \in K THEN Append(chosen[n - 1], s[n]) ELSE chosen[n - 1]
    IN chosen[Len(s)]

\* The publications after a tick, and the events that reach r in it.
Walked(accepted) ==
    [i \in 1..Len(publishes) |-> [publishes[i] EXCEPT !.remaining = Remaining(i, accepted)]]
Delivered(r, accepted) ==
    Chosen([i \in 1..Len(publishes) |-> publishes[i].event], {i \in DOMAIN publishes : <<i, r>> \in accepted})

\* RetryPublishes in one tick: the queue is walked from the front and every
\* remaining target of every entry is tried; accepted holds the sends that
\* the targets' queues took.
RetryPublishes(accepted) ==
    LET left == Walked(accepted) IN
    /\ inbox' = [r \in Remotes |-> inbox[r] \o Delivered(r, accepted)]
    /\ publishes' = Chosen(left, {i \in DOMAIN left : left[i].remaining # {}})
    /\ UNCHANGED <<owned, generation, log, answers, requests, remoteVars>>

\* The sends that a tick tries: a publication and one of its remaining targets.
Sends == {send \in (DOMAIN publishes) \X Remotes : send[2] \in publishes[send[1]].remaining}

OwnerTick == \E accepted \in (SUBSET Sends) \ {{}} : RetryPublishes(accepted)

\* The tick in which the oldest publication reaches one of its targets.
OldestDelivered ==
    \E accepted \in SUBSET Sends : (\E r \in Remotes : <<1, r>> \in accepted) /\ RetryPublishes(accepted)

\* BuildOwnerSnapshot.
BuildOwnerSnapshot == [kind |-> "snapshot", seq |-> ownerSeq, ents |-> owned]

\* onService for AOI_OWNER_SNAPSHOT_REQ: the answer replaces an older unsent one.
AnswerRequest(r) ==
    /\ requests[r] > 0
    /\ requests' = [requests EXCEPT ![r] = @ - 1]
    /\ answers' = [answers EXCEPT ![r] = BuildOwnerSnapshot]
    /\ UNCHANGED <<ownerVars, inbox, remoteVars>>

\* advanceAoiRecovery on the owner: an accepted answer is forgotten.
SendAnswer(r) ==
    /\ answers[r] # NoAnswer
    /\ inbox' = [inbox EXCEPT ![r] = Append(@, answers[r])]
    /\ answers' = [answers EXCEPT ![r] = NoAnswer]
    /\ UNCHANGED <<ownerVars, requests, remoteVars>>

-----------------------------------------------------------------------------
(* AoiReplica on the remote worker.                                        *)

Older(ev, s) == ev.gen < s.gen \/ (ev.gen = s.gen /\ ev.ver <= s.ver)

\* Mutant: Apply does not consult the tombstones.
VerdictNoTombs(rep, ev) ==
    IF ev.seq <= rep.water \/ Older(ev, rep.ents[ev.id]) THEN "ignored"
    ELSE IF ev.kind = "move" /\ rep.ents[ev.id].gen # ev.gen THEN "needSnapshot" ELSE "applied"

\* AoiReplica::Apply up to its verdict.
Verdict(rep, ev) ==
    IF ev.seq <= rep.water \/ rep.tombs[ev.id].gen >= ev.gen \/ Older(ev, rep.ents[ev.id])
    THEN "ignored"
    ELSE IF ev.kind = "move" /\ rep.ents[ev.id].gen # ev.gen THEN "needSnapshot"
    ELSE "applied"

\* onRemoteEntry, onRemoteMove and onRemoteLeave on the copies.
Applied(rep, ev) ==
    IF ev.kind = "leave"
    THEN [rep EXCEPT !.ents[ev.id] = Absent, !.tombs[ev.id] = [gen |-> ev.gen, seq |-> ev.seq]]
    ELSE [rep EXCEPT !.ents[ev.id] = StateOf(ev)]

\* ApplyOwnerSnapshot up to its verdict.
SnapshotVerdict(rep, snap) ==
    LET Contradicts(e) ==
            LET new == snap.ents[e]  old == rep.ents[e]  tomb == rep.tombs[e] IN
            /\ new # Absent
            /\ \/ new.seq > snap.seq
               \/ /\ old # Absent /\ old.seq <= snap.seq
                  /\ old.gen > new.gen \/ (old.gen = new.gen /\ old.ver > new.ver)
               \/ tomb # NoTomb /\ tomb.seq <= snap.seq /\ tomb.gen >= new.gen
    IN
    IF snap.seq <= rep.water THEN "ignored"
    ELSE IF \E e \in Entities : Contradicts(e) THEN "invalid"
    ELSE "applied"

\* Mutant: the snapshot replaces what later events brought.
CoveredAll(rep, snap) == snap.ents

\* The copies after a snapshot: what is newer than the snapshot stays.
Covered(rep, snap) ==
    [e \in Entities |->
        LET new == snap.ents[e]  old == rep.ents[e] IN
        IF new = Absent
        THEN IF old.seq <= snap.seq THEN Absent ELSE old
        ELSE IF old.seq > snap.seq \/ rep.tombs[e].seq > snap.seq THEN old ELSE new]

\* ApplyOwnerSnapshot: the copies are replaced and the watermark rises.
SnapshotApplied(rep, snap) == [rep EXCEPT !.ents = Covered(rep, snap), !.water = snap.seq]

\* The history of what remote r no longer shows.
Note(r, rep) ==
    gone' = [gone EXCEPT ![r] = [e \in Entities |->
               IF replica[r].ents[e].gen > gone[r][e] /\ rep.ents[e].gen # replica[r].ents[e].gen
               THEN replica[r].ents[e].gen ELSE gone[r][e]]]

-----------------------------------------------------------------------------
(* AoiService on the remote worker.                                        *)

\* onRemoteEntityEvent for a move: it waits for the tick, in place of an
\* older one of the same entity.
CoalesceMove(r, ev) ==
    /\ ev.kind = "move"
    /\ moves' = IF Older(ev, moves[r][ev.id]) THEN moves ELSE [moves EXCEPT ![r][ev.id] = ev]
    /\ UNCHANGED <<replica, needs, gone>>

\* An applied entry or leave makes the waiting move mv obsolete.
Supersedes(mv, ev) ==
    mv.gen < ev.gen \/ (mv.gen = ev.gen /\ (ev.kind = "leave" \/ mv.ver <= ev.ver))

\* onRemoteEntityEvent for an entry or a leave.
ApplyEvent(r, ev) ==
    /\ ev.kind \in {"entry", "leave"}
    /\ IF Verdict(replica[r], ev) = "applied"
       THEN LET rep == Applied(replica[r], ev) IN
            /\ replica' = [replica EXCEPT ![r] = rep]
            /\ Note(r, rep)
            /\ moves' = IF Supersedes(moves[r][ev.id], ev)
                        THEN [moves EXCEPT ![r][ev.id] = NoMove] ELSE moves
       ELSE UNCHANGED <<replica, moves, gone>>
    /\ UNCHANGED needs

\* ApplyOwnerSnapshot of the service.
ApplySnapshot(r, snap) ==
    /\ snap.kind = "snapshot"
    /\ IF SnapshotVerdict(replica[r], snap) = "applied"
       THEN LET rep == SnapshotApplied(replica[r], snap) IN
            /\ replica' = [replica EXCEPT ![r] = rep]
            /\ Note(r, rep)
            /\ moves' = [moves EXCEPT ![r] = [e \in Entities |->
                           IF moves[r][e].seq <= snap.seq THEN NoMove ELSE moves[r][e]]]
            /\ needs' = [needs EXCEPT ![r] = FALSE]
       ELSE UNCHANGED remoteVars

\* One service message of the owner is handled (onService, AoiServiceRouter::Dispatch).
Receive(r) ==
    /\ inbox[r] # <<>>
    /\ inbox' = [inbox EXCEPT ![r] = Tail(@)]
    /\ LET m == Head(inbox[r]) IN CoalesceMove(r, m) \/ ApplyEvent(r, m) \/ ApplySnapshot(r, m)
    /\ UNCHANGED <<ownerVars, answers, requests>>

\* FlushRemoteMoves in the remote's tick: a move that meets no entity of its
\* generation is dropped and the owner is noted as needing a snapshot.
FlushRemoteMoves(r) ==
    LET Waits(e) == moves[r][e] # NoMove
        Says(e) == Verdict(replica[r], moves[r][e])
        rep == [replica[r] EXCEPT !.ents = [e \in Entities |->
                  IF Waits(e) /\ Says(e) = "applied" THEN StateOf(moves[r][e]) ELSE replica[r].ents[e]]]
    IN
    /\ \E e \in Entities : Waits(e)
    /\ replica' = [replica EXCEPT ![r] = rep]
    /\ moves' = [moves EXCEPT ![r] = [e \in Entities |-> NoMove]]
    /\ needs' = [needs EXCEPT ![r] = @ \/ \E e \in Entities : Waits(e) /\ Says(e) = "needSnapshot"]
    /\ UNCHANGED <<gone, ownerVars, answers, requests, inbox>>

\* The requests of r that are not answered and the answers r has not seen.
UnderWay(r) ==
    requests[r] + (IF answers[r] = NoAnswer THEN 0 ELSE 1)
        + Cardinality({i \in DOMAIN inbox[r] : inbox[r][i].kind = "snapshot"})

\* advanceAoiRecovery on the remote: the request is repeated every round
\* until a snapshot has been applied, whether or not an earlier one was taken.
RequestSnapshot(r) ==
    /\ needs[r] /\ UnderWay(r) < MaxRequests
    /\ requests' = [requests EXCEPT ![r] = @ + 1]
    /\ UNCHANGED <<ownerVars, answers, inbox, remoteVars>>

-----------------------------------------------------------------------------
Init ==
    /\ owned = [e \in Entities |-> Absent]
    /\ generation = [e \in Entities |-> 0]
    /\ log = <<>>
    /\ publishes = <<>>
    /\ answers = [r \in Remotes |-> NoAnswer]
    /\ requests = [r \in Remotes |-> 0]
    /\ inbox = [r \in Remotes |-> <<>>]
    /\ replica = [r \in Remotes |-> [ents |-> [e \in Entities |-> Absent],
                                     tombs |-> [e \in Entities |-> NoTomb], water |-> -1]]
    /\ moves = [r \in Remotes |-> [e \in Entities |-> NoMove]]
    /\ needs = [r \in Remotes |-> FALSE]
    /\ gone = [r \in Remotes |-> [e \in Entities |-> 0]]

Next ==
    \/ \E e \in Entities, pos \in Positions : Enter(e, pos) \/ Move(e, pos)
    \/ \E e \in Entities : Leave(e)
    \/ OwnerTick
    \/ \E r \in Remotes : AnswerRequest(r) \/ SendAnswer(r)
    \/ \E r \in Remotes : Receive(r) \/ FlushRemoteMoves(r) \/ RequestSnapshot(r)

Spec == Init /\ [][Next]_vars

\* Every worker keeps running its loop, and no worker queue stays full for
\* ever: a send that is retried at every tick is accepted in the end.
Fairness ==
    /\ WF_vars(OldestDelivered)
    /\ \A r \in Remotes :
         /\ WF_vars(AnswerRequest(r)) /\ WF_vars(SendAnswer(r))
         /\ WF_vars(Receive(r)) /\ WF_vars(FlushRemoteMoves(r)) /\ WF_vars(RequestSnapshot(r))

FairSpec == Spec /\ Fairness

-----------------------------------------------------------------------------
(* Properties.                                                             *)

States == [gen : Nat, ver : Nat, pos : Positions \cup {0}, seq : 0..MaxSeq]

TypeOK ==
    /\ owned \in [Entities -> States]
    /\ generation \in [Entities -> Nat]
    /\ requests \in [Remotes -> 0..MaxRequests]
    /\ replica \in [Remotes -> [ents : [Entities -> States],
                                tombs : [Entities -> [gen : Nat, seq : 0..MaxSeq]],
                                water : -1..MaxSeq]]
    /\ needs \in [Remotes -> BOOLEAN]
    /\ gone \in [Remotes -> [Entities -> Nat]]

\* The state s of entity e is what event s.seq of the owner left behind.
Published(e, s) ==
    s # Absent => /\ s.seq \in DOMAIN log
                  /\ log[s.seq].id = e /\ log[s.seq].kind # "leave" /\ StateOf(log[s.seq]) = s

\* A worker never shows again a generation of an entity it has stopped
\* showing, and never an older spatial version of the one it shows, however
\* events, retries and snapshots are reordered.
NeverBackwards ==
    [][\A r \in Remotes, e \in Entities :
         LET a == replica[r].ents[e]  b == replica'[r].ents[e] IN
         b.gen # 0 => b.gen > gone[r][e] /\ (b.gen = a.gen => b.ver >= a.ver)]_vars

\* Nothing of the owner is under way to worker r and r asks for nothing.
Quiet(r) ==
    /\ \A i \in DOMAIN publishes : r \notin publishes[i].remaining
    /\ inbox[r] = <<>> /\ moves[r] = [e \in Entities |-> NoMove] /\ ~needs[r]

\* Worker r shows the generations the owner has, no more and no less.
Mirrors(r) == \A e \in Entities : replica[r].ents[e].gen = owned[e].gen

\* What a worker shows of another worker's entity is exactly what one event
\* of the owner published (no mixture of two events, nothing invented), also
\* inside snapshots and for the tombstones; a snapshot never contradicts its
\* receiver, so ApplyOwnerSnapshot never returns kInvalid; and whenever
\* nothing is under way, a worker shows exactly the entities the owner has:
\* no entry or leave is lost between refused sends, coalesced moves and
\* snapshots that overtake events.
ReplicaInv ==
    /\ TypeOK
    /\ \A e \in Entities : Published(e, owned[e]) /\ owned[e].gen \in {0, generation[e]}
    /\ \A r \in Remotes :
         /\ \A e \in Entities :
              /\ Published(e, replica[r].ents[e])
              /\ LET t == replica[r].tombs[e] IN
                 t # NoTomb => log[t.seq].id = e /\ log[t.seq].kind = "leave" /\ log[t.seq].gen = t.gen
         /\ \A i \in DOMAIN inbox[r] :
              inbox[r][i].kind = "snapshot" =>
                  /\ \A e \in Entities : Published(e, inbox[r][i].ents[e])
                  /\ SnapshotVerdict(replica[r], inbox[r][i]) # "invalid"
         /\ Quiet(r) => Mirrors(r)

\* Once the owner's entities stop changing, every other worker comes to show
\* exactly them.
EventuallyMirrored == \A r \in Remotes : <>[]Mirrors(r)

\* Refuted: whenever nothing is under way, the positions agree as well.
QuietExact == \A r \in Remotes : Quiet(r) => \A e \in Entities : replica[r].ents[e] = owned[e]
=============================================================================
