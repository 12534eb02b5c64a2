------------------------------ MODULE TimerWheel ------------------------------
(***************************************************************************)
(* TimerThread: the scene server's timer wheel.  Logic threads queue ADD   *)
(* and CANCEL commands; the timer thread takes some of them, then moves    *)
(* the wheel to where the real clock says it should be (at most CatchUp    *)
(* ticks at a time; what it skips is never made up), and fires what is due.*)
(*                                                                         *)
(* Real time is clock, in units of which a tick has Unit; it may pass      *)
(* between any two steps.  A timer keeps, besides the code's fields, when  *)
(* it was asked for and the tick it is due at, for the properties.  The    *)
(* message a firing timer sends to its worker is left out: a full worker   *)
(* queue drops it and the wheel does not notice.                           *)
(***************************************************************************)
EXTENDS Integers, Sequences, FiniteSets

CONSTANTS
    Users,            \* timer ids of the callers (Timer::NextTimerId)
    Delays,           \* intervalMs, in units
    Unit,             \* tick_ms_, in units
    Slots,            \* wheel_slots_
    CatchUp,          \* kMaxCatchupTicks
    MaxPending,       \* kMaxPendingCommands
    MaxClock,         \* bound: real time
    MaxIds,           \* bound: internal ids
    MaxAsked,         \* bound: commands ever accepted
    MaxStops          \* bound: stop() calls

ASSUME WheelAssumption ==
    /\ Slots \in Nat /\ Slots > 1
    /\ Unit \in Nat \ {0} /\ CatchUp \in Nat \ {0} /\ MaxPending \in Nat \ {0}
    /\ Delays \subseteq Nat
    /\ {MaxClock, MaxIds, MaxAsked, MaxStops} \subseteq Nat

VARIABLES
    clock,        \* steady_clock
    started,      \* start: the clock when the thread started
    cmds,         \* cmd_queue_
    phase,        \* "ops": taking commands; "tick": moving the wheel; "stopped"
    todo,         \* ticks left to move in this round
    advanced,     \* advanced_ticks_
    skipped,      \* skipped_ticks_
    cur,          \* cur_slot_
    slots,        \* slots_
    live,         \* live_: the timers, by internal id
    byUser,       \* byUser_
    nextId,       \* next_internal_id_
    asked,        \* commands accepted so far (bounded)
    stops         \* stop() calls so far (bounded)

wheel == <<cur, slots, live, byUser, nextId>>
position == <<todo, advanced, skipped>>
vars == <<clock, started, cmds, phase, position, wheel, asked, stops>>

SlotIds == 0..(Slots - 1)
Ids == 1..MaxIds

Larger(a, b) == IF a > b THEN a ELSE b

\* insert: a delay in whole ticks, rounded up, at least one.
TicksOf(delay) == (Larger(delay, Unit) + Unit - 1) \div Unit

Empty == [i \in {} |-> 0]

Init ==
    /\ clock = 0 /\ started = 0
    /\ cmds = <<>>
    /\ phase = "ops"
    /\ todo = 0 /\ advanced = 0 /\ skipped = 0
    /\ cur = 0
    /\ slots = [s \in SlotIds |-> {}]
    /\ live = Empty
    /\ byUser = [u \in Users |-> {}]
    /\ nextId = 1
    /\ asked = 0 /\ stops = 0

TimePasses ==
    /\ clock < MaxClock
    /\ clock' = clock + 1
    /\ UNCHANGED <<started, cmds, phase, position, wheel, asked, stops>>

-----------------------------------------------------------------------------
(* The producers: addTimer and cancel.                                     *)

Push(op) ==
    /\ phase # "stopped" /\ Len(cmds) < MaxPending
    /\ asked < MaxAsked
    /\ cmds' = Append(cmds, op)
    /\ asked' = asked + 1
    /\ UNCHANGED <<clock, started, phase, position, wheel, stops>>

AddTimer(u, delay, repeat) ==
    Push([kind |-> "add", user |-> u, delay |-> delay, repeat |-> repeat, at |-> clock])

Cancel(u) ==
    Push([kind |-> "cancel", user |-> u, delay |-> 0, repeat |-> FALSE, at |-> clock])

-----------------------------------------------------------------------------
(* The timer thread.                                                       *)

\* Mutant of LeftRound: long delays wrap.
LeftRoundNone(ticks) == 0

\* insert: the slot, and the whole turns of the wheel before it counts.
LeftRound(ticks) == ticks \div Slots
SlotFor(at, ticks) == (at + (ticks % Slots)) % Slots

Timer(user, delay, repeat, at, tick) ==
    [user |-> user, delay |-> Larger(delay, Unit), repeat |-> repeat,
     left |-> LeftRound(TicksOf(delay)), at |-> at, due |-> tick + TicksOf(delay)]

\* doAdd.
DoAdd(op) ==
    /\ nextId <= MaxIds
    /\ live' = [i \in DOMAIN live \cup {nextId} |->
                  IF i = nextId THEN Timer(op.user, op.delay, op.repeat, op.at, advanced)
                  ELSE live[i]]
    /\ slots' = [slots EXCEPT ![SlotFor(cur, TicksOf(op.delay))] = @ \cup {nextId}]
    /\ byUser' = [byUser EXCEPT ![op.user] = @ \cup {nextId}]
    /\ nextId' = nextId + 1
    /\ UNCHANGED cur

\* doCancel: the ids stay in their slots until the wheel passes there.
DoCancel(op) ==
    /\ live' = [i \in DOMAIN live \ byUser[op.user] |-> live[i]]
    /\ byUser' = [byUser EXCEPT ![op.user] = {}]
    /\ UNCHANGED <<cur, slots, nextId>>

\* processOps, one command.
ProcessOp ==
    /\ phase = "ops" /\ cmds # <<>>
    /\ cmds' = Tail(cmds)
    /\ IF Head(cmds).kind = "add" THEN DoAdd(Head(cmds)) ELSE DoCancel(Head(cmds))
    /\ UNCHANGED <<clock, started, phase, position, asked, stops>>

\* run: how far the wheel is behind the real clock.
Behind == Larger((clock - started) \div Unit - skipped - advanced, 0)

\* run: the ticks of this round, after as many commands as the round allows.
StartRound ==
    /\ phase = "ops" /\ Behind > 0
    /\ todo' = IF Behind > CatchUp THEN CatchUp ELSE Behind
    /\ skipped' = IF Behind > CatchUp THEN skipped + Behind - CatchUp ELSE skipped
    /\ phase' = "tick"
    /\ UNCHANGED <<clock, started, cmds, advanced, wheel, asked, stops>>

\* collect: the timers of the slot that fire now.
Fired(slot) == {i \in slots[slot] \cap DOMAIN live : live[i].left = 0}
\* Mutant of Kept: the bucket is emptied.
KeptNone(slot) == {}

Kept(slot) == {i \in slots[slot] \cap DOMAIN live : live[i].left > 0}
Repeating(slot) == {i \in Fired(slot) : live[i].repeat}

\* fire: a repeating timer comes back under a new internal id.
NewId(slot, i) == nextId + Cardinality({j \in Repeating(slot) : j < i})
Reborn(slot) == {NewId(slot, i) : i \in Repeating(slot)}
BornOf(slot, n) == CHOOSE i \in Repeating(slot) : NewId(slot, i) = n

\* collect and fire, for the slot the wheel comes to.  A fired one-shot timer
\* leaves byUser; the old id of a repeating one does not.
Turn(slot) ==
    /\ nextId + Cardinality(Repeating(slot)) <= MaxIds + 1
    /\ live' = [i \in (DOMAIN live \ Fired(slot)) \cup Reborn(slot) |->
                  IF i \in Reborn(slot)
                  THEN LET old == live[BornOf(slot, i)] IN
                       Timer(old.user, old.delay, TRUE, clock, advanced + 1)
                  ELSE IF i \in Kept(slot) THEN [live[i] EXCEPT !.left = @ - 1]
                  ELSE live[i]]
    /\ slots' = [s \in SlotIds |->
                   (IF s = slot THEN Kept(s) ELSE slots[s])
                     \cup {n \in Reborn(slot) :
                             SlotFor(slot, TicksOf(live[BornOf(slot, n)].delay)) = s}]
    /\ byUser' = [u \in Users |->
                    (byUser[u] \ {i \in Fired(slot) : live[i].user = u /\ ~live[i].repeat})
                      \cup {n \in Reborn(slot) : live[BornOf(slot, n)].user = u}]
    /\ nextId' = nextId + Cardinality(Repeating(slot))
    /\ cur' = slot

Tick ==
    /\ phase = "tick"
    /\ Turn((cur + 1) % Slots)
    /\ advanced' = advanced + 1
    /\ todo' = todo - 1
    /\ phase' = IF todo = 1 THEN "ops" ELSE "tick"
    /\ UNCHANGED <<clock, started, cmds, skipped, asked, stops>>

\* clearAll: the containers and the position, not the commands.
ClearAll ==
    /\ slots' = [s \in SlotIds |-> {}]
    /\ live' = Empty
    /\ byUser' = [u \in Users |-> {}]
    /\ nextId' = 1
    /\ advanced' = 0 /\ skipped' = 0

\* stop and join; the thread stops between two rounds or between two ticks.
Stop ==
    /\ phase # "stopped" /\ stops < MaxStops
    /\ phase' = "stopped"
    /\ todo' = 0
    /\ ClearAll
    /\ stops' = stops + 1
    /\ UNCHANGED <<clock, started, cmds, cur, asked>>

Start ==
    /\ phase = "stopped"
    /\ phase' = "ops"
    /\ started' = clock
    /\ cur' = 0
    /\ UNCHANGED <<clock, cmds, position, slots, live, byUser, nextId, asked, stops>>

\* The bounds are used up.
Quiescent == clock = MaxClock /\ UNCHANGED vars

Next ==
    \/ TimePasses
    \/ \E u \in Users : Cancel(u) \/ \E d \in Delays, r \in BOOLEAN : AddTimer(u, d, r)
    \/ ProcessOp \/ StartRound \/ Tick
    \/ Stop \/ Start
    \/ Quiescent

Spec == Init /\ [][Next]_vars

-----------------------------------------------------------------------------
(* Properties.                                                             *)

Commands == [kind : {"add", "cancel"}, user : Users, delay : Nat, repeat : BOOLEAN, at : Nat]
Timers == [user : Users, delay : Nat, repeat : BOOLEAN, left : Nat, at : Nat, due : Nat]
Used == 1..(nextId - 1)

\* Every variable has the shape the code's structures give it, no id that is
\* still to be given is in use, and a stopped wheel is as clearAll left it.
TypeOK ==
    /\ clock \in 0..MaxClock /\ started \in 0..clock
    /\ cmds \in Seq(Commands) /\ Len(cmds) <= MaxPending
    /\ phase \in {"ops", "tick", "stopped"}
    /\ todo \in 0..CatchUp /\ (phase = "tick" <=> todo > 0)
    /\ advanced \in Nat /\ skipped \in Nat
    /\ nextId \in 1..(MaxIds + 1)
    /\ cur \in SlotIds /\ slots \in [SlotIds -> SUBSET Used]
    /\ DOMAIN live \subseteq Used /\ live \in [DOMAIN live -> Timers]
    /\ byUser \in [Users -> SUBSET Used]
    /\ asked \in 0..MaxAsked /\ stops \in 0..MaxStops
    /\ phase = "stopped" => DOMAIN live = {} /\ advanced = 0 /\ skipped = 0

\* The wheel is never ahead of the real clock, however late a round is.
NeverAhead == (advanced + todo + skipped) * Unit <= clock - started

\* Every live timer is in exactly one slot, where the wheel will find it.
InOneSlot == \A i \in DOMAIN live : \E s \in SlotIds : {t \in SlotIds : i \in slots[t]} = {s}

\* The ticks until a wheel at slot from comes to slot s.
Distance(from, s) == IF s > from THEN s - from ELSE s - from + Slots

\* A live timer will be fired from its slot no earlier than the tick it is
\* due at, and at most one turn of the wheel later.
FiresInTime ==
    \A i \in DOMAIN live, s \in SlotIds :
        i \in slots[s] =>
            /\ live[i].due <= advanced + Distance(cur, s) + live[i].left * Slots
            /\ advanced + Distance(cur, s) + live[i].left * Slots <= live[i].due + Slots

\* A CANCEL finds every live timer of its user: no repetition of a timer is
\* left to fire after its cancellation.
CancelFindsAll == \A i \in DOMAIN live : i \in byUser[live[i].user]

FiredNow == {i \in DOMAIN live : phase = "tick" /\ i \in Fired((cur + 1) % Slots)}

\* In wheel time nothing fires before it is due, and nothing stays longer
\* than one more turn of the wheel.
DueInWheelTime ==
    /\ \A i \in FiredNow : live[i].due <= advanced + 1
    /\ \A i \in DOMAIN live : advanced < live[i].due + Slots

\* A timer fires at the tick it is due at.
FiresAtItsTick == \A i \in FiredNow : live[i].due = advanced + 1

\* A timer does not fire before its delay has passed in real time.
NeverEarly == \A i \in FiredNow : clock >= live[i].at + live[i].delay

\* The ticks a late round skips are made up by later rounds: a wheel with
\* nothing left to do stands where the real clock says.
SkippedIsMadeUp == phase = "ops" /\ Behind = 0 => advanced = (clock - started) \div Unit

\* byUser_ holds the ids of live timers only.
ByUserIsLive == \A u \in Users : byUser[u] \subseteq DOMAIN live

\* The wheel keeps its types, is never ahead of the real clock, and has every
\* live timer in exactly one slot, from which it will fire in time, and in
\* the list a CANCEL goes through.
WheelInv ==
    /\ TypeOK
    /\ NeverAhead
    /\ InOneSlot
    /\ FiresInTime
    /\ CancelFindsAll
=============================================================================
