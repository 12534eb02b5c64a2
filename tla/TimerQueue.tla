----------------------------- MODULE TimerQueue -----------------------------
(***************************************************************************)
(* The gateway's TimerQueue: timers ordered by expiry, one timerfd armed   *)
(* on tick boundaries, and handleRead, which takes the expired timers out, *)
(* runs their callbacks and puts the repeating ones back.  Callbacks add   *)
(* and cancel timers in the middle of it; calls from other threads arrive  *)
(* through the loop, between two handleReads.                              *)
(***************************************************************************)
EXTENDS Integers, FiniteSets, Functions, FiniteSetsExt

CONSTANTS
    GateTimers,     \* timers a program creates
    Interval,       \* Interval[t]: 0 for a one-shot timer
    kTickUs,        \* the tick timers are aligned to
    GateDelays,     \* delays asked for
    MaxTime         \* bound: the clock

ASSUME QueueAssumption ==
    kTickUs \in Nat \ {0} /\ GateDelays \subseteq Nat /\ \A t \in GateTimers : Interval[t] \in Nat

VARIABLES
    now,            \* Timestamp::now
    timers,         \* timers_ and activeTimers_: expiry of every queued timer
    created,        \* timers that were added
    armedUs,        \* armedUs_; 0: not armed
    fd,             \* when the timerfd becomes readable; 0: never
    expired,        \* the batch of handleRead that has not run yet
    ran,            \* the part that has
    stamp,          \* now in handleRead
    handling,       \* handleTimer_
    cancelling,     \* cancelligTimer_
    cancelled       \* history: timers whose cancellation was processed

queueVars == <<now, timers, created, armedUs, fd, expired, ran, stamp, handling, cancelling, cancelled>>

NoTimers == [t \in {} |-> 0]

QueueInit ==
    /\ now = 1 /\ stamp = 0
    /\ timers = NoTimers /\ expired = NoTimers
    /\ created = {} /\ ran = {} /\ cancelling = {} /\ cancelled = {}
    /\ armedUs = 0 /\ fd = 0
    /\ handling = FALSE

Queued == DOMAIN timers
Earliest(q) == Min({q[t] : t \in DOMAIN q})
Without(q, S) == Restrict(q, DOMAIN q \ S)
With(q, t, when) == [u \in DOMAIN q \cup {t} |-> IF u = t THEN when ELSE q[u]]

alignUpTickUs(us) == ((us + kTickUs - 1) \div kTickUs) * kTickUs

\* armTimerFd and howMuchTimeFromNow: an expiry in the past fires at once.
ArmTimerFd(when) ==
    LET aligned == alignUpTickUs(when) IN
    IF armedUs # 0 /\ armedUs = aligned THEN UNCHANGED <<armedUs, fd>>
    ELSE armedUs' = aligned /\ fd' = Max({aligned, now + 1})

\* A callback is running, or the loop is between two handleReads.
InCallback == handling /\ ran # {}
MayCall == InCallback \/ ~handling

QueueTimer(t) ==
    /\ MayCall /\ t \notin created
    /\ created' = created \cup {t}
    /\ \E d \in GateDelays :
        /\ timers' = With(timers, t, now + d)
        /\ IF Queued = {} \/ now + d < Earliest(timers)
           THEN ArmTimerFd(now + d) ELSE UNCHANGED <<armedUs, fd>>
    /\ UNCHANGED <<now, expired, ran, stamp, handling, cancelling, cancelled>>

\* cancelInLoop
CancelTimer(t) ==
    /\ MayCall /\ t \in created
    /\ timers' = Without(timers, {t})
    /\ cancelling' = IF t \notin Queued /\ handling THEN cancelling \cup {t} ELSE cancelling
    /\ cancelled' = cancelled \cup {t}
    /\ UNCHANGED <<now, created, armedUs, fd, expired, ran, stamp, handling>>

\* The timerfd is readable: handleRead up to the callbacks, with getExpired.
TimerRead ==
    /\ ~handling /\ fd # 0 /\ fd <= now
    /\ armedUs' = 0 /\ fd' = 0
    /\ stamp' = now /\ handling' = TRUE /\ ran' = {}
    /\ expired' = Restrict(timers, {t \in Queued : timers[t] <= now})
    /\ timers' = Restrict(timers, {t \in Queued : timers[t] > now})
    /\ UNCHANGED <<now, created, cancelling, cancelled>>

\* The next callback, in the order of expiry; Timer::cancel has no caller, so
\* isCancelled() never holds one back.
RunCallback ==
    /\ handling
    /\ \E t \in DOMAIN expired :
        /\ expired[t] = Earliest(expired)
        /\ expired' = Without(expired, {t})
        /\ ran' = ran \cup {t}
    /\ UNCHANGED <<now, timers, created, armedUs, fd, stamp, handling, cancelling, cancelled>>

\* Mutant: a timer cancelled by a callback is put back.
RestartedAll == {t \in ran : Interval[t] > 0}

Restarted == {t \in ran \ cancelling : Interval[t] > 0}

\* reset: repeating timers go back unless cancelled meanwhile, the rest is freed.
Reset ==
    /\ handling /\ DOMAIN expired = {}
    /\ handling' = FALSE /\ cancelling' = {} /\ ran' = {}
    /\ LET left == [t \in Queued \cup Restarted |->
                        IF t \in Restarted THEN stamp + Interval[t] ELSE timers[t]]
       IN  /\ timers' = left
           /\ IF DOMAIN left = {} THEN UNCHANGED <<armedUs, fd>> ELSE ArmTimerFd(Earliest(left))
    /\ UNCHANGED <<now, created, expired, stamp, cancelled>>

QueueClock ==
    /\ now < MaxTime
    /\ now' = now + 1
    /\ UNCHANGED <<timers, created, armedUs, fd, expired, ran, stamp, handling, cancelling, cancelled>>

QueueNext ==
    \/ \E t \in GateTimers : QueueTimer(t) \/ CancelTimer(t)
    \/ TimerRead \/ RunCallback \/ Reset \/ QueueClock

QueueSpec == QueueInit /\ [][QueueNext]_queueVars

-----------------------------------------------------------------------------

\* Between two handleReads the timerfd covers the earliest timer: it is armed
\* for that timer's tick or sooner, whatever was added, cancelled or put back
\* while callbacks ran and the arming was deduplicated.
FdCovers ==
    ~handling /\ Queued # {} => fd # 0 /\ fd <= Max({alignUpTickUs(Earliest(timers)), now + 1})

\* A timer that was cancelled is not queued again, even when the callback
\* that cancelled it was its own.
CancelledGone == cancelled \cap Queued = {}

TimersCovered == FdCovers /\ CancelledGone

\* A cancelled timer is not run any more either; a callback of the batch that
\* is being run cannot stop another of the batch.
CancelledSilent == [][\A t \in cancelled : t \in ran' => t \in ran]_queueVars

=============================================================================
