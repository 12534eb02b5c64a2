----------------------------- MODULE EventLoop -----------------------------
(***************************************************************************)
(* The gateway's EventLoop with the thread that runs it (EventLoopThread): *)
(* blocking poll, event handlers, pendingFunc_, the eventfd that wakes the *)
(* poll, and quit().  A function is queued under the mutex and the wake-up *)
(* is written after it, so the two are separate steps.                     *)
(***************************************************************************)
EXTENDS Naturals, Sequences, FiniteSets

CONSTANTS
    Posters,        \* threads that call runInLoop from outside
    MaxFuncs        \* bound: functions queued

VARIABLES
    phase,          \* where loop() is
    quit,           \* quit_
    woken,          \* weakFd_ is readable
    pendingFunc,    \* pendingFunc_
    batch,          \* the list doPendingFuncs has swapped out
    posting,        \* posters between push_back and weakup()
    quitting,       \* a caller of quit() between the store and weakup()
    queued          \* functions queued so far (bounded)

vars == <<phase, quit, woken, pendingFunc, batch, posting, quitting, queued>>

\* threadFunc has published loop_; loop() has not begun.
Init ==
    /\ phase = "published"
    /\ quit = FALSE /\ woken = FALSE /\ quitting = FALSE
    /\ pendingFunc = <<>> /\ batch = <<>>
    /\ posting = {}
    /\ queued = 0

callingPendingFunc == phase \in {"pending", "last"}

\* queueInLoop from the loop's own thread wakes only inside doPendingFuncs.
QueueSilently == queued < MaxFuncs /\ queued' = queued + 1 /\ pendingFunc' = Append(pendingFunc, queued + 1)

QueueInThread ==
    /\ QueueSilently
    /\ woken' = (woken \/ callingPendingFunc)

\* queueInLoop from another thread: under the lock, then weakup().
QueueInLoop(t) ==
    /\ t \notin posting
    /\ QueueSilently
    /\ posting' = posting \cup {t}
    /\ UNCHANGED <<phase, quit, woken, batch, quitting>>

Weakup(t) ==
    /\ t \in posting
    /\ posting' = posting \ {t}
    /\ woken' = TRUE
    /\ UNCHANGED <<phase, quit, pendingFunc, batch, quitting, queued>>

\* quit() from another thread, which returns early when quit_ is already set.
Quit ==
    /\ ~quit /\ phase # "ended"
    /\ quit' = TRUE /\ quitting' = TRUE
    /\ UNCHANGED <<phase, woken, pendingFunc, batch, posting, queued>>

QuitWakes ==
    /\ quitting
    /\ quitting' = FALSE /\ woken' = TRUE
    /\ UNCHANGED <<phase, quit, pendingFunc, batch, posting, queued>>

\* loop() clears quit_, also when quit() came before it.
Enter ==
    /\ phase = "published"
    /\ phase' = "poll"
    /\ quit' = FALSE
    /\ UNCHANGED <<woken, pendingFunc, batch, posting, quitting, queued>>

\* poll(-1) returns for the eventfd, which handleWeakup empties ...
PollWoken ==
    /\ phase = "poll" /\ woken
    /\ phase' = "swap" /\ woken' = FALSE
    /\ UNCHANGED <<quit, pendingFunc, batch, posting, quitting, queued>>

\* ... or for another descriptor, whose handler may queue a function.
PollEvent ==
    /\ phase = "poll"
    /\ phase' = "swap"
    /\ QueueInThread
    /\ UNCHANGED <<quit, batch, posting, quitting>>

Swap(from, to) ==
    /\ phase = from /\ phase' = to
    /\ batch' = pendingFunc /\ pendingFunc' = <<>>
    /\ UNCHANGED <<quit, woken, posting, quitting, queued>>

DoPendingFuncs == Swap("swap", "pending") \/ Swap("leaving", "last")

\* One function of the batch, which may queue another.
RunFunc ==
    /\ callingPendingFunc /\ batch # <<>>
    /\ batch' = Tail(batch)
    /\ QueueInThread \/ UNCHANGED <<pendingFunc, woken, queued>>
    /\ UNCHANGED <<phase, quit, posting, quitting>>

\* while(!quit_), and doPendingFuncs once more after it.
LoopAgain ==
    /\ callingPendingFunc /\ batch = <<>>
    /\ phase' = CASE phase = "last" -> "ended"
                  [] phase = "pending" /\ quit -> "leaving"
                  [] phase = "pending" /\ ~quit -> "poll"
    /\ UNCHANGED <<quit, woken, pendingFunc, batch, posting, quitting, queued>>

\* What the thread does without another descriptor becoming ready.
Steps == Enter \/ PollWoken \/ DoPendingFuncs \/ RunFunc \/ LoopAgain

Next == Steps \/ PollEvent \/ Quit \/ QuitWakes \/ \E t \in Posters : QueueInLoop(t) \/ Weakup(t)

\* The thread runs and threads finish their calls.
Fairness == WF_vars(Steps) /\ WF_vars(QuitWakes) /\ \A t \in Posters : WF_vars(Weakup(t))

-----------------------------------------------------------------------------

\* A function waits to be run, or quit() found the loop running.
Owes == phase # "ended" /\ (pendingFunc # <<>> \/ batch # <<>> \/ (quit /\ phase # "published"))

\* Although the poll blocks without a timeout, queued functions are run and
\* quit() ends the loop (functions are bounded, so what stays owed is lost).
LoopServes == Owes ~> ~Owes

=============================================================================
