---------------------------- MODULE AsyncLogger ----------------------------
(***************************************************************************)
(* AsyncLogger: lines appended under a lock to a current buffer, a writer  *)
(* thread that exchanges full and current buffers for its two spares, and  *)
(* stop().  A line has a length; a fresh Buffer has no room, and one that  *)
(* was emptied keeps the room it grew to.  Files: lines go to the file     *)
(* that is open, the roll size is looked at when one is opened, and an     *)
(* open or a write may fail: the buffers are emptied all the same.         *)
(***************************************************************************)
EXTENDS Integers, Sequences, SequencesExt

CONSTANTS
    Lengths,        \* lengths of lines
    rollSize,       \* rollSize_
    MaxLines,       \* bound: lines appended
    MaxDays         \* bound: changes of the date

ASSUME LoggerAssumption == Lengths \subseteq Nat

VARIABLES
    current,        \* currentBuffer_
    next,           \* nextBuffer_
    buffers,        \* buffers_
    running,        \* running_
    spareA, spareB, \* buffA and buffB of threadFunc
    toWrite,        \* buffersToWrite
    writer,         \* where the back thread is
    file,           \* hasWritenBytes_ of the open file; closed: -1
    failed,         \* the open file_ failed, and stays failed
    earlier,        \* bytes an earlier process left in the file of the first day
    day,            \* changes of the date so far
    fileDay,        \* lastData_
    appended,       \* history: lines appended, in order
    handed,         \* history: lines handed to write(), in order
    lost,           \* history: those that may be in no file, with the day
    badDays,        \* history: days on which an open or a write failed
    mark            \* history: lines appended when stop() was called

loggerVars == <<current, next, buffers, running, spareA, spareB, toWrite, writer,
          file, failed, earlier, day, fileDay, appended, handed, lost, badDays, mark>>

fileVars == <<file, failed, earlier, fileDay, handed, lost, badDays>>

\* A buffer somebody holds, the room left in it, the bytes and the lines in it.
Null == [held |-> FALSE, room |-> 0, used |-> 0, lines |-> <<>>]
Fresh == [held |-> TRUE, room |-> 0, used |-> 0, lines |-> <<>>]

LoggerInit ==
    /\ current = Fresh /\ next = Fresh /\ buffers = <<>>
    /\ running = TRUE
    /\ spareA = Fresh /\ spareB = Fresh /\ toWrite = <<>>
    /\ writer = "check"
    /\ earlier \in {0, rollSize}
    /\ file = -1 /\ failed = FALSE /\ day = 1 /\ fileDay = 0
    /\ appended = <<>> /\ handed = <<>> /\ lost = {} /\ badDays = {} /\ mark = -1

\* Buffer::append grows a buffer by exactly what is missing.
AppendTo(b, len) ==
    [b EXCEPT !.room = IF @ > len THEN @ - len ELSE 0, !.used = @ + len, !.lines = Append(@, len)]

Notify == writer' = IF writer = "asleep" THEN "check" ELSE writer

\* append: the line goes to current while there is room for it, else to the
\* next buffer or a new one.
AppendLine ==
    /\ Len(appended) < MaxLines
    /\ \E len \in Lengths :
        /\ appended' = Append(appended, len)
        /\ IF current.room > len
           THEN current' = AppendTo(current, len) /\ UNCHANGED <<next, buffers>>
           ELSE /\ buffers' = Append(buffers, current)
                /\ current' = AppendTo(IF next = Null THEN Fresh ELSE next, len)
                /\ next' = Null
    /\ Notify
    /\ UNCHANGED <<running, spareA, spareB, toWrite, day, mark, fileVars>>

\* stop() sets running_ under the lock; its join waits for "exit".
StopLogger ==
    /\ running
    /\ running' = FALSE /\ mark' = Len(appended)
    /\ Notify
    /\ UNCHANGED <<current, next, buffers, spareA, spareB, toWrite, day, appended, fileVars>>

\* Mutant: the predicate before the current buffer was part of it.
HasLinesFull == buffers # <<>>

HasLines == buffers # <<>> \/ current.lines # <<>>

\* cond_.wait with its predicate, and the exchange of buffers, under the lock.
Check ==
    /\ writer = "check"
    /\ IF HasLines
       THEN /\ toWrite' = Append(buffers, current)
            /\ buffers' = <<>>
            /\ current' = spareA /\ spareA' = Null
            /\ IF next = Null THEN next' = spareB /\ spareB' = Null ELSE UNCHANGED <<next, spareB>>
            /\ writer' = "write"
       ELSE /\ writer' = IF running THEN "asleep" ELSE "exit"
            /\ UNCHANGED <<toWrite, buffers, current, next, spareA, spareB>>
    /\ UNCHANGED <<running, day, appended, mark, fileVars>>

\* write: a new day closes the file, and a file that is opened over the roll
\* size is left for the next of the sequence; one that is open is not.
Reopens == fileDay # day \/ file = -1
Found == IF day = 1 THEN earlier ELSE 0
Rolls(len) == Found > 0 /\ Found + len > rollSize

LosesFrom(i, n) == lost' = lost \cup [line : (Len(handed) + i)..(Len(handed) + n), day : {day}]

\* One of the two opens fails: the file stays closed, and the next write tries
\* again, after the second one with the next file of the sequence.
OpenFails(len, n) ==
    /\ Reopens
    /\ file' = -1 /\ failed' = FALSE
    /\ earlier' \in IF Rolls(len) THEN {earlier, 0} ELSE {earlier}
    /\ badDays' = badDays \cup {day}
    /\ LosesFrom(1, n)

\* file_.write and flush of len bytes in n lines.  A failure is reported and
\* counted as written, and nothing but a reopening ends it.
Writes(len, n) ==
    /\ file' = (IF ~Reopens THEN file ELSE IF Rolls(len) THEN 0 ELSE Found) + len
    /\ UNCHANGED earlier
    /\ \/ (Reopens \/ ~failed) /\ failed' = FALSE /\ UNCHANGED <<lost, badDays>>
       \/ /\ Reopens \/ ~failed
          /\ failed' = TRUE /\ badDays' = badDays \cup {day}
          /\ \E i \in 1..n : LosesFrom(i, n)
       \/ ~Reopens /\ failed /\ LosesFrom(1, n) /\ UNCHANGED <<failed, badDays>>

\* One buffer of toWrite, and then the refill of the two spares.
Write ==
    /\ writer = "write"
    /\ LET b == CHOOSE i \in 1..Len(toWrite) : toWrite[i].lines # <<>> /\ \A j \in 1..(i - 1) : toWrite[j].lines = <<>>
           rest == \E i \in 1..Len(toWrite) : toWrite[i].lines # <<>>
           empty(x) == [x EXCEPT !.room = @ + x.used, !.used = 0, !.lines = <<>>]
           n == Len(toWrite)
       IN  IF rest
           THEN /\ handed' = handed \o toWrite[b].lines
                /\ \/ OpenFails(toWrite[b].used, Len(toWrite[b].lines))
                   \/ Writes(toWrite[b].used, Len(toWrite[b].lines))
                /\ fileDay' = day
                /\ toWrite' = [toWrite EXCEPT ![b] = empty(@)]
                /\ UNCHANGED <<spareA, spareB, writer>>
           ELSE /\ spareA' = toWrite[n]
                /\ spareB' = IF spareB = Null /\ n > 1 THEN toWrite[n - 1] ELSE spareB
                /\ toWrite' = <<>>
                /\ writer' = "check"
                /\ UNCHANGED fileVars
    /\ UNCHANGED <<current, next, buffers, running, day, appended, mark>>

Midnight ==
    /\ day < MaxDays
    /\ day' = day + 1
    /\ UNCHANGED <<current, next, buffers, running, spareA, spareB, toWrite, writer,
                   appended, mark, fileVars>>

BackThread == Check \/ Write

LoggerNext == BackThread \/ AppendLine \/ StopLogger \/ Midnight

LoggerSpec == LoggerInit /\ [][LoggerNext]_loggerVars

\* The back thread runs.
LoggerFairness == WF_loggerVars(BackThread)

-----------------------------------------------------------------------------

LinesOf(bs) == FlattenSeq([i \in 1..Len(bs) |-> bs[i].lines])

\* Whatever buffers change hands, every appended line is in exactly one place
\* and in order; there is always a current buffer; when stop() has joined the
\* thread, every line appended before it was handed to write(); and a line
\* handed to write() is missing only from the files of a day on which an open
\* or a write failed.
LinesKept ==
    /\ handed \o LinesOf(toWrite) \o LinesOf(buffers) \o current.lines = appended
    /\ current # Null
    /\ writer = "exit" => Len(handed) >= mark
    /\ \A l \in lost : l.line \in 1..Len(handed) /\ l.day \in badDays

\* A line was not handed to write() yet, and the back thread has not left.
OwesLines == Len(handed) < Len(appended) /\ writer # "exit"

\* No notification is lost between the predicate and the sleep: lines are
\* handed to write() (they are bounded, so what stays owed is stuck).
LinesReachFile == OwesLines ~> ~OwesLines

\* "the threshold at which a single file rolls" (zoneConfig.yaml:41): a file
\* that holds something is not written past it.
RollsAtThreshold == [][file' > rollSize => file' = file \/ file <= 0 \/ file' < file]_loggerVars

=============================================================================
