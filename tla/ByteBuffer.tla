----------------------------- MODULE ByteBuffer -----------------------------
(***************************************************************************)
(* Buffer (zone_common/base): one vector with a read and a write index and *)
(* room kept free in front.  The operators are its operations on a record; *)
(* the machine applies them in any order beside the byte queue a Buffer    *)
(* stands for.  A byte is the number of the byte that was written.         *)
(***************************************************************************)
EXTENDS Integers, Sequences

CONSTANTS
    kCheapPrepend,  \* bytes kept free in front
    MaxBytes,       \* bound: bytes written in all
    MaxCall         \* bound: bytes of one call

VARIABLES
    buff,           \* the Buffer
    content,        \* the queue of bytes it stands for
    made            \* bytes written so far (bounded)

vars == <<buff, content, made>>

-----------------------------------------------------------------------------
(* The operations.                                                         *)

Zeros(n) == [i \in 1..n |-> 0]

NewBuffer == [read |-> kCheapPrepend, write |-> kCheapPrepend, bytes |-> Zeros(kCheapPrepend)]

Readable(b) == SubSeq(b.bytes, b.read + 1, b.write)
ReadableBytes(b) == b.write - b.read
WriteableBytes(b) == Len(b.bytes) - b.write

RetrieveAll(b) == [b EXCEPT !.read = kCheapPrepend, !.write = kCheapPrepend]

Retrieve(b, n) == IF n < ReadableBytes(b) THEN [b EXCEPT !.read = @ + n] ELSE RetrieveAll(b)

\* std::copy to index at.
CopyTo(b, at, s) ==
    [i \in 1..Len(b.bytes) |-> IF i \in (at + 1)..(at + Len(s)) THEN s[i - at] ELSE b.bytes[i]]

\* Mutant: the bytes are moved to the front and the write index is not.
EnsureWriteableStale(b, n) ==
    IF n <= WriteableBytes(b) THEN b
    ELSE IF WriteableBytes(b) + b.read < n + kCheapPrepend
    THEN [b EXCEPT !.bytes = @ \o Zeros(n - WriteableBytes(b))]
    ELSE [b EXCEPT !.bytes = CopyTo(b, kCheapPrepend, Readable(b)), !.read = kCheapPrepend]

\* Grow, or move the readable bytes back to the front.
EnsureWriteable(b, n) ==
    IF n <= WriteableBytes(b) THEN b
    ELSE IF WriteableBytes(b) + b.read < n + kCheapPrepend
    THEN [b EXCEPT !.bytes = @ \o Zeros(n - WriteableBytes(b))]
    ELSE [read |-> kCheapPrepend, write |-> kCheapPrepend + ReadableBytes(b),
          bytes |-> CopyTo(b, kCheapPrepend, Readable(b))]

AppendBytes(b, s) ==
    LET e == EnsureWriteable(b, Len(s)) IN
    [e EXCEPT !.bytes = CopyTo(e, e.write, s), !.write = @ + Len(s)]

EnsurePrepend(b, n) ==
    LET keep == IF n > kCheapPrepend THEN n ELSE kCheapPrepend IN
    IF b.read >= n THEN b
    ELSE [read |-> keep, write |-> keep + ReadableBytes(b), bytes |-> Zeros(keep) \o Readable(b)]

Prepend(b, s) ==
    LET e == EnsurePrepend(b, Len(s)) IN
    [e EXCEPT !.read = @ - Len(s), !.bytes = CopyTo(e, e.read - Len(s), s)]

\* readv into the free room, and into a second buffer what does not fit.
ReadFd(b, s) ==
    LET room == WriteableBytes(b) IN
    IF Len(s) < room THEN [b EXCEPT !.bytes = CopyTo(b, b.write, s), !.write = @ + Len(s)]
    ELSE AppendBytes([b EXCEPT !.bytes = CopyTo(b, b.write, SubSeq(s, 1, room)), !.write = Len(b.bytes)],
                     SubSeq(s, room + 1, Len(s)))

\* A send that took n bytes.
WriteFd(b, n) == Retrieve(b, n)

-----------------------------------------------------------------------------

Init == buff = NewBuffer /\ content = <<>> /\ made = 0

Fresh(n) == [i \in 1..n |-> made + i]

\* write() and append() are the same.
Write(n) == buff' = AppendBytes(buff, Fresh(n)) /\ content' = content \o Fresh(n)
Receive(n) == buff' = ReadFd(buff, Fresh(n)) /\ content' = content \o Fresh(n)
Precede(n) == buff' = Prepend(buff, Fresh(n)) /\ content' = Fresh(n) \o content

\* read, readAsString, readUint and WriteFd all end in retrieve.
Consume(n) ==
    /\ n <= Len(content)
    /\ buff' = WriteFd(buff, n)
    /\ content' = SubSeq(content, n + 1, Len(content))
    /\ UNCHANGED made

Next ==
    \E n \in 0..MaxCall :
        \/ /\ made + n <= MaxBytes
           /\ made' = made + n
           /\ Write(n) \/ Receive(n) \/ Precede(n)
        \/ Consume(n)

Spec == Init /\ [][Next]_vars

\* Whatever was appended, received, put in front, moved or grown before, the
\* readable part is exactly the bytes not yet consumed, in order, and the
\* indices stay inside the vector.
BufferExact ==
    /\ buff.read <= buff.write /\ buff.write <= Len(buff.bytes)
    /\ Readable(buff) = content

=============================================================================
