----------------------------- MODULE FrameCodec -----------------------------
(***************************************************************************)
(* Frames on a byte stream: EncodeFrame and EncodeClientFrame, and the     *)
(* loop around DecodeFrame (backend links) and DecodeClientFrame (client   *)
(* links) with its resynchronisation and its guards.  A header is its two  *)
(* magic bytes, the version, the length of the frame and one more field:   *)
(* the destination service of a backend frame, the role name of a client   *)
(* frame; the other fields are not looked at.  One iteration of a decoder  *)
(* is one step; bytes arrive between two calls only.                       *)
(***************************************************************************)
EXTENDS Integers, Sequences, SequencesExt

CONSTANTS
    Pieces,         \* what a peer may put on the wire, as byte sequences
    MaxPieces,      \* bound: pieces of a stream
    Chunks,         \* numbers of bytes that arrive together
    kMaxMessageSize,
    kMaxResyncPerCall,
    maxDecodeErrors,
    maxFramesPerSec,
    maxReadBufferBytes,
    kCheapPrepend   \* of the Buffer that is decoded

VARIABLES
    link,           \* "client" or "backend"
    stream,         \* all that the peer sends
    arrived,        \* how much of it was read
    input,          \* the connection's readBuffer_
    decoding,       \* inside the loop of OnClientMessage or OnBackendMessage
    resync,         \* resync of the decoder call
    guard,          \* TrafficGuard: decode errors, frames in this second
    frames,         \* frames handed to the handler
    closed          \* forceClose was called

vars == <<link, stream, arrived, input, decoding, resync, guard, frames, closed>>

B == INSTANCE ByteBuffer WITH MaxBytes <- 0, MaxCall <- 0, buff <- input, content <- <<>>, made <- 0

Hi == 90            \* the high byte of both magics
Lo(l) == IF l = "client" THEN 92 ELSE 91
Other(l) == IF l = "client" THEN "backend" ELSE "client"
Version == 1
Right == 1          \* our service, or a well-formed role name
kHeaderSize == 5

\* EncodeFrame and EncodeClientFrame, for a destination or a name.
EncodeFrame(l, last, body) == <<Hi, Lo(l), Version, kHeaderSize + Len(body), last>> \o body

Init ==
    /\ link \in {"client", "backend"}
    /\ stream \in {FlattenSeq(s) : s \in SeqOf(Pieces, MaxPieces)}
    /\ arrived = 0
    /\ input = B!NewBuffer
    /\ decoding = FALSE /\ closed = FALSE
    /\ resync = 0
    /\ guard = [errors |-> 0, frames |-> 0]
    /\ frames = <<>>

-----------------------------------------------------------------------------

MagicAt(s, i, l) == i < Len(s) /\ s[i] = Hi /\ s[i + 1] = Lo(l)

\* FindMagic, FindClientMagic; -1 for npos.
FindMagic(s) ==
    LET at == {i \in 1..Len(s) : MagicAt(s, i, link)} IN
    IF at = {} THEN -1 ELSE (CHOOSE i \in at : \A j \in at : i <= j) - 1

\* The header of a candidate: its version, its length, and on a backend link
\* the destination.
Legal(s) ==
    /\ s[3] = Version
    /\ s[4] \in kHeaderSize..kMaxMessageSize
    /\ link = "backend" => s[5] = Right

\* kKeepTailWhenNoMagic
KeepTail(s) == IF Len(s) > 1 THEN 1 ELSE Len(s)

Result(status, take, n) == [status |-> status, take |-> take, resync |-> n]

\* A candidate is skipped, unless this call has skipped too many.
Skip(take, n) == Result(IF n > kMaxResyncPerCall THEN "error" ELSE "again", take, n)

\* One iteration of the decoder: how it ends and how much it retrieves.
Iteration(s) ==
    LET offset == FindMagic(s)
        head == SubSeq(s, offset + 1, Len(s))
        n == IF offset > 0 THEN resync + 1 ELSE resync
    IN  IF Len(s) < kHeaderSize THEN Result("more", 0, 0)
        ELSE IF offset = -1 THEN Result("more", Len(s) - KeepTail(s), 0)
        ELSE IF offset > 0 /\ n > kMaxResyncPerCall THEN Result("error", offset, 0)
        ELSE IF Len(head) < kHeaderSize THEN Result("more", offset, 0)
        ELSE IF ~Legal(head) THEN Skip(offset + 2, n + 1)
        ELSE IF head[4] > Len(head) THEN Result("more", offset, 0)
        ELSE IF link = "client" /\ head[5] # Right THEN Result("error", offset + 2, 0)
        ELSE Result("ok", offset + head[4], 0)

\* The frame that ends where the decoder has retrieved to.
FrameIn(s, take) ==
    LET start == FindMagic(s) IN SubSeq(s, start + kHeaderSize + 1, take)

-----------------------------------------------------------------------------

\* OnClientMessage and OnBackendMessage begin: the other link's magic at the
\* head (CheckProtocolMagic) or too many bytes (CheckReadBuffer) close.
Arrive(n) ==
    /\ ~decoding /\ ~closed
    /\ arrived + n <= Len(stream)
    /\ arrived' = arrived + n
    /\ input' = B!ReadFd(input, SubSeq(stream, arrived + 1, arrived + n))
    /\ LET s == B!Readable(input') IN
        /\ closed' = (MagicAt(s, 1, Other(link)) \/ Len(s) > maxReadBufferBytes)
        /\ decoding' = ~closed'
    /\ \E sameSecond \in BOOLEAN : guard' = IF sameSecond THEN guard ELSE [guard EXCEPT !.frames = 0]
    /\ UNCHANGED <<link, stream, resync, frames>>

\* AllowFrame, after a frame was decoded.
AllowFrame == guard.frames + 1 <= maxFramesPerSec

Iterate ==
    /\ decoding
    /\ LET s == B!Readable(input)
           r == Iteration(s)
           handled == r.status = "ok" /\ AllowFrame
           failed == \/ r.status = "error" /\ guard.errors + 1 >= maxDecodeErrors
                     \/ r.status = "ok" /\ ~AllowFrame
       IN  /\ input' = B!Retrieve(input, r.take)
           /\ resync' = IF r.status = "again" THEN r.resync ELSE 0
           /\ guard' = [errors |-> guard.errors + (IF r.status = "error" THEN 1 ELSE 0),
                        frames |-> guard.frames + (IF r.status = "ok" THEN 1 ELSE 0)]
           /\ frames' = IF handled THEN Append(frames, FrameIn(s, r.take)) ELSE frames
           /\ closed' = failed
           /\ decoding' = (r.status # "more" /\ ~failed)
    /\ UNCHANGED <<link, stream, arrived>>

Next == (\E n \in Chunks : Arrive(n)) \/ Iterate

-----------------------------------------------------------------------------

\* The reference: scan the whole stream byte by byte for a candidate that is
\* legal, give it out when it is complete, and wait on it when it is not.
Reference(s) ==
    LET parse[i \in 1..(Len(s) + 1)] ==
            LET head == SubSeq(s, i, Len(s)) IN
            IF Len(head) < kHeaderSize THEN <<>>
            ELSE IF ~MagicAt(s, i, link) \/ ~Legal(head) THEN parse[i + 1]
            ELSE IF head[4] > Len(head) THEN <<>>
            ELSE IF link = "client" /\ head[5] # Right THEN parse[i + 1]
            ELSE <<SubSeq(head, kHeaderSize + 1, head[4])>> \o parse[i + head[4]]
    IN  parse[1]

\* However the stream is cut into reads, and whatever was skipped or thrown
\* away in between, the frames handed over so far and those still to be found
\* in what is buffered or on its way are the frames of the whole stream.
FramesExact ==
    ~closed => frames \o Reference(B!Readable(input) \o SubSeq(stream, arrived + 1, Len(stream)))
                = Reference(stream)

=============================================================================
