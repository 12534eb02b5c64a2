--------------------------- MODULE MCFoundations ---------------------------
(* The machines the servers stand on, one at a time: machine picks the one *)
(* a behaviour is about (the scene's timer wheel, the gateway's timer      *)
(* queue, Buffer, the frame decoders, the gateway's registry of backend    *)
(* nodes), the others rest.                                                *)
EXTENDS TimerWheel, TimerQueue, ServiceRegistry

VARIABLES
    machine,
    buff, content, made,
    link, stream, arrived, input, decoding, resync, guard, frames, closed

bufferVars == <<buff, content, made>>
codecVars == <<link, stream, arrived, input, decoding, resync, guard, frames, closed>>

\* A one-shot timer and two that repeat, one at every unit of a two-unit tick.
TimerNames == {"once", "again", "often"}
Repeats == [t \in TimerNames |-> CASE t = "once" -> 0 [] t = "again" -> 2 [] t = "often" -> 1]

Bytes == INSTANCE ByteBuffer WITH kCheapPrepend <- 2, MaxBytes <- 6, MaxCall <- 3

\* Two processes of scene 1 with two channels each, a second scene, a chat node.
Scene(s, c, i) == [service |-> 1, scene |-> s, channel |-> c, incarnation |-> i]
Chat == [service |-> 2, scene |-> 0, channel |-> 0, incarnation |-> 0]
TwoScenes == {Scene(1, c, i) : c \in {0, 1}, i \in {1, 2}} \cup {Scene(2, 0, 1), Chat}

\* Frames for us and for others, a wrong version, an illegal length, halves of
\* a magic, a magic inside a body, and the magic of the other kind of link.
WirePieces ==
    {<<90>>, <<91>>, <<92, 7>>, <<90, 91, 1, 6, 1, 90>>, <<90, 92, 1, 7, 1, 90, 92>>, <<90, 91, 1, 5, 2>>,
     <<90, 92, 2, 5, 1>>, <<90, 92, 1, 5, 3>>, <<90, 91, 1, 4, 1>>}
Codec == INSTANCE FrameCodec WITH
    Pieces <- WirePieces, MaxPieces <- 3, Chunks <- {1, 4, 9}, kMaxMessageSize <- 8, kMaxResyncPerCall <- 1,
    maxDecodeErrors <- 2, maxFramesPerSec <- 2, maxReadBufferBytes <- 14, kCheapPrepend <- 2

FoundationsInit ==
    /\ machine \in {"wheel", "queue", "buffer", "codec", "registry"}
    /\ Init /\ QueueInit /\ Bytes!Init /\ RegistryInit
    /\ Codec!Init /\ (machine # "codec" => stream = <<>> /\ link = "client")

FoundationsNext ==
    /\ UNCHANGED machine
    /\ machine # "wheel" => UNCHANGED vars
    /\ machine # "queue" => UNCHANGED queueVars
    /\ machine # "buffer" => UNCHANGED bufferVars
    /\ machine # "codec" => UNCHANGED codecVars
    /\ machine # "registry" => UNCHANGED registryVars
    /\ \/ machine = "wheel" /\ Next
       \/ machine = "queue" /\ QueueNext
       \/ machine = "buffer" /\ Bytes!Next
       \/ machine = "codec" /\ Codec!Next
       \/ machine = "registry" /\ RegistryNext

FoundationsSpec == FoundationsInit /\ [][FoundationsNext]_<<machine, vars, queueVars, bufferVars, codecVars, registryVars>>

\* Buffer holds exactly the bytes not yet consumed, and the decoders find the
\* frames of the stream however it is cut into reads (see ByteBuffer and
\* FrameCodec).
BytesExact == Bytes!BufferExact /\ Codec!FramesExact

=============================================================================
