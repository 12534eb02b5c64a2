----------------------------- MODULE MCThreads -----------------------------
(* The threads of the servers and what they block on, one machine at a     *)
(* time: a connection of the gateway, an event loop, the logger, the chat  *)
(* and global service, and the scene's network thread: its transport and   *)
(* its way to two workers, of which one may stop draining its queue.       *)
EXTENDS TcpConnection, AsyncLogger, ServiceApp

VARIABLES
    machine,
    phase, quit, woken, pendingFunc, batch, posting, quitting, queued,
    outbound, life, c, ready, kernel, started, stopping, net, ev, wake, netWoken, bus, pushing, pushed, told, missed,
    conns, nextSession, gatewayOf, index, tasks, stats, cursor, pump, closing, inbox, others, view

loopVars == <<phase, quit, woken, pendingFunc, batch, posting, quitting, queued>>
transportVars == <<outbound, life, c, ready, kernel, started, stopping, net, ev, wake, netWoken, bus, pushing, pushed, told, missed>>
admissionVars == <<conns, nextSession, gatewayOf, index, tasks, stats, cursor, pump, closing, inbox, others, view>>
threadsVars == <<machine, connectionVars, loopVars, loggerVars, serviceVars, transportVars, admissionVars>>

TwoCallers == {"a", "b"}

Loop == INSTANCE EventLoop WITH Posters <- {"a", "b"}, MaxFuncs <- 2

Transport == INSTANCE NetTransport WITH
    MaxRoom <- 1, maxWriteBuffer <- 2, MaxIn <- 1, MaxBus <- 2, woken <- netWoken

\* Two players of different workers, one binding each; one send attempt per
\* pump and room for one message in a worker's queue.
TwoPlayers == {[player |-> p, clientSession |-> 1, epoch |-> 1, gateway |-> 1] : p \in {1, 2}}
Admission == INSTANCE NetAdmission WITH
    Players <- {1, 2}, Bindings <- TwoPlayers, NumWorkers <- 2, WorkerOf <- [p \in {1, 2} |-> p - 1],
    Gateways <- {1}, Sizes <- {1}, InboxCapacity <- 1, MaxTasks <- 1, MaxBytes <- 1, PerWorker <- 1,
    GlobalAttempts <- 1, MaxSession <- 1, MaxWaiting <- 1, MaxOther <- 1, LiveWorkers <- {1}

ThreadsInit ==
    /\ machine \in {"tcp", "loop", "logger", "service", "transport", "admission"}
    /\ ConnectionInit /\ Loop!Init /\ LoggerInit /\ ServiceInit
    /\ machine # "logger" => earlier = 0
    /\ Transport!Init /\ (machine # "transport" => outbound)
    /\ Admission!Init

ThreadsNext ==
    /\ UNCHANGED machine
    /\ machine # "tcp" => UNCHANGED connectionVars
    /\ machine # "loop" => UNCHANGED loopVars
    /\ machine # "logger" => UNCHANGED loggerVars
    /\ machine # "service" => UNCHANGED serviceVars
    /\ machine # "transport" => UNCHANGED transportVars
    /\ machine # "admission" => UNCHANGED admissionVars
    /\ \/ machine = "tcp" /\ ConnectionNext
       \/ machine = "loop" /\ Loop!Next
       \/ machine = "logger" /\ LoggerNext
       \/ machine = "service" /\ ServiceNext
       \/ machine = "transport" /\ Transport!Next
       \/ machine = "admission" /\ Admission!Next

ThreadsSpec == ThreadsInit /\ [][ThreadsNext]_threadsVars

\* The fairness of each module, for the machine that runs.
FairThreads ==
    /\ ThreadsSpec
    /\ WF_connectionVars(machine = "tcp" /\ RunPending)
    /\ WF_connectionVars(machine = "tcp" /\ Expire)
    /\ WF_connectionVars(machine = "tcp" /\ RemoveConnectionInLoop)
    /\ WF_connectionVars(machine = "tcp" /\ Release)
    /\ \A t \in Callers : WF_connectionVars(machine = "tcp" /\ (SetState(t) \/ QueueCall(t)))
    /\ WF_loopVars(machine = "loop" /\ Loop!Steps)
    /\ WF_loopVars(machine = "loop" /\ Loop!QuitWakes)
    /\ \A t \in {"a", "b"} : WF_loopVars(machine = "loop" /\ Loop!Weakup(t))
    /\ WF_loggerVars(machine = "logger" /\ BackThread)
    /\ WF_serviceVars(machine = "service" /\ InLogic)
    /\ WF_serviceVars(machine = "service" /\ InNet)
    /\ WF_transportVars(machine = "transport" /\ Transport!NetThread)
    /\ WF_transportVars(machine = "transport" /\ Transport!Emplace)
    /\ WF_transportVars(machine = "transport" /\ Transport!Wakeup)
    /\ WF_transportVars(machine = "transport" /\ Transport!Connected)
    /\ WF_transportVars(machine = "transport" /\ Transport!PeerAnswers)
    /\ WF_admissionVars(machine = "admission" /\ Admission!Closing)
    /\ WF_admissionVars(machine = "admission" /\ Admission!PumpScan)
    /\ WF_admissionVars(machine = "admission" /\ Admission!Pumping)
    /\ WF_admissionVars(machine = "admission" /\ Admission!WorkerPop(1))

Owing ==
    \/ machine = "loop" /\ Loop!Owes
    \/ machine = "logger" /\ OwesLines
    \/ machine = "service" /\ OwesReply
    \/ machine = "transport" /\ Transport!Owes

\* No wake-up is lost and nobody waits for ever: queued functions run, lines
\* are handed to write(), requests are answered, messages and frames go out,
\* and the network thread leaves epoll_wait(-1) for stop() (LoopServes,
\* LinesReachFile, RequestsServed, TransportServes).
ThreadsServe == Owing ~> ~Owing

\* Although one worker stops draining, the other learns of every closed
\* connection (see NetAdmission).
ClosedReachesWorkers == Admission!ClosedReachesWorkers

\* What the comments say and the code does not (see the modules).
LinkComesUp == Transport!LinkComesUp

=============================================================================
