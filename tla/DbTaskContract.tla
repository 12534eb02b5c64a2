--------------------------- MODULE DbTaskContract ---------------------------
(***************************************************************************)
(* What database task delivery promises its callers, without queues,       *)
(* ledgers, acknowledgements or retries: a registered task is decided      *)
(* once, by an execution whose effect agrees with the class it reports,    *)
(* and that decision is handed to the owner once.                          *)
(***************************************************************************)
EXTENDS Integers

CONSTANTS Tasks, Transactional

VARIABLES
    phase,      \* "free", "registered", "decided" or "handed"
    decision,   \* the class of the deciding execution
    effects     \* how often the task's writes took effect

vars == <<phase, decision, effects>>

\* The class an execution reports and its effect on the database.
Verdicts(t) ==
    {<<"success", 1>>, <<"failure", 0>>, <<"unknown", 0>>, <<"unknown", 1>>}
      \cup IF t \in Transactional THEN {<<"retryable", 0>>} ELSE {<<"failure", 1>>}

Init ==
    /\ phase = [t \in Tasks |-> "free"]
    /\ decision = [t \in Tasks |-> "none"]
    /\ effects = [t \in Tasks |-> 0]

Register(t) ==
    /\ phase[t] = "free"
    /\ phase' = [phase EXCEPT ![t] = "registered"]
    /\ UNCHANGED <<decision, effects>>

Decide(t) ==
    /\ phase[t] = "registered"
    /\ \E v \in Verdicts(t) :
         /\ decision' = [decision EXCEPT ![t] = v[1]]
         /\ effects' = [effects EXCEPT ![t] = v[2]]
    /\ phase' = [phase EXCEPT ![t] = "decided"]

Hand(t) ==
    /\ phase[t] = "decided"
    /\ phase' = [phase EXCEPT ![t] = "handed"]
    /\ UNCHANGED <<decision, effects>>

Next == \E t \in Tasks : Register(t) \/ Decide(t) \/ Hand(t)

\* A registered task is decided, and a decision is handed over.
Spec == Init /\ [][Next]_vars /\ \A t \in Tasks : WF_vars(Decide(t)) /\ WF_vars(Hand(t))

\* The same without the promise of progress.
SafeSpec == Init /\ [][Next]_vars
=============================================================================
