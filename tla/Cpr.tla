----------------------------------- MODULE Cpr ----------------------------------
(* A program that uses cpr: the thread pool of its asynchronous calls, one     *)
(* session, or several of them in multi handles.  The three share no state, so *)
(* the program here uses one of them, and finds all that each can do.          *)
EXTENDS ThreadPool, Session, MultiPerform

VARIABLE uses

vars == <<poolVars, sessionVars, multiVars, uses>>

Init ==
    /\ PoolInit /\ SessionInit /\ MultiInit
    /\ uses \in {"pool", "session", "multi"}

PoolStep(step) ==
    /\ uses = "pool" /\ step /\ UNCHANGED <<sessionVars, multiVars, uses>>

Next ==
    \/ PoolStep(Calls) \/ PoolStep(ClientGoesOn)
    \/ \E w \in Workers : PoolStep(WorkerStep(w))
    \/ uses = "session" /\ SessionNext /\ UNCHANGED <<poolVars, multiVars, uses>>
    \/ uses = "multi" /\ MultiNext /\ UNCHANGED <<poolVars, sessionVars, uses>>

Spec == Init /\ [][Next]_vars

(* The operating system runs every thread, and a task comes to its end.        *)
FairSpec ==
    /\ Spec
    /\ WF_vars(PoolStep(ClientGoesOn))
    /\ \A w \in Workers : WF_vars(PoolStep(WorkerStep(w)))
===============================================================================
