------------------------------ MODULE StepOnce ------------------------------
(***************************************************************************)
(* What the executions table promises the engine about the steps of a run: *)
(* at most one worker invocation runs a step at any moment, an invocation  *)
(* may give a step up without finishing it, and a step that has finished   *)
(* is never run again.  StepLedger (the conditional writes and the leases  *)
(* of engine/worker.py) and Worker (whole deliveries of an event) are both *)
(* shown to implement this module.                                         *)
(***************************************************************************)
CONSTANTS
    Steps,      \* the execution ids the promise is made for
    Workers     \* concurrent worker invocations

VARIABLES
    running,    \* running[s]: the invocations that are executing step s
    finished    \* the steps whose outcome is final

vars == <<running, finished>>

Init ==
    /\ running = [s \in Steps |-> {}]
    /\ finished = {}

\* An invocation starts a step nobody runs and nobody has finished.
Begin(w, s) ==
    /\ running[s] = {}
    /\ s \notin finished
    /\ running' = [running EXCEPT ![s] = {w}]
    /\ UNCHANGED finished

\* The invocation that runs the step finishes it.
Finish(w, s) ==
    /\ running[s] = {w}
    /\ running' = [running EXCEPT ![s] = {}]
    /\ finished' = finished \cup {s}

\* An invocation gives up some steps it was running: a failure, a crash, a
\* timeout.  Whoever comes next may start them again.
GiveUp(w, S) ==
    /\ running' = [s \in Steps |-> IF s \in S THEN running[s] \ {w} ELSE running[s]]
    /\ UNCHANGED finished

Next ==
    \E w \in Workers :
        \/ \E s \in Steps : Begin(w, s) \/ Finish(w, s)
        \/ \E S \in SUBSET Steps : GiveUp(w, S)

Spec == Init /\ [][Next]_vars
=============================================================================
