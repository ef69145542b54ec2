----------------------------- MODULE RunHistory -----------------------------
(***************************************************************************)
(* What the run history says of a run (run_summary of api/runs.py): one    *)
(* status, rolled up from the step records of the run, over the records as *)
(* Worker writes them.                                                     *)
(***************************************************************************)
EXTENDS Worker

\* The worst status wins.
Ranks == <<"failed", "processing", "delayed", "cancelled", "filtered">>

StatusesOf(f) == {status[s] : s \in {t \in Steps : FlowOf[t] = f /\ status[t] # "none"}}

\* Mutant: a run with a completed step is completed.
RunStatusAtBest(f) ==
    LET found == {k \in DOMAIN Ranks : Ranks[k] \in StatusesOf(f)}
    IN  IF StatusesOf(f) = {} THEN "none"
        ELSE IF found = {} \/ "completed" \in StatusesOf(f) THEN "completed"
        ELSE Ranks[CHOOSE k \in found : \A j \in found : k <= j]

RunStatus(f) ==
    LET found == {k \in DOMAIN Ranks : Ranks[k] \in StatusesOf(f)}
    IN  IF StatusesOf(f) = {} THEN "none"
        ELSE IF found = {} THEN "completed"
        ELSE Ranks[CHOOSE k \in found : \A j \in found : k <= j]

\* A run whose every open step has an expired lease: the worker died mid-step.
Stalled(f) ==
    /\ RunStatus(f) = "processing"
    /\ \A s \in Steps : FlowOf[s] = f /\ status[s] = "processing" => lease[s] = "over"

\* The history does not praise a run that was left, unless a crash between two
\* steps of the last delivery left it: all its records read completed then, none
\* is open, and only the dead-letter queue knows.  A run whose workflow was
\* turned off is left on purpose, with whatever it had recorded.
DoneIsWalked(f) ==
    RunStatus(f) \in {"completed", "filtered"} /\ ~(dead /\ faults > 0) =>
        f \in off \/ Walked(Chain[f])

\* A run that nobody works at is shown as stalled, soon if not yet.
OpenIsStalled(f) ==
    RunStatus(f) = "processing" =>
        Stalled(f) \/ \E s \in Steps : FlowOf[s] = f /\ lease[s] = "orphan"

(* When nothing is on its way any more, the history does not call a run    *)
(* completed or filtered that was not walked to its end or to the filter,  *)
(* and one that reads processing is soon shown as stalled (its leases run  *)
(* out): through retries, redeliveries, resumes and crashes.  So a failure *)
(* is only taken for recovered by a run that went through.                 *)
HistoryTells ==
    Quiet => \A i \in DOMAIN Flows : DoneIsWalked(Flows[i]) /\ OpenIsStalled(Flows[i])
=============================================================================
