----------------------------- MODULE StepLedger -----------------------------
(***************************************************************************)
(* The step records of the executions table and every writer of them:      *)
(* the worker's lease gate (_is_pending, _quota_pending), the close-out    *)
(* (_mark_completed), the failure path (_release_action), the resume of a  *)
(* parked run (_close_paused_step), the two cancels (_cancel_paused_step,  *)
(* api_cancel) and the replay marker (_mark_reused).                       *)
(*                                                                         *)
(* Time is the whole-second clock int(time.time()) that every one of these *)
(* writes with.  An invocation is one Lambda execution; the platform ends  *)
(* it Timeout seconds after its start at the latest.                       *)
(***************************************************************************)
EXTENDS Naturals

CONSTANTS
    Steps,      \* execution ids: one per step of a run
    Workers,    \* invocations that can be alive at the same time
    Handled,    \* steps with on_fail: continue or on_error: continue | run
    Pausing,    \* steps a delay can park: the delay and the wrappers around it
    Reusable,   \* steps a replay envelope lists under reused_steps
    Metered,    \* steps under a monthly task budget (all of them, or none)
    Lease,      \* seconds a gate holds a step (300)
    Timeout,    \* WorkerFunction Timeout (300)
    Horizon     \* bound on the clock

ASSUME KindsAssumption ==
    /\ Handled \subseteq Steps /\ Pausing \subseteq Steps
    /\ Reusable \subseteq Steps /\ Metered \subseteq Steps
ASSUME TimesAssumption ==
    Lease \in Nat /\ Timeout \in Nat /\ Horizon \in Nat /\ Timeout <= Lease

VARIABLES
    now,        \* the clock
    status,     \* status[s]: the record's status, "none" when there is no record
    lease,      \* lease[s]: the record's lease_until
    up,         \* invocations that are alive
    deadline,   \* deadline[w]: when the platform ends invocation w, if alive
    held,       \* held[w]: steps w gated in and has not closed out
    handling,   \* handling[w]: failed steps w released and will still mark
    refused,    \* refused[w]: the step whose conditional put w lost, if any
    done,       \* done[w]: steps w closed out or gave up itself
    passed,     \* passed[w]: steps w was told are finished and walks past
    parked      \* steps that some resume envelope lists in paused_ids

vars == <<now, status, lease, up, deadline, held, handling, refused, done, passed, parked>>
records == <<status, lease>>
invocations == <<up, deadline, held, handling, refused, done, passed>>

Status == {"none", "processing", "completed", "filtered", "failed", "skipped",
           "delayed", "cancelled", "reused"}
Finished == {"completed", "filtered"}

\* Mutants of the gate's condition: no look at the lease, none at the outcome,
\* a lease that ends one second early.
FreeWithoutLease(s) == status[s] \notin Finished
FreeWithoutOutcome(s) == status[s] = "none" \/ lease[s] < now
FreeEarly(s) == status[s] = "none" \/ (status[s] \notin Finished /\ lease[s] <= now)

\* The ConditionExpression of the gate's put_item.
Free(s) ==
    \/ status[s] = "none"
    \/ status[s] \notin Finished /\ lease[s] < now

Init ==
    /\ now = 1
    /\ status = [s \in Steps |-> "none"]
    /\ lease = [s \in Steps |-> 0]
    /\ up = {}
    /\ deadline = [w \in Workers |-> 0]
    /\ held = [w \in Workers |-> {}]
    /\ handling = [w \in Workers |-> {}]
    /\ refused = [w \in Workers |-> {}]
    /\ done = [w \in Workers |-> {}]
    /\ passed = [w \in Workers |-> {}]
    /\ parked = {}

-----------------------------------------------------------------------------
(* The life of an invocation.                                              *)

Start(w) ==
    /\ w \notin up
    /\ up' = up \cup {w}
    /\ deadline' = [deadline EXCEPT ![w] = now + Timeout]
    /\ UNCHANGED <<now, records, held, handling, refused, done, passed, parked>>

\* The invocation returns, crashes or is ended by the platform, wherever it is.
End(w) ==
    /\ w \in up
    /\ up' = up \ {w}
    /\ deadline' = [deadline EXCEPT ![w] = 0]
    /\ held' = [held EXCEPT ![w] = {}]
    /\ handling' = [handling EXCEPT ![w] = {}]
    /\ refused' = [refused EXCEPT ![w] = {}]
    /\ done' = [done EXCEPT ![w] = {}]
    /\ passed' = [passed EXCEPT ![w] = {}]
    /\ UNCHANGED <<now, records, parked>>

Tick ==
    /\ now < Horizon
    /\ \A w \in up : now < deadline[w]
    /\ now' = now + 1
    /\ UNCHANGED <<records, invocations, parked>>

-----------------------------------------------------------------------------
(* The gate.                                                               *)

\* One invocation walks its chain on one thread: between a refusal and its
\* read-back, or a release and its second mark, it does nothing else, and it
\* comes to each step once.
Between(w) == refused[w] = {} /\ handling[w] = {}

CanGate(w, s) ==
    /\ w \in up
    /\ Between(w)
    /\ s \notin held[w] \cup done[w] \cup passed[w]

\* The lease_until the put writes.  Mutant: it covers nothing.
LeaseFromNow == now
LeaseUntil == now + Lease

\* _is_pending: the conditional put succeeds, the step is w's to run.
Gate(w, s) ==
    /\ CanGate(w, s)
    /\ Free(s)
    /\ status' = [status EXCEPT ![s] = "processing"]
    /\ lease' = [lease EXCEPT ![s] = LeaseUntil]
    /\ held' = [held EXCEPT ![w] = @ \cup {s}]
    /\ UNCHANGED <<now, up, deadline, handling, refused, done, passed, parked>>

\* _is_pending: the conditional put fails.
GateRefused(w, s) ==
    /\ CanGate(w, s)
    /\ ~Free(s)
    /\ refused' = [refused EXCEPT ![w] = {s}]
    /\ UNCHANGED <<now, records, up, deadline, held, handling, done, passed, parked>>

\* _quota_pending raises QuotaExceeded ahead of the conditional put, and
\* _run_step hands it to _release_action like a failure of the step: the
\* record reads failed with an expired lease, whatever it read before.
OverBudget(w, s) ==
    /\ CanGate(w, s)
    /\ s \in Metered
    /\ status' = [status EXCEPT ![s] = "failed"]
    /\ lease' = [lease EXCEPT ![s] = now - 1]
    /\ handling' = [handling EXCEPT ![w] = IF s \in Handled THEN @ \cup {s} ELSE @]
    /\ done' = [done EXCEPT ![w] = @ \cup {s}]
    /\ UNCHANGED <<now, up, deadline, held, refused, passed, parked>>

\* What the read-back lets through.  Mutant: anything that has a record.
ReadsStarted(s) == status[s] # "none"
ReadsFinished(s) == status[s] \in Finished

\* The read-back after a refusal.  The first get_item may be stale, so
\* LeaseBusy is always possible; the consistent one in _quota_pending lets
\* the step pass only when its record reads completed or filtered.
ReadBack(w, s) ==
    /\ s \in refused[w]
    /\ refused' = [refused EXCEPT ![w] = @ \ {s}]
    /\ \/ /\ ReadsFinished(s)
          /\ passed' = [passed EXCEPT ![w] = @ \cup {s}]
       \/ UNCHANGED passed
    /\ UNCHANGED <<now, records, up, deadline, held, handling, done, parked>>

-----------------------------------------------------------------------------
(* The close-outs.                                                         *)

\* _mark_completed after the step ran: completed, filtered (a filter), skipped
\* (an empty digest flush) or delayed (a pause unwinding).  The lease stays.
Outcomes(s) == {"completed", "filtered", "skipped"}
               \cup (IF s \in Pausing THEN {"delayed"} ELSE {})

Close(w, s, outcome) ==
    /\ s \in held[w]
    /\ Between(w)
    /\ outcome \in Outcomes(s)
    /\ status' = [status EXCEPT ![s] = outcome]
    /\ held' = [held EXCEPT ![w] = @ \ {s}]
    /\ done' = [done EXCEPT ![w] = @ \cup {s}]
    /\ parked' = IF outcome = "delayed" THEN parked \cup {s} ELSE parked
    /\ UNCHANGED <<now, lease, up, deadline, handling, refused, passed>>

\* _release_action: the step failed; its lease is put in the past.
Release(w, s) ==
    /\ s \in held[w]
    /\ Between(w)
    /\ status' = [status EXCEPT ![s] = "failed"]
    /\ lease' = [lease EXCEPT ![s] = now - 1]
    /\ held' = [held EXCEPT ![w] = @ \ {s}]
    /\ handling' = [handling EXCEPT ![w] = IF s \in Handled THEN @ \cup {s} ELSE @]
    /\ done' = [done EXCEPT ![w] = @ \cup {s}]
    /\ UNCHANGED <<now, up, deadline, refused, passed, parked>>

\* on_fail / on_error: the released step is marked a second time, skipped or
\* failed, by an update that carries no condition.
MarkHandled(w, s) ==
    /\ s \in handling[w]
    /\ \E outcome \in {"skipped", "failed"} : status' = [status EXCEPT ![s] = outcome]
    /\ handling' = [handling EXCEPT ![w] = @ \ {s}]
    /\ UNCHANGED <<now, lease, up, deadline, held, refused, done, passed, parked>>

-----------------------------------------------------------------------------
(* Resume, cancel and replay write records they hold no lease on.          *)

ClosePaused(s) ==
    /\ s \in parked
    /\ status' = [status EXCEPT ![s] = "completed"]
    /\ UNCHANGED <<now, lease, invocations, parked>>

CancelPaused(s) ==
    /\ status[s] = "delayed"
    /\ status' = [status EXCEPT ![s] = "cancelled"]
    /\ UNCHANGED <<now, lease, invocations, parked>>

MarkReused(s) ==
    /\ s \in Reusable
    /\ status' = [status EXCEPT ![s] = "reused"]
    /\ lease' = [lease EXCEPT ![s] = now]
    /\ UNCHANGED <<now, invocations, parked>>

-----------------------------------------------------------------------------
StepOf(w, s) ==
    \/ Gate(w, s)
    \/ GateRefused(w, s)
    \/ OverBudget(w, s)
    \/ ReadBack(w, s)
    \/ \E outcome \in Outcomes(s) : Close(w, s, outcome)
    \/ Release(w, s)
    \/ MarkHandled(w, s)

Elsewhere(s) == ClosePaused(s) \/ CancelPaused(s) \/ MarkReused(s)

Next ==
    \/ Tick
    \/ \E w \in Workers : Start(w) \/ End(w) \/ \E s \in Steps : StepOf(w, s)
    \/ \E s \in Steps : Elsewhere(s)

Spec == Init /\ [][Next]_vars

-----------------------------------------------------------------------------
(* Steps that only gates and close-outs write, the second without the two  *)
(* writers that leave a lease in the past over a step somebody may hold.   *)
OnceOnly == Steps \ (Handled \cup Pausing \cup Reusable)
Exclusive == Steps \ (Reusable \cup Metered)

\* The steps whose only writers are a gate and the close-out of its holder.
Sealed == OnceOnly \ Metered

(* Type invariant: the records, the invocations and the clock keep their   *)
(* shape (the item _is_pending writes and the state one handler call has). *)
TypeOK ==
    /\ now \in Nat \ {0}
    /\ status \in [Steps -> Status]
    /\ lease \in [Steps -> Nat]
    /\ up \subseteq Workers
    /\ deadline \in [Workers -> Nat]
    /\ held \in [Workers -> SUBSET Steps]
    /\ handling \in [Workers -> SUBSET Steps]
    /\ refused \in [Workers -> SUBSET Steps]
    /\ done \in [Workers -> SUBSET Steps]
    /\ passed \in [Workers -> SUBSET Steps]
    /\ parked \subseteq Steps

\* No two invocations run the same step at once: the lease _is_pending takes
\* outlives the invocation that took it, so a takeover only ever meets a dead
\* holder.  A replay marker (_mark_reused) and a spent budget put a lease in
\* the past without looking, so the promise excludes the steps they reach.
MutualExclusion ==
    \A s \in Exclusive : \A v, w \in Workers :
        s \in held[v] /\ s \in held[w] => v = w

\* A delivery walks past a step it did not run (CompletedStep) only when the
\* step really has its final outcome, and the outcome is still there for as
\* long as that delivery lives.
PassedFinished ==
    \A w \in Workers : \A s \in passed[w] \cap Sealed : status[s] \in Finished

\* A completed or filtered step keeps that outcome for good: no redelivery,
\* takeover or late close-out moves it, whatever the interleaving.
FinishedForGood ==
    [][\A s \in Sealed : status[s] \in Finished => status'[s] = status[s]]_vars

\* What the gate's comment says of any step: one that already finished is
\* plain dedupe.  A budget that is spent between two deliveries breaks it.
FinishedIsDeduped ==
    [][\A s \in OnceOnly : status[s] \in Finished => status'[s] = status[s]]_vars

Once == INSTANCE StepOnce WITH
            Steps <- Sealed,
            running <- [s \in Sealed |-> {w \in Workers : s \in held[w]}],
            finished <- {s \in Sealed : status[s] \in Finished}

\* The ledger implements the promise: every write of every interleaving is a
\* step of StepOnce or leaves it alone.
ImplementsStepOnce == Once!Spec

-----------------------------------------------------------------------------
(* What the invariants rest on.                                            *)

\* An alive invocation has not passed its deadline, and a dead one holds
\* nothing.
Alive ==
    \A w \in Workers :
        /\ w \in up => now <= deadline[w] /\ deadline[w] <= now + Timeout
        /\ w \notin up => held[w] = {} /\ handling[w] = {} /\ refused[w] = {} /\ passed[w] = {}

\* A step that is held has a record, and its lease covers its holder.
LeaseCovers ==
    \A w \in Workers : \A s \in held[w] \cap Exclusive :
        status[s] # "none" /\ deadline[w] <= lease[s]

\* A held sealed step reads processing, and only steps that may be are handled
\* or parked.
HeldProcessing == \A w \in Workers : \A s \in held[w] \cap Sealed : status[s] = "processing"
WritersKnown ==
    /\ \A w \in Workers : handling[w] \subseteq Handled
    /\ parked \subseteq Pausing
    /\ \A s \in Steps : status[s] = "delayed" => s \in Pausing

LedgerInv ==
    /\ TypeOK
    /\ Alive
    /\ LeaseCovers
    /\ HeldProcessing
    /\ WritersKnown
    /\ MutualExclusion
    /\ PassedFinished
=============================================================================
