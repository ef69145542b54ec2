------------------------------- MODULE Worker -------------------------------
(***************************************************************************)
(* The life of one trigger event in engine/worker.py: the SQS messages     *)
(* that carry it, the invocations of handler that sweep the workflows it   *)
(* matches, run_chain's walk over their steps, the delay that parks a run  *)
(* and the continuation that resumes it.                                   *)
(*                                                                         *)
(* Leases carry no clock here.  StepLedger proves that a lease outlives    *)
(* the invocation that took it, so it is enough to know whether its taker  *)
(* is alive ("live"), gone ("orphan"), or the lease is in the past         *)
(* ("over").                                                               *)
(***************************************************************************)
EXTENDS Naturals, Sequences, Bags

CONSTANTS
    Workers,    \* invocations of the worker function that run concurrently
    Flows,      \* the workflows the event matches, in all_workflows() order
    Steps,      \* the execution ids of all their steps
    FlowOf,     \* FlowOf[s]: the workflow an execution id belongs to
    Chain,      \* Chain[f]: the steps of workflow f
    Kind,       \* Kind[s]: action | filter | delay | branch | loop
    Bodies,     \* Bodies[s]: the branch taken, or one body per loop item
    Policy,     \* Policy[s]: halt | skip | record | recover
    Recovery,   \* Recovery[s]: the error_actions of an on_error: run step
    Stopping,   \* the filters whose rules the event data fails
    Failing,    \* the steps whose execution may fail
    Attempts,   \* Attempts[f]: tries of the retry policy of f, 1 for none
    Switchable, \* workflows an operator may turn off
    Cancellable,\* workflows whose parked run an operator may cancel
    MaxReceive, \* maxReceiveCount of the event queue
    Hops,       \* early arrivals of a continuation (900-second chunks)
    MaxSends,   \* bound: times a producer enqueues the event
    MaxFaults   \* bound: crashes and failed enqueues

NoStep == "no step"
NoFlow == "no flow"

ASSUME ChainsAssumption ==
    /\ NoStep \notin Steps /\ NoFlow \notin DOMAIN Chain
    /\ Flows \in Seq(DOMAIN Chain)
    /\ Stopping \cup Failing \subseteq Steps
    /\ \A f \in DOMAIN Chain : Chain[f] \in Seq(Steps)
    /\ \A s \in Steps : Recovery[s] \in Seq(Steps) /\ Bodies[s] \in Seq(Seq(Steps))
    /\ \A s \in Steps : Kind[s] \in {"branch", "loop"} => Bodies[s] # <<>>

ASSUME PoliciesAssumption ==
    \A s \in Steps : Policy[s] \in {"halt", "skip", "record", "recover"}

ASSUME BoundsAssumption ==
    /\ "orphan" \notin Workers /\ "over" \notin Workers
    /\ MaxReceive \in Nat \ {0} /\ MaxSends \in Nat \ {0}
    /\ Hops \in Nat /\ MaxFaults \in Nat

VARIABLES
    status,     \* status[s]: the step record's status, "none" without a record
    lease,      \* lease[s]: the invocation holding it, "orphan" or "over"
    queue,      \* the bag of messages waiting to be delivered
    dead,       \* whether a message was dead-lettered
    inv,        \* inv[w]: the local state of invocation w
    inbox,      \* the inbox row of the event
    off,        \* workflows that are not runnable: disabled, unpublished or auto-paused (README, Worker)
    cancelling, \* delayed steps api_cancel read and has not flipped yet
    sends, faults \* bounded counters

vars == <<status, lease, queue, dead, inv, inbox, off, cancelling, sends, faults>>
records == <<status, lease>>
messages == <<queue, dead>>
environment == <<inbox, off, cancelling, sends, faults>>

Status == {"none", "processing", "completed", "filtered", "failed", "skipped",
           "delayed", "cancelled"}
Finished == {"completed", "filtered"}

-----------------------------------------------------------------------------
(* Messages, frames and invocations.                                       *)

EventMessage(attempt) ==
    [kind |-> "event", flow |-> NoFlow, segments |-> <<>>, paused |-> <<>>,
     hops |-> 0, attempt |-> attempt, receives |-> 0]

\* Mutant: the envelope names no paused steps.
ContinuationWithoutPauses(flow, segments, paused) ==
    [kind |-> "resume", flow |-> flow, segments |-> segments, paused |-> <<>>,
     hops |-> Hops, attempt |-> 0, receives |-> 0]

\* _enqueue_resume: the continuation of a parked run.
Continuation(flow, segments, paused) ==
    [kind |-> "resume", flow |-> flow, segments |-> segments, paused |-> paused,
     hops |-> Hops, attempt |-> 0, receives |-> 0]

\* One running chain: the steps still to run, the wrapper whose body it is,
\* and, for a loop body, the bodies of the items behind it.  The segments of a
\* suspension are frames without an owner.
Frame(steps, owner, loop, more) ==
    [steps |-> steps, owner |-> owner, loop |-> loop, more |-> more]

NoMessage == [kind |-> "none"]
Idle == [pc |-> "idle", msg |-> NoMessage, sweep |-> {}, flow |-> NoFlow, stack |-> <<>>,
         segments |-> <<>>, tail |-> <<>>, step |-> NoStep, paused |-> <<>>,
         parks |-> <<>>, error |-> "none"]

Init ==
    /\ status = [s \in Steps |-> "none"]
    /\ lease = [s \in Steps |-> "over"]
    /\ queue = SetToBag({EventMessage(0)})
    /\ dead = FALSE
    /\ inv = [w \in Workers |-> Idle]
    /\ inbox = "none"
    /\ off = {}
    /\ cancelling = {}
    /\ sends = 1
    /\ faults = 0

Message(w) == inv[w].msg
Top(w) == Head(inv[w].stack)
Pop(w) == Tail(inv[w].stack)
Advance(w) == [inv[w].stack EXCEPT ![1].steps = Tail(@)]

\* The writers of a step record: an update_item that leaves the lease alone,
\* and _release_action, which puts it in the past.
Mark(s, outcome) ==
    /\ status' = [status EXCEPT ![s] = outcome]
    /\ UNCHANGED lease
Release(s) ==
    /\ status' = [status EXCEPT ![s] = "failed"]
    /\ lease' = [lease EXCEPT ![s] = "over"]

\* The invocation ends: the leases it took run on without it.
Leave(w) ==
    /\ inv' = [inv EXCEPT ![w] = Idle]
    /\ lease' = [s \in Steps |-> IF lease[s] = w THEN "orphan" ELSE lease[s]]

Send(m) == queue' = queue (+) SetToBag({m})

\* SQS gets the message back: visible again later, or dead-lettered.
Return(w) ==
    IF Message(w).receives >= MaxReceive
    THEN dead' = TRUE /\ UNCHANGED queue
    ELSE Send(Message(w)) /\ UNCHANGED dead

-----------------------------------------------------------------------------
(* handler: one record, from its delivery to the first step.               *)

\* A trigger event: inbox.record, and the sweep of execute over the workflows
\* that match now.  A continuation: _resume_run.
Receive(w, m) ==
    /\ inv[w].pc = "idle"
    /\ queue' = queue (-) SetToBag({m})
    /\ LET event == m.kind = "event" IN
       /\ inv' = [inv EXCEPT ![w].pc = IF event THEN "sweep" ELSE "resume",
                    ![w].msg = [m EXCEPT !.receives = @ + 1], ![w].flow = m.flow,
                    ![w].sweep = {i \in DOMAIN Flows : event /\ Flows[i] \notin off}]
       /\ inbox' = IF event /\ inbox = "none" THEN "received" ELSE inbox
    /\ UNCHANGED <<records, dead, off, cancelling, sends, faults>>

\* Where the sweep ends.  Mutant: the suspensions it collected are not raised.
AfterSweepForgets(w) == "matched"
AfterSweep(w) == IF inv[w].parks = <<>> THEN "matched" ELSE "park"

\* execute: the next matching workflow, or the end of the sweep.
SweepOn(w, i) ==
    /\ i \in inv[w].sweep /\ \A j \in inv[w].sweep : i <= j
    /\ inv' = [inv EXCEPT ![w].pc = "walk", ![w].sweep = @ \ {i}, ![w].flow = Flows[i],
                 ![w].stack = <<Frame(Chain[Flows[i]], NoStep, FALSE, <<>>)>>]
Sweep(w) ==
    /\ inv[w].pc = "sweep"
    /\ \/ inv[w].sweep = {} /\ inv' = [inv EXCEPT ![w].pc = AfterSweep(w)]
       \/ \E i \in DOMAIN Flows : SweepOn(w, i)
    /\ UNCHANGED <<records, messages, environment>>

\* The remainder of the wait.
Rehop(m) == [m EXCEPT !.hops = @ - 1, !.receives = 0]

\* An envelope that arrives before resume_at goes back for the remainder.
ResumeEarly(w) ==
    /\ inv[w].pc = "resume"
    /\ Message(w).hops > 0
    /\ Send(Rehop(Message(w)))
    /\ inv' = [inv EXCEPT ![w].pc = "matched"]
    /\ UNCHANGED <<records, dead, environment>>

\* The parked run answers to the workflow's current state ...
ResumeWorkflow(w) ==
    /\ inv[w].pc = "resume"
    /\ Message(w).hops = 0
    /\ inv' = [inv EXCEPT ![w].pc = IF inv[w].flow \in off THEN "drop" ELSE "pauses",
                          ![w].paused = Message(w).paused]
    /\ UNCHANGED <<records, messages, environment>>

\* ... and to the operator: _pause_cancelled reads the records once.
ReadPauses(w) ==
    /\ inv[w].pc = "pauses"
    /\ LET cancelled == \E i \in DOMAIN inv[w].paused : status[inv[w].paused[i]] = "cancelled"
       IN  inv' = [inv EXCEPT ![w].pc = IF cancelled THEN "drop" ELSE "close"]
    /\ UNCHANGED <<records, messages, environment>>

\* _cancel_paused_step, one paused step at a time; the envelope is consumed.
Drop(w) ==
    /\ inv[w].pc = "drop"
    /\ IF inv[w].paused = <<>>
       THEN inv' = [inv EXCEPT ![w].pc = "matched"] /\ UNCHANGED records
       ELSE LET s == Head(inv[w].paused)
            IN  /\ IF status[s] = "delayed" THEN Mark(s, "cancelled") ELSE UNCHANGED records
                /\ inv' = [inv EXCEPT ![w].paused = Tail(@)]
    /\ UNCHANGED <<messages, environment>>

\* _close_paused_step, one paused step at a time; then resume_chain.
ClosePaused(w) ==
    /\ inv[w].pc = "close"
    /\ IF inv[w].paused = <<>>
       THEN /\ inv' = [inv EXCEPT ![w].pc = "walk", ![w].segments = Message(w).segments]
            /\ UNCHANGED records
       ELSE /\ Mark(Head(inv[w].paused), "completed")
            /\ inv' = [inv EXCEPT ![w].paused = Tail(@)]
    /\ UNCHANGED <<messages, environment>>

-----------------------------------------------------------------------------
(* run_chain and _run_step.                                                *)

AtStep(w, s) ==
    /\ inv[w].pc = "walk"
    /\ inv[w].stack # <<>>
    /\ Top(w).steps # <<>>
    /\ Head(Top(w).steps) = s

\* Mutants of the gate's condition: the lease, or the outcome, is not looked at.
FreeWithoutLease(s) == status[s] \notin Finished
FreeWithoutOutcome(s) == status[s] = "none" \/ lease[s] = "over"
Free(s) == status[s] = "none" \/ (status[s] \notin Finished /\ lease[s] = "over")

\* The gate lets w run s.  A branch or a loop enters its body.
Take(w, s) ==
    /\ AtStep(w, s)
    /\ Free(s)
    /\ status' = [status EXCEPT ![s] = "processing"]
    /\ lease' = [lease EXCEPT ![s] = w]
    /\ IF Kind[s] \in {"branch", "loop"}
       THEN inv' = [inv EXCEPT ![w].stack =
                <<Frame(Head(Bodies[s]), s, Kind[s] = "loop", Tail(Bodies[s]))>> \o Advance(w)]
       ELSE inv' = [inv EXCEPT ![w].pc = "run", ![w].step = s, ![w].stack = Advance(w)]
    /\ UNCHANGED <<messages, environment>>

\* What the read-back lets the chain walk past.  Mutant: any step that was started.
ReadsStarted(s) == status[s] # "none"
ReadsFinished(s) == status[s] \in Finished

\* How the chain goes on.  Mutant: a recovered filter does not stop it again.
AlwaysOn(s) == "walk"
WalkOrStop(s) == IF status[s] = "filtered" THEN "stop" ELSE "walk"

\* A CompletedStep: the chain goes on behind it, or stops with its filter.
PassBy(w, s) ==
    /\ AtStep(w, s)
    /\ ReadsFinished(s)
    /\ inv' = [inv EXCEPT ![w].stack = Advance(w), ![w].pc = WalkOrStop(s)]
    /\ UNCHANGED <<records, messages, environment>>

\* LeaseBusy: another delivery still holds the step.
Busy(w, s) ==
    /\ AtStep(w, s)
    /\ ~Free(s) /\ ~ReadsFinished(s)
    /\ inv' = [inv EXCEPT ![w].pc = "raise", ![w].error = "busy"]
    /\ UNCHANGED <<records, messages, environment>>

\* The step runs: an action or a passing filter completes, a failing filter
\* stops its chain, a long delay suspends the run.
RunStep(w) ==
    /\ inv[w].pc = "run"
    /\ LET s == inv[w].step IN
       \/ /\ Kind[s] = "action" \/ (Kind[s] = "filter" /\ s \notin Stopping)
          /\ Mark(s, "completed")
          /\ inv' = [inv EXCEPT ![w].pc = "walk", ![w].step = NoStep]
       \/ /\ Kind[s] = "filter" /\ s \in Stopping
          /\ Mark(s, "filtered")
          /\ inv' = [inv EXCEPT ![w].pc = "stop", ![w].step = NoStep]
       \/ /\ Kind[s] = "delay"
          /\ Mark(s, "delayed")
          /\ inv' = [inv EXCEPT ![w].pc = "suspend", ![w].step = NoStep, ![w].paused = <<s>>]
    /\ UNCHANGED <<messages, environment>>

\* on_action_error fires; the step's own policy then decides.
Fail(w, s, stack, error) ==
    LET halts == Policy[s] = "halt"
    IN  /\ Release(s)
        /\ inv' = [inv EXCEPT ![w].pc = IF halts THEN "raise" ELSE "mark",
                              ![w].step = IF halts THEN NoStep ELSE s,
                              ![w].error = IF halts THEN error ELSE "none",
                              ![w].stack = stack]

FailStep(w) ==
    /\ inv[w].pc = "run"
    /\ inv[w].step \in Failing
    /\ Fail(w, inv[w].step, inv[w].stack,
            IF Kind[inv[w].step] = "action" THEN "action" ELSE "logic")
    /\ UNCHANGED <<messages, environment>>

\* on_fail / on_error: the handled step closes out; on_error: run continues
\* with the error_actions as a chain in front of the remainder.
Handled(w) ==
    /\ inv[w].pc = "mark"
    /\ LET s == inv[w].step IN
       /\ Mark(s, IF Policy[s] = "skip" THEN "skipped" ELSE "failed")
       /\ inv' = [inv EXCEPT ![w].pc = "walk", ![w].step = NoStep,
                    ![w].stack = IF Policy[s] = "recover"
                                 THEN <<Frame(Recovery[s], NoStep, FALSE, <<>>)>> \o @ ELSE @]
    /\ UNCHANGED <<messages, environment>>

\* An exception leaves a chain: the wrapper around it fails in turn.
Propagate(w) ==
    /\ inv[w].pc = "raise"
    /\ inv[w].stack # <<>>
    /\ IF Top(w).owner = NoStep
       THEN inv' = [inv EXCEPT ![w].stack = Pop(w)] /\ UNCHANGED records
       ELSE Fail(w, Top(w).owner, Pop(w), inv[w].error)
    /\ UNCHANGED <<messages, environment>>

\* A chain ends, at its last step or at a filter.  A loop goes on with its next
\* item and absorbs the filter; a branch completes and hands the stop on.
EndChain(w) ==
    /\ inv[w].stack # <<>>
    /\ inv[w].pc = "stop" \/ (inv[w].pc = "walk" /\ Top(w).steps = <<>>)
    /\ LET top == Top(w)
           after == IF top.loop THEN "walk" ELSE inv[w].pc
       IN  IF top.more # <<>>
           THEN /\ inv' = [inv EXCEPT ![w].pc = "walk", ![w].stack =
                     <<Frame(Head(top.more), top.owner, TRUE, Tail(top.more))>> \o Pop(w)]
                /\ UNCHANGED records
           ELSE /\ inv' = [inv EXCEPT ![w].pc = after, ![w].stack = Pop(w)]
                /\ IF top.owner = NoStep THEN UNCHANGED records ELSE Mark(top.owner, "completed")
    /\ UNCHANGED <<messages, environment>>

\* resume_chain: the next segment, unless a filter stopped the one before.
NextSegment(w) ==
    /\ inv[w].pc = "walk"
    /\ inv[w].stack = <<>> /\ inv[w].segments # <<>>
    /\ inv' = [inv EXCEPT ![w].stack = <<Head(inv[w].segments)>>, ![w].segments = Tail(@)]
    /\ UNCHANGED <<records, messages, environment>>

\* The workflow's run is over.
EndRun(w) ==
    /\ inv[w].stack = <<>>
    /\ inv[w].pc = "stop" \/ (inv[w].pc = "walk" /\ inv[w].segments = <<>>)
    /\ inv' = [inv EXCEPT ![w].segments = <<>>,
                          ![w].pc = IF Message(w).kind = "event" THEN "sweep" ELSE "matched"]
    /\ UNCHANGED <<records, messages, environment>>

-----------------------------------------------------------------------------
(* RunSuspended: the unwind, and the continuation on the queue.            *)

\* Mutant: only loops leave a segment behind.
RemainderOfLoops(frame) ==
    IF frame.loop THEN <<Frame(<<>>, NoStep, TRUE, frame.more)>> ELSE <<>>

\* What is left of one chain, and of the loop whose body it is.
Remainder(frame) ==
    (IF frame.steps = <<>> THEN <<>> ELSE <<Frame(frame.steps, NoStep, FALSE, <<>>)>>)
    \o (IF frame.loop THEN <<Frame(<<>>, NoStep, TRUE, frame.more)>> ELSE <<>>)

\* One chain unwinds; the wrapper around it closes out delayed.
Unwind(w) ==
    /\ inv[w].pc = "suspend"
    /\ inv[w].stack # <<>>
    /\ LET owner == Top(w).owner IN
       /\ IF owner = NoStep THEN UNCHANGED records ELSE Mark(owner, "delayed")
       /\ inv' = [inv EXCEPT ![w].stack = Pop(w), ![w].tail = @ \o Remainder(Top(w)),
                    ![w].paused = IF owner = NoStep THEN @ ELSE Append(@, owner)]
    /\ UNCHANGED <<messages, environment>>

\* execute keeps the suspension and sweeps on; _resume_run hands it straight
\* to the handler, with the segments that were still waiting.
Suspend(w) ==
    /\ inv[w].pc = "suspend"
    /\ inv[w].stack = <<>>
    /\ inv' = [inv EXCEPT ![w].pc = IF Message(w).kind = "event" THEN "sweep" ELSE "park",
                 ![w].tail = <<>>, ![w].segments = <<>>, ![w].paused = <<>>,
                 ![w].parks = Append(@, [flow |-> inv[w].flow, paused |-> inv[w].paused,
                                         segments |-> inv[w].tail \o inv[w].segments])]
    /\ UNCHANGED <<records, messages, environment>>

\* execute parks every suspension but the first, the handler the first.
Park(w) ==
    /\ inv[w].pc = "park"
    /\ LET parks == inv[w].parks
           i == IF Len(parks) > 1 THEN 2 ELSE 1
           rest == IF Len(parks) > 1 THEN <<parks[1]>> \o SubSeq(parks, 3, Len(parks)) ELSE <<>>
       IN  /\ Send(Continuation(parks[i].flow, parks[i].segments, parks[i].paused))
           /\ inv' = [inv EXCEPT ![w].parks = rest,
                                 ![w].pc = IF rest = <<>> THEN "matched" ELSE "park"]
    /\ UNCHANGED <<records, dead, environment>>

\* A park that cannot enqueue fails the record.
ParkFails(w) ==
    /\ inv[w].pc = "park"
    /\ faults < MaxFaults
    /\ faults' = faults + 1
    /\ inv' = [inv EXCEPT ![w].pc = "requeue"]
    /\ UNCHANGED <<records, messages, inbox, off, cancelling, sends>>
-----------------------------------------------------------------------------
(* handler: how the record ends.                                           *)

\* Mutant: the close-out does not rewrite a row that was marked failed.
NoteOnce(w, outcome) == inbox' = IF inbox = "failed" THEN inbox ELSE outcome

\* inbox.complete writes only for a trigger event.
Note(w, outcome) == inbox' = IF Message(w).kind = "event" THEN outcome ELSE inbox

\* The number of the next attempt.  Mutant: the retry carries its own again.
SameAttempt(m) == m.attempt
NextAttempt(m) == m.attempt + 1

\* _schedule_retry: a failed action of an event whose policy has tries left.
Retries(w) ==
    /\ Message(w).kind = "event" /\ inv[w].error = "action"
    /\ NextAttempt(Message(w)) < Attempts[inv[w].flow]

\* How the handler takes the exception.  Mutant: LeaseBusy counts as handled.
VerdictBusyIsDone(w) ==
    IF inv[w].error = "busy" THEN "matched" ELSE IF Retries(w) THEN "retried" ELSE "failed"
Verdict(w) ==
    IF inv[w].error = "busy" THEN "requeue" ELSE IF Retries(w) THEN "retried" ELSE "failed"

\* An exception reached the handler.  LeaseBusy requeues the record quietly; a
\* failed action with tries left goes back on the queue as a later attempt.
Raised(w) ==
    /\ inv[w].pc = "raise"
    /\ inv[w].stack = <<>>
    /\ IF Retries(w) THEN Send(EventMessage(NextAttempt(Message(w)))) ELSE UNCHANGED queue
    /\ inv' = [inv EXCEPT ![w].pc = Verdict(w)]
    /\ UNCHANGED <<records, dead, environment>>

\* The record is handled: the message is deleted.
Acknowledge(w) ==
    /\ inv[w].pc \in {"matched", "retried"}
    /\ Note(w, IF inv[w].pc = "retried" THEN "failed" ELSE
               IF inv[w].flow = NoFlow THEN "unmatched" ELSE "matched")
    /\ Leave(w)
    /\ UNCHANGED <<status, messages, off, cancelling, sends, faults>>

\* A batch item failure.  From the third attempt on, a failure is counted and
\* may be the one that trips the auto-pause.
Reject(w) ==
    /\ inv[w].pc \in {"requeue", "failed"}
    /\ Note(w, "failed")
    /\ Return(w)
    /\ \/ UNCHANGED off
       \/ /\ inv[w].pc = "failed"
          /\ Message(w).attempt + Message(w).receives >= 3
          /\ off' = off \cup ({inv[w].flow} \cap Switchable)
    /\ Leave(w)
    /\ UNCHANGED <<status, cancelling, sends, faults>>

\* The invocation dies, wherever it is.
Crash(w) ==
    /\ inv[w].pc # "idle"
    /\ faults < MaxFaults
    /\ faults' = faults + 1
    /\ Return(w)
    /\ Leave(w)
    /\ UNCHANGED <<status, inbox, off, cancelling, sends>>

-----------------------------------------------------------------------------
(* Around the worker.                                                      *)

\* A lease whose taker is gone runs out.
Expire(s) ==
    /\ lease[s] = "orphan"
    /\ lease' = [lease EXCEPT ![s] = "over"]
    /\ UNCHANGED <<status, messages, inv, environment>>

\* The producer enqueues the event once more.
Resend ==
    /\ sends < MaxSends
    /\ sends' = sends + 1
    /\ Send(EventMessage(0))
    /\ UNCHANGED <<records, dead, inv, inbox, off, cancelling, faults>>

TurnOff(f) ==
    /\ f \in Switchable \ off
    /\ off' = off \cup {f}
    /\ UNCHANGED <<records, messages, inv, inbox, cancelling, sends, faults>>

\* api_cancel: one read of the run, then one conditional write for each step
\* that was delayed in it.
ReadCancel(f) ==
    LET parked == {s \in Steps : FlowOf[s] = f /\ status[s] = "delayed"}
    IN  /\ f \in Cancellable
        /\ parked # {} /\ parked \cap cancelling = {}
        /\ cancelling' = cancelling \cup parked
        /\ UNCHANGED <<records, messages, inv, inbox, off, sends, faults>>

Cancel(s) ==
    /\ s \in cancelling
    /\ cancelling' = cancelling \ {s}
    /\ IF status[s] = "delayed" THEN Mark(s, "cancelled") ELSE UNCHANGED records
    /\ UNCHANGED <<messages, inv, inbox, off, sends, faults>>

-----------------------------------------------------------------------------
Handle(w) ==
    \/ Sweep(w) \/ ResumeEarly(w) \/ ResumeWorkflow(w) \/ ReadPauses(w) \/ Drop(w)
    \/ ClosePaused(w)
    \/ \E s \in Steps : Take(w, s) \/ PassBy(w, s) \/ Busy(w, s)
    \/ RunStep(w) \/ FailStep(w) \/ Handled(w) \/ Propagate(w)
    \/ EndChain(w) \/ NextSegment(w) \/ EndRun(w)
    \/ Unwind(w) \/ Suspend(w) \/ Park(w) \/ ParkFails(w)
    \/ Raised(w) \/ Acknowledge(w) \/ Reject(w)

Deliver(w) == \E m \in BagToSet(queue) : Receive(w, m)

Next ==
    \/ \E w \in Workers : Deliver(w) \/ Handle(w) \/ Crash(w)
    \/ \E s \in Steps : Expire(s) \/ Cancel(s)
    \/ Resend
    \/ \E f \in DOMAIN Chain : TurnOff(f) \/ ReadCancel(f)

\* The platform delivers what is on the queue, a running invocation goes on (it
\* may be cut short, which redelivers) and time passes every lease.
Fairness ==
    /\ \A w \in Workers : WF_vars(Deliver(w)) /\ WF_vars(Handle(w))
    /\ \A s \in Steps : WF_vars(Expire(s))

Spec == Init /\ [][Next]_vars
FairSpec == Spec /\ Fairness

-----------------------------------------------------------------------------
(* Type invariant: records, messages and invocations keep their shape.     *)

Wrappers == {s \in Steps : Kind[s] \in {"branch", "loop"}}
Pausing == {s \in Steps : Kind[s] = "delay"} \cup Wrappers

\* Every sequence of steps that run_chain may walk.
Chains == {Chain[f] : f \in DOMAIN Chain} \cup {Recovery[s] : s \in Steps}
          \cup UNION {{Bodies[s][i] : i \in DOMAIN Bodies[s]} : s \in Steps}

Pcs == {"idle", "sweep", "resume", "drop", "pauses", "close", "walk", "run", "mark", "stop",
        "suspend", "park", "raise", "requeue", "failed", "matched", "retried"}

Frames == [steps : Seq(Steps), owner : Wrappers \cup {NoStep}, loop : BOOLEAN, more : Seq(Chains)]
Envelopes ==
    [kind : {"event", "resume"}, flow : DOMAIN Chain \cup {NoFlow}, segments : Seq(Frames),
     paused : Seq(Pausing), hops : Nat, attempt : Nat, receives : 0 .. MaxReceive]
Suspensions ==
    [flow : DOMAIN Chain \cup {NoFlow}, paused : Seq(Pausing), segments : Seq(Frames)]
Invocations ==
    [pc : Pcs, msg : Envelopes \cup {NoMessage}, sweep : SUBSET (DOMAIN Flows),
     flow : DOMAIN Chain \cup {NoFlow}, stack : Seq(Frames), segments : Seq(Frames),
     tail : Seq(Frames), step : Steps \cup {NoStep}, paused : Seq(Pausing),
     parks : Seq(Suspensions), error : {"none", "busy", "action", "logic"}]

\* An invocation has a message for as long as it runs, a step in hand for as
\* long as it runs the step or closes it out as handled, and something to park
\* when it parks.
Consistent(i) ==
    /\ i.pc = "idle" <=> i.msg = NoMessage
    /\ i.pc \in {"run", "mark"} <=> i.step # NoStep
    /\ i.pc = "mark" => Policy[i.step] # "halt"
    /\ i.pc = "park" => i.parks # <<>>

TypeOK ==
    /\ status \in [Steps -> Status]
    /\ lease \in [Steps -> Workers \cup {"orphan", "over"}]
    /\ IsABag(queue) /\ BagToSet(queue) \subseteq Envelopes /\ dead \in BOOLEAN
    /\ \A m \in BagToSet(queue) : m.receives < MaxReceive
    /\ inv \in [Workers -> Invocations] /\ \A w \in Workers : Consistent(inv[w])
    /\ inbox \in {"none", "received", "matched", "unmatched", "failed"}
    /\ off \subseteq Switchable /\ cancelling \subseteq Steps
    /\ sends \in 1 .. MaxSends /\ faults \in 0 .. MaxFaults

-----------------------------------------------------------------------------
(* Where the run stands.                                                   *)

\* The steps ahead of s in its chain.
Ahead(s) ==
    UNION {{chain[i] : i \in {j \in DOMAIN chain :
                \E k \in DOMAIN chain : j < k /\ chain[k] = s}} : chain \in Chains}
Inner(s) ==
    UNION {{Bodies[s][i][j] : j \in DOMAIN Bodies[s][i]} : i \in DOMAIN Bodies[s]}

\* Steps only a gate and their holder's close-out write.
Sealed == {s \in Steps : Kind[s] \in {"action", "filter"} /\ Policy[s] = "halt"}
Runs(w, s) == inv[w].pc = "run" /\ inv[w].step = s

\* What both rest on.  A sealed step is written by a gate and by the one who
\* came through it: its runner holds the lease, and nobody parks or skips it.
RunnersHold ==
    /\ \A s \in Sealed : status[s] \notin {"delayed", "skipped", "cancelled"}
    /\ \A w \in Workers : \A s \in Sealed :
         Runs(w, s) => status[s] = "processing" /\ lease[s] = w

\* A remainder is in order when all the sealed steps ahead of each of its
\* steps are done, or are to be walked first.
Done == {s \in Sealed : status[s] = "completed"}
Ready(done, steps) ==
    \A i \in DOMAIN steps : \A t \in Ahead(steps[i]) \cap Sealed :
        t \in done \/ \E j \in DOMAIN steps : j < i /\ steps[j] = t
AllReady(done, frames) == \A i \in DOMAIN frames : Ready(done, frames[i].steps)

\* The chains of an invocation are in order, but for the one that a filter or
\* an exception is about to leave; so is what it will park, and what waits in
\* the messages.
InvReady(done, i) ==
    /\ i.stack # <<>> =>
         /\ i.pc \in {"stop", "raise"} \/ Ready(done \cup {i.step}, Head(i.stack).steps)
         /\ AllReady(done, Tail(i.stack))
    /\ i.pc = "run" => Ahead(i.step) \cap Sealed \subseteq done
    /\ AllReady(done, i.segments) /\ AllReady(done, i.tail)
    /\ \A k \in DOMAIN i.parks : AllReady(done, i.parks[k].segments)
    /\ i.msg # NoMessage => AllReady(done, i.msg.segments)
ChainsReady ==
    /\ \A m \in BagToSet(queue) : AllReady(Done, m.segments)
    /\ \A w \in Workers : InvReady(Done, inv[w])

Settled(s) ==
    \/ status[s] \in {"completed", "skipped"}
    \/ status[s] = "failed" /\ Policy[s] \in {"record", "recover"}
Walked(chain) ==
    \E n \in 0 .. Len(chain) :
        /\ \A i \in 1 .. n : Settled(chain[i])
        /\ n < Len(chain) => status[chain[n + 1]] = "filtered"

\* Nothing is on its way: no delivery runs and no message will be delivered.
Quiet ==
    /\ \A w \in Workers : inv[w].pc = "idle"
    /\ queue = EmptyBag
Stopped(f) == f \in off \/ \E s \in Steps : FlowOf[s] = f /\ status[s] = "cancelled"

-----------------------------------------------------------------------------
\* A redelivery never runs a step ahead of the ones before it: what a chain
\* walks past (CompletedStep) is really completed, and nothing behind a filter
\* that stopped the run ever starts, whichever delivery gets there first.
InOrder ==
    \A w \in Workers : \A s \in Steps :
        Runs(w, s) => \A t \in Ahead(s) \cap Sealed : status[t] = "completed"

\* A run is never lost: once the queue is drained and nothing was dead-lettered,
\* every workflow the event matched has walked its whole chain, or up to the
\* filter that stopped it, unless it was turned off or cancelled (the retry, the
\* batch failure and the continuation are what keeps it alive until then).
NothingLost ==
    Quiet /\ ~dead =>
        \A i \in DOMAIN Flows : Stopped(Flows[i]) \/ Walked(Chain[Flows[i]])

\* No pause of a live workflow is forgotten: a step reads delayed only while a
\* delivery or a message is there that will close it out, completed or
\* cancelled.  (A suspension that a failing sibling threw away comes back with
\* the event, unless the workflow was turned off by then.)
NothingParked ==
    Quiet /\ ~dead => \A s \in Steps : status[s] = "delayed" => FlowOf[s] \in off

\* The inbox row keeps up with the event: as long as the event is on its way or
\* its row reads matched, no step leaves the row behind with another outcome,
\* whatever order deliveries, redeliveries, crashes and retries close it in, but
\* one: a retry that was done before the attempt that scheduled it came to its
\* note (LateNote; the run worker_inbox).
EventOnItsWay ==
    \/ \E m \in BagToSet(queue) : m.kind = "event"
    \/ \E w \in Workers : inv[w].pc # "idle" /\ Message(w).kind = "event"
RowTold == off = {} /\ ~dead => inbox = "matched" \/ EventOnItsWay
LateNote(w) == inv[w].pc = "retried" /\ Acknowledge(w) /\ ~EventOnItsWay'
RowKeeps == RowTold => RowTold' \/ \E w \in Workers : LateNote(w)
RowKeepsUp == [][RowKeeps]_vars

\* An id names one step of one chain ("Every action: unique id + type",
\* .agents/skills/create-flows/SKILL.md); nothing in the code enforces it.
DistinctIds ==
    \A c, d \in Chains : \A i \in DOMAIN c, j \in DOMAIN d : c[i] = d[j] => c = d /\ i = j

\* The invariant of the proofs: only the order needs DistinctIds.
WorkerInv == TypeOK /\ RunnersHold /\ (DistinctIds => ChainsReady)

Once == INSTANCE StepOnce WITH
            Steps <- Sealed,
            running <- [s \in Sealed |-> {w \in Workers : Runs(w, s)}],
            finished <- {s \in Sealed : status[s] \in Finished}

\* Crashes, duplicates, retries and resumes of whole deliveries keep the
\* promise of the ledger: a step runs once at a time and never again when done.
ImplementsStepOnce == Once!Spec

\* Every message is settled in the end: acknowledged, or dead-lettered.  No run
\* parks, retries or waits on a lease for ever.
Drains == <>[]Quiet

-----------------------------------------------------------------------------
(* What the code's comments say and the code does not do.                  *)

\* handler, where it schedules a retry: the row notes the pending attempt and the
\* retry's own close-out rewrites it (matched, or the final failure), so the row
\* of an event whose retry went through ends matched.
InboxTells ==
    Quiet /\ ~dead /\ off = {} => inbox = "matched"

\* _cancel_paused_step: of a resume and an operator cancel, exactly one wins a
\* step, so a step that was cancelled is not completed by the resume.
OneSideWins ==
    [][\A s \in Steps : status[s] = "cancelled" => status'[s] # "completed"]_vars

\* _run_for_each: a filter inside the body skips just this iteration, so in the
\* end every item's body was walked.
EveryItemWalked ==
    Quiet /\ ~dead =>
        \A s \in Steps : Kind[s] = "loop" /\ Settled(s) =>
            \A i \in DOMAIN Bodies[s] : Walked(Bodies[s][i])

\* _run_paths: a filter inside a branch stops the chain, so no step behind the
\* branch runs once the filter in it has said no.
StopsHold ==
    \A w \in Workers : \A s \in Steps : Runs(w, s) =>
        \A t \in Ahead(s) : Kind[t] = "branch" => \A u \in Inner(t) : status[u] # "filtered"

\* LeaseBusy is raised instead of skipping the step, so the policy of the branch
\* around a step never closes the branch as skipped while another invocation is
\* running that step.
BusyIsNotSkipped ==
    \A t \in Steps : status[t] = "skipped" =>
        \A u \in Inner(t) : \A w \in Workers : ~Runs(w, u)
=============================================================================
