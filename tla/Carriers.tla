------------------------------ MODULE Carriers ------------------------------
(***************************************************************************)
(* Why a run is not lost: until a step of a workflow's own chain is        *)
(* settled, or the run is stopped ahead of it, somebody carries it.  The   *)
(* carrier is a message on the queue, or an invocation of handler that     *)
(* still has the step before it, or that will hand its message back.       *)
(*                                                                         *)
(* These are the parts of the inductive invariant behind NothingLost of    *)
(* Worker; nothing here is code.                                           *)
(***************************************************************************)
EXTENDS Worker

CONSTANT Root   \* Root[s]: the step of the workflow's own chain that s belongs to

-----------------------------------------------------------------------------
(* The workflows as trees of steps.                                        *)

Members(seq) == {seq[i] : i \in DOMAIN seq}
StepsOf(frames) == UNION {Members(frame.steps) : frame \in Members(frames)}

\* The steps of the workflows' own chains, and those inside of them.
Spine == UNION {Members(Chain[f]) : f \in Members(Flows)}
InnerSteps == UNION {Members(Recovery[s]) \cup Inner(s) : s \in Steps}

\* A step belongs to one step of the chain it hangs on, and to its workflow.
Nested ==
    /\ Root \in [Steps -> Steps]
    /\ \A s \in Spine : Root[s] = s
    /\ \A s \in Steps : \A u \in Members(Recovery[s]) \cup Inner(s) :
         u \notin Spine /\ Root[u] = Root[s]
    /\ \A s \in Steps : FlowOf[s] = FlowOf[Root[s]]
    /\ \A f \in Members(Flows) : \A s \in Members(Chain[f]) : FlowOf[s] = f

\* A filter that says no stands in the workflow's own chain (the runs
\* worker_branch and worker_loop show what one further in does).
FiltersOnSpine == Stopping \cap InnerSteps = {}

Trees == DistinctIds /\ Nested /\ FiltersOnSpine

\* What is left of the chain behind a step, or behind the step it belongs to.
Behind(t) == {s \in Spine : t \in Ahead(s)}
Beyond(u) == Behind(Root[u])

-----------------------------------------------------------------------------
(* The frames of one run, innermost first: all but the last are inside a   *)
(* step of the chain, and the last is what is left of the chain behind it. *)

\* A chain that ends without a word to anybody.
Plain(frame) == frame.owner = NoStep /\ ~frame.loop /\ frame.more = <<>>

Inside(s, left) == s \in InnerSteps /\ Beyond(s) = left
Hangs(frame, left) ==
    /\ \A s \in Members(frame.steps) : Inside(s, left)
    /\ \A body \in Members(frame.more) : \A s \in Members(body) : Inside(s, left)
    /\ frame.owner # NoStep => frame.owner \in Spine \cup InnerSteps /\ Beyond(frame.owner) = left
AllHang(frames, left) == \A frame \in Members(frames) : Hangs(frame, left)
Lasts(frame, left) ==
    /\ Plain(frame)
    /\ left = Members(frame.steps)
    /\ \E f \in Members(Flows) : \E n \in 0 .. Len(Chain[f]) :
         frame.steps = SubSeq(Chain[f], n + 1, Len(Chain[f]))

Line(frames, left) ==
    \/ left = {} /\ AllHang(frames, left)
    \/ /\ frames # <<>> /\ Lasts(frames[Len(frames)], left)
       /\ \A k \in DOMAIN frames : k < Len(frames) => Hangs(frames[k], left)

NoOwners(frames) == \A frame \in Members(frames) : frame.owner = NoStep
AllPlain(frames) == \A frame \in Members(frames) : Plain(frame)

\* A suspension, on its way or in a message: what is paused belongs to the
\* step ahead of what is left.
PauseShaped(flow, paused, segments, left) ==
    /\ Line(segments, left) /\ NoOwners(segments)
    /\ \A s \in left : FlowOf[s] = flow
    /\ \A s \in Members(paused) : Beyond(s) = left
MessageShaped(m) ==
    m.kind = "resume" => \E left \in SUBSET Spine : PauseShaped(m.flow, m.paused, m.segments, left)
ParkShaped(park) ==
    \E left \in SUBSET Spine : PauseShaped(park.flow, park.paused, park.segments, left)

-----------------------------------------------------------------------------
(* The shape of an invocation.                                             *)

Walking == {"walk", "run", "mark", "raise", "suspend"}
Sweeping == Walking \cup {"sweep", "stop", "park"}
Starting == {"sweep", "resume", "pauses", "close", "drop"}

\* What an invocation has before it, and what it has in hand besides.
LineOf(i) == i.tail \o (i.stack \o i.segments)
Owners(frames) == {frame.owner : frame \in Members(frames)}
InHand(i) == StepsOf(LineOf(i)) \cup {i.step} \cup Owners(i.stack)

\* Nothing is left but to leave: a filter has stopped the chain, or the step in
\* hand is one of the chain's own.
StopShaped(i) ==
    /\ i.tail = <<>> /\ i.segments = <<>> /\ AllPlain(i.stack)

\* Under the frame of a step of the chain's own there is only that chain.
Nests(stack, segments) ==
    \A j, k \in DOMAIN stack :
        stack[j].owner \in Spine => segments = <<>> /\ (j < k => Plain(stack[k]))

WalkShaped(i, left) ==
    /\ Line(LineOf(i), left)
    /\ \A s \in left : FlowOf[s] = i.flow
    /\ i.pc # "suspend" => i.tail = <<>>
    /\ NoOwners(i.tail) /\ NoOwners(i.segments)
    /\ Nests(i.stack, i.segments)
    /\ i.step # NoStep => i.step \in Spine \cup InnerSteps /\ Beyond(i.step) = left
    /\ i.step \in Spine => StopShaped(i)
    /\ i.pc = "suspend" => \A s \in Members(i.paused) : Beyond(s) = left

\* What a continuation walks and parks is among what its message names.
WithinMessage(i) ==
    LET named == StepsOf(i.msg.segments) IN
      /\ i.sweep = {} /\ i.flow = i.msg.flow
      /\ i.pc \in Walking \cup {"stop", "resume", "pauses", "close"} => i.parks = <<>>
      /\ i.pc \in Walking => InHand(i) \cap Spine \subseteq named
      /\ i.pc = "suspend" => Members(i.paused) \cap Spine \subseteq named
      /\ i.pc = "park" => \A park \in Members(i.parks) :
           (Members(park.paused) \cup StepsOf(park.segments)) \cap Spine \subseteq named
      /\ i.pc \in {"pauses", "close", "drop"} => Members(i.paused) \subseteq Members(i.msg.paused)

Shaped(i) ==
    /\ i.pc = "idle" => i = Idle
    /\ i.pc \in Starting => i.stack = <<>> /\ i.segments = <<>> /\ i.tail = <<>>
    /\ i.pc \in Walking => \E left \in SUBSET Spine : WalkShaped(i, left)
    /\ i.pc = "stop" => StopShaped(i)
    /\ i.pc \in {"resume", "pauses", "close", "drop"} => i.msg.kind = "resume"
    /\ i.pc = "sweep" => i.msg.kind = "event"
    /\ i.pc = "park" => i.sweep = {}
    /\ i.pc # "idle" => MessageShaped(i.msg) /\ (i.msg.kind = "resume" => WithinMessage(i))
    /\ i.pc \in Sweeping => \A park \in Members(i.parks) : ParkShaped(park)

Shapes ==
    /\ \A m \in BagToSet(queue) : MessageShaped(m)
    /\ \A w \in Workers : Shaped(inv[w])
    /\ \A s \in Steps : status[s] = "filtered" => s \in Spine

-----------------------------------------------------------------------------
(* Who carries a step.                                                     *)

Delayed == {s \in Steps : status[s] = "delayed"}
Halted == {s \in Steps : status[s] \in {"filtered", "cancelled"}}

\* A paused step is carried for as long as it reads delayed; whoever changes
\* that has it in hand.
Pause(delayed, paused, segments) == (Members(paused) \cap delayed) \cup StepsOf(segments)

ByMessage(delayed, m) ==
    IF m.kind = "event" THEN Spine ELSE Pause(delayed, m.paused, m.segments)

\* What the sweep has still to reach, and the suspensions it has collected.
BySweep(delayed, i) ==
    (UNION {Members(Chain[Flows[k]]) : k \in i.sweep})
    \cup (UNION {Pause(delayed, park.paused, park.segments) : park \in Members(i.parks)})

\* An exception that no wrapper can absorb gives the message back.
ByInvocation(delayed, i) ==
    (IF i.pc \in Sweeping THEN BySweep(delayed, i) ELSE {})
    \cup (IF i.pc \in Walking THEN InHand(i) ELSE {})
    \cup (IF i.pc = "suspend" THEN Members(i.paused) \cap delayed ELSE {})
    \cup (IF i.pc \in {"resume", "requeue", "failed"} \/ (i.pc = "raise" /\ NoOwners(i.stack))
          THEN ByMessage(delayed, i.msg) ELSE {})
    \cup (IF i.pc \in {"pauses", "close"} THEN Pause(delayed, i.paused, i.msg.segments) ELSE {})
    \cup (IF i.pc = "drop" THEN Members(i.paused) \cap delayed ELSE {})

Carried(s) ==
    \/ \E m \in BagToSet(queue) : s \in ByMessage(Delayed, m)
    \/ \E w \in Workers : s \in ByInvocation(Delayed, inv[w])

\* The run is stopped at s or ahead of it.
Blocked(s) == \E u \in Halted : s = u \/ s \in Beyond(u)

Accounted(s) == dead \/ FlowOf[s] \in off \/ Settled(s) \/ Blocked(s) \/ Carried(s)

\* No step of a workflow is out of everybody's hands before its time.
CarriedOn == Shapes /\ \A s \in Spine : Accounted(s)
=============================================================================
