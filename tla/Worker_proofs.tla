--------------------------- MODULE Worker_proofs ----------------------------
(***************************************************************************)
(* The life of an event, for every workflow, any number of workers,        *)
(* deliveries, crashes, parks and retries: records, messages and           *)
(* invocations keep their shape; the sealed steps are run as StepOnce      *)
(* promises; and no step runs ahead of the ones before it.                 *)
(***************************************************************************)
EXTENDS Worker, TLAPS

-----------------------------------------------------------------------------
(* Bags of messages.                                                       *)

LEMMA BagOfOne ==
  ASSUME NEW m
  PROVE  IsABag(SetToBag({m})) /\ BagToSet(SetToBag({m})) = {m}
BY DEF IsABag, SetToBag, BagToSet

LEMMA BagMore ==
  ASSUME NEW bag, NEW m, IsABag(bag)
  PROVE  /\ IsABag(bag (+) SetToBag({m}))
         /\ BagToSet(bag (+) SetToBag({m})) = BagToSet(bag) \cup {m}
BY DEF IsABag, SetToBag, BagToSet, (+)

LEMMA BagLess ==
  ASSUME NEW bag, NEW m, IsABag(bag)
  PROVE  /\ IsABag(bag (-) SetToBag({m}))
         /\ BagToSet(bag (-) SetToBag({m})) \subseteq BagToSet(bag)
BY DEF IsABag, SetToBag, BagToSet, (-)

-----------------------------------------------------------------------------
(* Remainders in order.                                                    *)

(* What was in order stays so as more steps are done.                      *)
LEMMA ReadyMore ==
  ASSUME NEW done, NEW more, done \subseteq more
  PROVE  /\ \A steps : Ready(done, steps) => Ready(more, steps)
         /\ \A frames : AllReady(done, frames) => AllReady(more, frames)
BY DEF Ready, AllReady

(* A step that is not sealed is not waited for.                            *)
LEMMA ReadyUnsealed ==
  ASSUME NEW done, NEW s, s \notin Sealed, NEW steps, Ready(done \cup {s}, steps)
  PROVE  Ready(done, steps)
BY DEF Ready

(* The first step of a remainder may run ...                               *)
LEMMA ReadyHead ==
  ASSUME NEW done, NEW steps \in Seq(Steps), steps # <<>>, Ready(done, steps)
  PROVE  Ahead(Head(steps)) \cap Sealed \subseteq done
<1>1. 1 \in DOMAIN steps /\ Head(steps) = steps[1]
  OBVIOUS
<1>2. \A j \in DOMAIN steps : ~(j < 1)
  OBVIOUS
<1>3. QED
  BY <1>1, <1>2 DEF Ready

(* ... and behind it the rest is in order.                                 *)
LEMMA ReadyTail ==
  ASSUME NEW done, NEW steps \in Seq(Steps), steps # <<>>, Ready(done, steps)
  PROVE  Ready(done \cup {Head(steps)}, Tail(steps))
<1> SUFFICES ASSUME NEW i \in DOMAIN Tail(steps), NEW t \in Ahead(Tail(steps)[i]) \cap Sealed,
                    t \notin done, t # Head(steps)
             PROVE  \E j \in DOMAIN Tail(steps) : j < i /\ Tail(steps)[j] = t
  BY DEF Ready
<1>1. i + 1 \in DOMAIN steps /\ steps[i + 1] = Tail(steps)[i] /\ i \in Nat \ {0}
  OBVIOUS
<1>2. PICK k \in DOMAIN steps : k < i + 1 /\ steps[k] = t
  BY <1>1 DEF Ready
<1>3. k # 1
  BY <1>2
<1>4. k - 1 \in DOMAIN Tail(steps) /\ k - 1 < i /\ Tail(steps)[k - 1] = t
  BY <1>1, <1>2, <1>3
<1>5. QED
  BY <1>4

(* A whole chain is in order, when ids are distinct.                       *)
LEMMA ReadyChain ==
  ASSUME DistinctIds, NEW chain \in Chains, NEW done
  PROVE  Ready(done, chain)
BY DEF DistinctIds, Ready, Ahead

LEMMA ReadyFrames ==
  ASSUME NEW done, NEW frames \in Seq(Frames)
  PROVE  /\ AllReady(done, <<>>)
         /\ frames # <<>> /\ AllReady(done, frames) =>
              Ready(done, Head(frames).steps) /\ AllReady(done, Tail(frames))
         /\ \A frame \in Frames : Ready(done, frame.steps) => AllReady(done, <<frame>>)
         /\ \A more \in Seq(Frames) :
              AllReady(done, frames) /\ AllReady(done, more) => AllReady(done, frames \o more)
<1>1. AllReady(done, <<>>)
  BY DEF AllReady
<1>2. ASSUME frames # <<>>, AllReady(done, frames)
      PROVE  Ready(done, Head(frames).steps) /\ AllReady(done, Tail(frames))
  <2>1. 1 \in DOMAIN frames /\ Head(frames) = frames[1]
    BY <1>2
  <2>2. \A i \in DOMAIN Tail(frames) : i + 1 \in DOMAIN frames /\ Tail(frames)[i] = frames[i + 1]
    BY <1>2
  <2>3. QED
    BY <1>2, <2>1, <2>2 DEF AllReady
<1>3. ASSUME NEW frame \in Frames, Ready(done, frame.steps) PROVE AllReady(done, <<frame>>)
  BY <1>3 DEF AllReady
<1>4. ASSUME NEW more \in Seq(Frames), AllReady(done, frames), AllReady(done, more)
      PROVE  AllReady(done, frames \o more)
  <2> SUFFICES ASSUME NEW i \in DOMAIN (frames \o more)
               PROVE  Ready(done, (frames \o more)[i].steps)
    BY DEF AllReady
  <2>1. CASE i \in DOMAIN frames
    BY <1>4, <2>1 DEF AllReady
  <2>2. CASE i \notin DOMAIN frames
    <3>1. i - Len(frames) \in DOMAIN more /\ (frames \o more)[i] = more[i - Len(frames)]
      BY <2>2
    <3>2. QED
      BY <1>4, <3>1 DEF AllReady
  <2>3. QED
    BY <2>1, <2>2
<1>5. QED
  BY <1>1, <1>2, <1>3, <1>4

-----------------------------------------------------------------------------
(* Sequences, and the constants.                                           *)

LEMMA HeadTail ==
  ASSUME NEW S, NEW seq \in Seq(S), seq # <<>>
  PROVE  Head(seq) \in S /\ Tail(seq) \in Seq(S) /\ Head(seq) = seq[1]
OBVIOUS

LEMMA Singleton ==
  ASSUME NEW S, NEW e \in S
  PROVE  <<e>> \in Seq(S) /\ <<e>> # <<>> /\ Head(<<e>>) = e /\ Tail(<<e>>) = <<>>
OBVIOUS

LEMMA OneMore ==
  ASSUME NEW S, NEW e \in S, NEW seq \in Seq(S)
  PROVE  /\ <<e>> \o seq \in Seq(S) /\ <<e>> \o seq # <<>>
         /\ Head(<<e>> \o seq) = e /\ Tail(<<e>> \o seq) = seq
OBVIOUS

LEMMA Joined ==
  ASSUME NEW S, NEW left \in Seq(S), NEW right \in Seq(S)
  PROVE  \A k \in DOMAIN (left \o right) :
           \/ k \in DOMAIN left /\ (left \o right)[k] = left[k]
           \/ k - Len(left) \in DOMAIN right /\ (left \o right)[k] = right[k - Len(left)]
OBVIOUS

LEMMA SeqNarrows ==
  ASSUME NEW S, NEW T, NEW seq \in Seq(S), \A i \in DOMAIN seq : seq[i] \in T
  PROVE  seq \in Seq(T)
OBVIOUS

LEMMA ChainsTyped ==
  /\ Chains \subseteq Seq(Steps)
  /\ \A f \in DOMAIN Chain : Chain[f] \in Chains
  /\ \A s \in Steps : Recovery[s] \in Chains /\ Bodies[s] \in Seq(Chains)
  /\ \A s \in Wrappers : Head(Bodies[s]) \in Chains /\ Tail(Bodies[s]) \in Seq(Chains)
<1> USE ChainsAssumption
<1>1. Chains \subseteq Seq(Steps)
  BY DEF Chains
<1>2. \A f \in DOMAIN Chain : Chain[f] \in Chains
  BY DEF Chains
<1>3. \A s \in Steps : Recovery[s] \in Chains
  BY DEF Chains
<1>4. ASSUME NEW s \in Steps PROVE Bodies[s] \in Seq(Chains)
  <2>1. \A i \in DOMAIN Bodies[s] : Bodies[s][i] \in Chains
    BY DEF Chains
  <2>2. Bodies[s] \in Seq(Seq(Steps))
    OBVIOUS
  <2>3. QED
    BY <2>1, <2>2, SeqNarrows
<1>5. \A s \in Wrappers : Bodies[s] # <<>>
  BY DEF Wrappers
<1>6. ASSUME NEW s \in Wrappers
      PROVE  Head(Bodies[s]) \in Chains /\ Tail(Bodies[s]) \in Seq(Chains)
  <2>1. s \in Steps
    BY DEF Wrappers
  <2>2. Bodies[s] \in Seq(Chains) /\ Bodies[s] # <<>>
    BY <1>4, <1>5, <2>1
  <2>3. QED
    BY <2>2
<1>7. QED
  BY <1>1, <1>2, <1>3, <1>4, <1>6

LEMMA Unsealed ==
  /\ Wrappers \subseteq Steps /\ Pausing \subseteq Steps /\ Sealed \subseteq Steps
  /\ Wrappers \cap Sealed = {} /\ Pausing \cap Sealed = {} /\ NoStep \notin Steps
  /\ \A s \in Sealed : Policy[s] = "halt"
BY ChainsAssumption DEF Wrappers, Pausing, Sealed

LEMMA FrameTyped ==
  ASSUME NEW steps \in Seq(Steps), NEW owner \in Wrappers \cup {NoStep}, NEW loop \in BOOLEAN,
         NEW more \in Seq(Chains)
  PROVE  Frame(steps, owner, loop, more) \in Frames /\ Frame(steps, owner, loop, more).steps = steps
BY DEF Frame, Frames

-----------------------------------------------------------------------------
(* One invocation moves.                                                   *)

(* The invocation w goes on as next, in keeping with its records.          *)
Turn(w, next) ==
    /\ inv' = [inv EXCEPT ![w] = next]
    /\ next \in Invocations /\ Consistent(next)
    /\ DistinctIds /\ ChainsReady => InvReady(Done', next)

(* The messages, and everything around the worker, keep their shape.       *)
Mail ==
    /\ IsABag(queue) /\ BagToSet(queue) \subseteq Envelopes /\ dead \in BOOLEAN
    /\ \A m \in BagToSet(queue) : m.receives < MaxReceive
Around ==
    /\ inbox \in {"none", "received", "matched", "unmatched", "failed"}
    /\ off \subseteq Switchable /\ cancelling \subseteq Steps
    /\ sends \in 1 .. MaxSends /\ faults \in 0 .. MaxFaults
MailReady == \A m \in BagToSet(queue) : AllReady(Done, m.segments)

(* A step of the records that no sealed step notices.                      *)
SealedStand ==
    /\ status' \in [Steps -> Status]
    /\ lease' \in [Steps -> Workers \cup {"orphan", "over"}]
    /\ \A s \in Sealed : status'[s] = status[s] /\ lease'[s] = lease[s]

(* A step done stays done, and with it what was in order behind it.        *)
LEMMA ReadyStays ==
  ASSUME ChainsReady, Done \subseteq Done'
  PROVE  /\ \A m \in BagToSet(queue) : AllReady(Done', m.segments)
         /\ \A w \in Workers : InvReady(Done', inv[w])
<1>1. \A steps : Ready(Done, steps) => Ready(Done', steps)
  BY ReadyMore
<1>2. \A frames : AllReady(Done, frames) => AllReady(Done', frames)
  BY ReadyMore
<1>3. \A s : \A steps : Ready(Done \cup {s}, steps) => Ready(Done' \cup {s}, steps)
  BY ReadyMore
<1>4. QED
  BY <1>1, <1>2, <1>3 DEF ChainsReady, InvReady

(* A step of one invocation that is not running a sealed step, neither     *)
(* before nor after.                                                       *)
LEMMA AsideStep ==
  ASSUME WorkerInv, NEW w \in Workers, NEW next, Turn(w, next), SealedStand,
         Mail', Around', DistinctIds /\ ChainsReady => MailReady',
         inv[w].pc # "run" \/ inv[w].step \notin Sealed,
         next.pc # "run" \/ next.step \notin Sealed
  PROVE  WorkerInv' /\ UNCHANGED Once!vars
<1>1. TypeOK'
  BY DEF WorkerInv, TypeOK, Turn, SealedStand, Mail, Around
<1>2. \A v \in Workers : inv'[v] = IF v = w THEN next ELSE inv[v]
  BY DEF WorkerInv, TypeOK, Turn
<1>3. \A v \in Workers : \A s \in Sealed : Runs(v, s)' <=> Runs(v, s)
  BY <1>2 DEF Runs
<1>4. RunnersHold'
  BY <1>3 DEF WorkerInv, RunnersHold, SealedStand
<1>5. Done' = Done
  BY DEF Done, SealedStand
<1>6. ASSUME DistinctIds PROVE ChainsReady'
  BY <1>2, <1>5, <1>6, ReadyStays DEF WorkerInv, ChainsReady, Turn, MailReady
<1>7. UNCHANGED Once!vars
  <2>1. \A s \in Sealed : {v \in Workers : Runs(v, s)}' = {v \in Workers : Runs(v, s)}
    BY <1>3
  <2>2. QED
    BY <2>1 DEF Once!vars, SealedStand
<1>8. QED
  BY <1>1, <1>4, <1>6, <1>7 DEF WorkerInv
-----------------------------------------------------------------------------
(* The shape of an invocation.                                             *)

LEMMA EveryPc ==
  /\ "idle" \in Pcs /\ "sweep" \in Pcs /\ "resume" \in Pcs /\ "drop" \in Pcs
  /\ "pauses" \in Pcs /\ "close" \in Pcs /\ "walk" \in Pcs /\ "run" \in Pcs
  /\ "mark" \in Pcs /\ "stop" \in Pcs /\ "suspend" \in Pcs /\ "park" \in Pcs
  /\ "raise" \in Pcs /\ "requeue" \in Pcs /\ "failed" \in Pcs /\ "matched" \in Pcs
  /\ "retried" \in Pcs
BY DEF Pcs

LEMMA Shape ==
  ASSUME WorkerInv, NEW w \in Workers
  PROVE  inv[w] \in Invocations /\ Consistent(inv[w])
BY DEF WorkerInv, TypeOK

LEMMA Fields ==
  ASSUME WorkerInv, NEW w \in Workers
  PROVE  /\ inv[w] \in Invocations /\ Consistent(inv[w])
         /\ inv[w].sweep \subseteq DOMAIN Flows /\ inv[w].flow \in DOMAIN Chain \cup {NoFlow}
         /\ inv[w].stack \in Seq(Frames) /\ inv[w].segments \in Seq(Frames)
         /\ inv[w].tail \in Seq(Frames) /\ inv[w].step \in Steps \cup {NoStep}
         /\ inv[w].paused \in Seq(Pausing) /\ inv[w].parks \in Seq(Suspensions)
         /\ inv[w].msg \in Envelopes \cup {NoMessage}
         /\ inv[w].pc # "idle" => inv[w].msg \in Envelopes
         /\ inv[w].pc \notin {"run", "mark"} => inv[w].step = NoStep
BY DEF WorkerInv, TypeOK, Consistent, Invocations

(* A stack whose top frame has moved on keeps the frames under it.         *)
LEMMA ReplaceHead ==
  ASSUME NEW S, NEW stack \in Seq(S), stack # <<>>, NEW top \in S, NEW moved,
         moved = [stack EXCEPT ![1] = top]
  PROVE  moved \in Seq(S) /\ moved # <<>> /\ Head(moved) = top /\ Tail(moved) = Tail(stack)
<1>1. Len(stack) \in Nat /\ Len(stack) >= 1 /\ stack \in [1 .. Len(stack) -> S]
  OBVIOUS
<1>2. moved \in [1 .. Len(stack) -> S] /\ moved[1] = top
      /\ \A k \in 1 .. Len(stack) : k # 1 => moved[k] = stack[k]
  BY <1>1
<1>3. moved \in Seq(S) /\ Len(moved) = Len(stack)
  BY <1>1, <1>2
<1>4. moved # <<>> /\ Head(moved) = top
  BY <1>1, <1>2, <1>3
<1>5. Tail(moved) = Tail(stack)
  <2>1. /\ Tail(moved) \in Seq(S) /\ Len(Tail(moved)) = Len(stack) - 1
        /\ Tail(stack) \in Seq(S) /\ Len(Tail(stack)) = Len(stack) - 1
    BY <1>1, <1>3, <1>4
  <2>2. \A k \in 1 .. Len(stack) - 1 : Tail(moved)[k] = moved[k + 1]
                                       /\ Tail(stack)[k] = stack[k + 1]
    BY <1>1, <1>3, <1>4
  <2>3. \A k \in 1 .. Len(stack) - 1 : Tail(moved)[k] = Tail(stack)[k]
    BY <1>1, <1>2, <2>2
  <2>4. QED
    BY <2>1, <2>3
<1>6. QED
  BY <1>3, <1>4, <1>5

LEMMA TopTyped ==
  ASSUME WorkerInv, NEW w \in Workers, inv[w].stack # <<>>
  PROVE  /\ Top(w) \in Frames /\ Pop(w) \in Seq(Frames)
         /\ Top(w).steps \in Seq(Steps) /\ Top(w).owner \in Wrappers \cup {NoStep}
         /\ Top(w).loop \in BOOLEAN /\ Top(w).more \in Seq(Chains)
         /\ Top(w).steps # <<>> =>
              /\ Advance(w) \in Seq(Frames) /\ Advance(w) # <<>> /\ Tail(Advance(w)) = Pop(w)
              /\ Head(Advance(w)).steps = Tail(Top(w).steps)
              /\ Head(Top(w).steps) \in Steps /\ Tail(Top(w).steps) \in Seq(Steps)
<1>1. inv[w].stack \in Seq(Frames)
  BY Fields
<1>2. Top(w) \in Frames /\ Pop(w) \in Seq(Frames) /\ Top(w) = inv[w].stack[1]
  BY <1>1 DEF Top, Pop
<1>3. /\ Top(w).steps \in Seq(Steps) /\ Top(w).owner \in Wrappers \cup {NoStep}
      /\ Top(w).loop \in BOOLEAN /\ Top(w).more \in Seq(Chains)
  BY <1>2 DEF Frames
<1>4. ASSUME Top(w).steps # <<>>
      PROVE  /\ Advance(w) \in Seq(Frames) /\ Advance(w) # <<>> /\ Tail(Advance(w)) = Pop(w)
             /\ Head(Advance(w)).steps = Tail(Top(w).steps)
             /\ Head(Top(w).steps) \in Steps /\ Tail(Top(w).steps) \in Seq(Steps)
  <2>1. Head(Top(w).steps) \in Steps /\ Tail(Top(w).steps) \in Seq(Steps)
    BY <1>3, <1>4
  <2> DEFINE frame == [Top(w) EXCEPT !.steps = Tail(Top(w).steps)]
  <2>2. frame \in Frames /\ frame.steps = Tail(Top(w).steps)
    BY <1>2, <2>1 DEF Frames
  <2>3. Advance(w) = [inv[w].stack EXCEPT ![1] = frame]
    BY <1>2 DEF Advance
  <2> HIDE DEF frame
  <2>4. PICK stack \in Seq(Frames) : stack = inv[w].stack /\ stack # <<>>
    BY <1>1
  <2>5. PICK top \in Frames : top = frame
    BY <2>2
  <2>6. PICK moved : moved = [stack EXCEPT ![1] = top]
    OBVIOUS
  <2>7. moved \in Seq(Frames) /\ moved # <<>> /\ Head(moved) = top
        /\ Tail(moved) = Tail(stack)
    BY <2>4, <2>6, ReplaceHead
  <2>8. Advance(w) = moved /\ Pop(w) = Tail(stack)
    BY <2>3, <2>4, <2>5, <2>6 DEF Pop
  <2>9. QED
    BY <2>1, <2>2, <2>5, <2>7, <2>8
<1>5. QED
  BY <1>2, <1>3, <1>4

(* A step that leaves the records alone.                                   *)
LEMMA RecordsStand ==
  ASSUME WorkerInv, UNCHANGED records
  PROVE  SealedStand /\ Done' = Done
BY DEF WorkerInv, TypeOK, SealedStand, records, Done

LEMMA MailStands ==
  ASSUME WorkerInv, UNCHANGED messages
  PROVE  Mail' /\ (Done' = Done /\ ChainsReady => MailReady')
BY DEF WorkerInv, TypeOK, Mail, messages, MailReady, ChainsReady

LEMMA AroundStands ==
  ASSUME WorkerInv, UNCHANGED environment
  PROVE  Around'
BY DEF WorkerInv, TypeOK, Around, environment

(* An invocation goes on without touching a record or a message.           *)
LEMMA QuietStep ==
  ASSUME WorkerInv, NEW w \in Workers, NEW next, UNCHANGED <<records, messages, environment>>,
         inv' = [inv EXCEPT ![w] = next], next \in Invocations, Consistent(next),
         DistinctIds /\ ChainsReady => InvReady(Done, next),
         inv[w].pc # "run", next.pc # "run"
  PROVE  WorkerInv' /\ UNCHANGED Once!vars
<1>1. SealedStand /\ Done' = Done /\ Mail' /\ Around' /\ (ChainsReady => MailReady')
  BY RecordsStand, MailStands, AroundStands
<1>2. QED
  BY <1>1, AsideStep DEF Turn

-----------------------------------------------------------------------------
(* From the delivery to the first step.                                    *)

LEMMA SweepInv ==
  ASSUME WorkerInv, NEW w \in Workers, Sweep(w)
  PROVE  WorkerInv' /\ UNCHANGED Once!vars
<1>1. UNCHANGED <<records, messages, environment>> /\ inv[w].pc = "sweep"
  BY DEF Sweep
<1>2. ASSUME NEW pc \in {"matched", "park"}, inv' = [inv EXCEPT ![w].pc = pc],
             pc = "park" => inv[w].parks # <<>>
      PROVE  WorkerInv' /\ UNCHANGED Once!vars
  <2> DEFINE next == [inv[w] EXCEPT !.pc = pc]
  <2>1. inv' = [inv EXCEPT ![w] = next]
    BY <1>2
  <2>2. next \in Invocations /\ Consistent(next) /\ next.pc # "run"
    BY <1>1, <1>2, Shape, EveryPc DEF Invocations, Consistent
  <2>3. ChainsReady => InvReady(Done, next)
    BY <1>1, Shape, EveryPc DEF Invocations, ChainsReady, InvReady
  <2>4. QED
    BY <1>1, <2>1, <2>2, <2>3, QuietStep
<1>3. ASSUME NEW i \in DOMAIN Flows, SweepOn(w, i)
      PROVE  WorkerInv' /\ UNCHANGED Once!vars
  <2> DEFINE f == Flows[i]
             frame == Frame(Chain[f], NoStep, FALSE, <<>>)
             stack == <<frame>>
             rest == inv[w].sweep \ {i}
             next == [inv[w] EXCEPT !.pc = "walk", !.sweep = rest, !.flow = f, !.stack = stack]
  <2>1. f \in DOMAIN Chain /\ rest \subseteq DOMAIN Flows
    BY Fields, ChainsAssumption
  <2>2. frame \in Frames /\ frame.steps = Chain[f] /\ Chain[f] \in Chains
    <3> HIDE DEF f, next
    <3>1. Chain[f] \in Chains /\ Chain[f] \in Seq(Steps) /\ <<>> \in Seq(Chains)
      BY <2>1, ChainsTyped
    <3>2. QED
      BY <3>1, FrameTyped
  <2>3. inv' = [inv EXCEPT ![w] = next]
    BY <1>3 DEF SweepOn
  <2> HIDE DEF frame
  <2>4. stack \in Seq(Frames) /\ Head(stack) = frame /\ Tail(stack) = <<>>
    BY <2>2, Singleton
  <2> HIDE DEF f, rest, stack
  <2>5. next \in Invocations
    <3>1. stack \in Seq(Frames)
      BY <2>4
    <3>2. QED
      BY <2>1, <3>1, Shape, EveryPc DEF Invocations
  <2>6. /\ next.pc = "walk" /\ next.msg = inv[w].msg /\ next.step = inv[w].step
        /\ next.stack = stack /\ next.segments = inv[w].segments
        /\ next.tail = inv[w].tail /\ next.parks = inv[w].parks
    BY Shape, EveryPc DEF Invocations
  <2> HIDE DEF next
  <2>7. Consistent(next)
    BY <1>1, <2>6, Fields DEF Consistent
  <2>8. ASSUME DistinctIds, ChainsReady PROVE InvReady(Done, next)
    <3>1. \A done : Ready(done, frame.steps)
      BY <2>2, <2>8, ReadyChain
    <3>2. InvReady(Done, inv[w]) /\ AllReady(Done, <<>>)
      BY <2>8 DEF ChainsReady, AllReady
    <3>3. QED
      BY <2>4, <2>6, <3>1, <3>2 DEF InvReady
  <2>9. QED
    BY <1>1, <2>3, <2>5, <2>6, <2>7, <2>8, QuietStep
<1>4. QED
  BY <1>2, <1>3 DEF Sweep, AfterSweep

LEMMA ResumeWorkflowInv ==
  ASSUME WorkerInv, NEW w \in Workers, ResumeWorkflow(w)
  PROVE  WorkerInv' /\ UNCHANGED Once!vars
<1>1. UNCHANGED <<records, messages, environment>> /\ inv[w].pc = "resume"
  BY DEF ResumeWorkflow
<1>2. PICK pc \in {"drop", "pauses"} :
        inv' = [inv EXCEPT ![w] = [inv[w] EXCEPT !.pc = pc, !.paused = Message(w).paused]]
  BY DEF ResumeWorkflow
<1> DEFINE paused == Message(w).paused
           next == [inv[w] EXCEPT !.pc = pc, !.paused = paused]
<1>3. paused \in Seq(Pausing)
  BY <1>1, <1>2, Fields DEF Message, Envelopes
<1> HIDE DEF paused
<1>4. next \in Invocations
  BY <1>3, Shape, EveryPc DEF Invocations
<1>5. Consistent(next) /\ next.pc # "run"
  BY <1>1, Shape, EveryPc DEF Invocations, Consistent
<1>6. ChainsReady => InvReady(Done, next)
  BY <1>1, Shape, EveryPc DEF Invocations, ChainsReady, InvReady
<1>7. inv' = [inv EXCEPT ![w] = next]
  BY <1>2 DEF paused
<1>8. QED
  BY <1>1, <1>4, <1>5, <1>6, <1>7, QuietStep

LEMMA ReadPausesInv ==
  ASSUME WorkerInv, NEW w \in Workers, ReadPauses(w)
  PROVE  WorkerInv' /\ UNCHANGED Once!vars
<1>1. UNCHANGED <<records, messages, environment>> /\ inv[w].pc = "pauses"
  BY DEF ReadPauses
<1>2. PICK pc \in {"drop", "close"} : inv' = [inv EXCEPT ![w] = [inv[w] EXCEPT !.pc = pc]]
  BY DEF ReadPauses
<1> DEFINE next == [inv[w] EXCEPT !.pc = pc]
<1>3. next \in Invocations /\ Consistent(next) /\ next.pc # "run"
  BY <1>1, Shape, EveryPc DEF Invocations, Consistent
<1>4. ChainsReady => InvReady(Done, next)
  BY <1>1, Shape, EveryPc DEF Invocations, ChainsReady, InvReady
<1>5. QED
  BY <1>1, <1>2, <1>3, <1>4, QuietStep

(* A paused step is no sealed one: whoever closes it, whatever it reads.   *)
LEMMA PausesApart ==
  ASSUME WorkerInv, NEW s \in Pausing \cup Wrappers, NEW outcome \in Status, Mark(s, outcome)
  PROVE  SealedStand /\ Done' = Done
BY Unsealed DEF Mark, WorkerInv, TypeOK, SealedStand, Done

LEMMA DropInv ==
  ASSUME WorkerInv, NEW w \in Workers, Drop(w)
  PROVE  WorkerInv' /\ UNCHANGED Once!vars
<1>1. UNCHANGED <<messages, environment>> /\ inv[w].pc = "drop"
  BY DEF Drop
<1>2. CASE inv[w].paused = <<>>
  <2> DEFINE next == [inv[w] EXCEPT !.pc = "matched"]
  <2>1. UNCHANGED records /\ inv' = [inv EXCEPT ![w] = next]
    BY <1>2 DEF Drop
  <2>2. next \in Invocations /\ Consistent(next) /\ next.pc # "run"
    BY <1>1, Shape, EveryPc DEF Invocations, Consistent
  <2>3. ChainsReady => InvReady(Done, next)
    BY <1>1, Shape, EveryPc DEF Invocations, ChainsReady, InvReady
  <2>4. QED
    BY <1>1, <2>1, <2>2, <2>3, QuietStep
<1>3. CASE inv[w].paused # <<>>
  <2> DEFINE s == Head(inv[w].paused)
             next == [inv[w] EXCEPT !.paused = Tail(@)]
  <2>1. s \in Pausing /\ Tail(inv[w].paused) \in Seq(Pausing)
    BY <1>3, Fields
  <2>2. inv' = [inv EXCEPT ![w] = next] /\ (Mark(s, "cancelled") \/ UNCHANGED records)
    BY <1>3 DEF Drop
  <2>3. SealedStand /\ Done' = Done
    BY <2>1, <2>2, PausesApart, RecordsStand DEF Status
  <2>4. next \in Invocations /\ Consistent(next) /\ next.pc # "run"
    BY <1>1, <2>1, Shape, EveryPc DEF Invocations, Consistent
  <2>5. ChainsReady => InvReady(Done, next)
    BY <1>1, Shape, EveryPc DEF Invocations, ChainsReady, InvReady
  <2>6. QED
    BY <1>1, <2>2, <2>3, <2>4, <2>5, MailStands, AroundStands, AsideStep DEF Turn
<1>4. QED
  BY <1>2, <1>3

LEMMA ClosePausedInv ==
  ASSUME WorkerInv, NEW w \in Workers, ClosePaused(w)
  PROVE  WorkerInv' /\ UNCHANGED Once!vars
<1>1. UNCHANGED <<messages, environment>> /\ inv[w].pc = "close"
  BY DEF ClosePaused
<1>2. CASE inv[w].paused = <<>>
  <2> DEFINE next == [inv[w] EXCEPT !.pc = "walk", !.segments = Message(w).segments]
  <2>1. UNCHANGED records /\ inv' = [inv EXCEPT ![w] = next]
    BY <1>2 DEF ClosePaused
  <2>2. Message(w).segments \in Seq(Frames) /\ Message(w) # NoMessage
    BY <1>1, Fields DEF Message, Envelopes, Consistent
  <2>3. next \in Invocations /\ Consistent(next) /\ next.pc # "run"
    BY <1>1, <2>2, Shape, EveryPc DEF Invocations, Consistent
  <2>4. ChainsReady => InvReady(Done, next)
    BY <1>1, <2>2, Shape, EveryPc DEF Invocations, ChainsReady, InvReady, Message
  <2>5. QED
    BY <1>1, <2>1, <2>3, <2>4, QuietStep
<1>3. CASE inv[w].paused # <<>>
  <2> DEFINE s == Head(inv[w].paused)
             next == [inv[w] EXCEPT !.paused = Tail(@)]
  <2>1. s \in Pausing /\ Tail(inv[w].paused) \in Seq(Pausing)
    BY <1>3, Fields
  <2>2. inv' = [inv EXCEPT ![w] = next] /\ Mark(s, "completed")
    BY <1>3 DEF ClosePaused
  <2>3. SealedStand /\ Done' = Done
    BY <2>1, <2>2, PausesApart DEF Status
  <2>4. next \in Invocations /\ Consistent(next) /\ next.pc # "run"
    BY <1>1, <2>1, Shape, EveryPc DEF Invocations, Consistent
  <2>5. ChainsReady => InvReady(Done, next)
    BY <1>1, Shape, EveryPc DEF Invocations, ChainsReady, InvReady
  <2>6. QED
    BY <1>1, <2>2, <2>3, <2>4, <2>5, MailStands, AroundStands, AsideStep DEF Turn
<1>4. QED
  BY <1>2, <1>3

-----------------------------------------------------------------------------
(* The walk, where it writes nothing.                                      *)

(* The chain in hand is in order, and so is what waits around it.          *)
LEMMA StackReady ==
  ASSUME WorkerInv, DistinctIds, NEW w \in Workers
  PROVE  /\ AllReady(Done, inv[w].segments) /\ AllReady(Done, inv[w].tail)
         /\ inv[w].stack # <<>> => AllReady(Done, Pop(w))
         /\ inv[w].stack # <<>> /\ inv[w].pc \notin {"stop", "raise", "run", "mark"} =>
              Ready(Done, Top(w).steps)
         /\ InvReady(Done, inv[w])
<1>1. InvReady(Done, inv[w])
  BY DEF WorkerInv, ChainsReady
<1>2. ASSUME inv[w].stack # <<>>, inv[w].pc \notin {"stop", "raise", "run", "mark"}
      PROVE  Ready(Done, Top(w).steps)
  <2>1. inv[w].step = NoStep /\ NoStep \notin Sealed
    BY <1>2, Fields, Unsealed
  <2>2. Ready(Done \cup {NoStep}, Top(w).steps)
    BY <1>1, <1>2, <2>1 DEF InvReady, Top
  <2>3. QED
    BY <2>1, <2>2, ReadyUnsealed
<1>3. QED
  BY <1>1, <1>2 DEF InvReady, Pop

(* The step in front may run, and behind it, once it is done or was never  *)
(* sealed, the rest of its chain is in order.                              *)
LEMMA StepReady ==
  ASSUME WorkerInv, DistinctIds, NEW w \in Workers, NEW s \in Steps, AtStep(w, s)
  PROVE  /\ Ahead(s) \cap Sealed \subseteq Done
         /\ Ready(Done \cup {s}, Head(Advance(w)).steps)
         /\ s \in Done \/ s \notin Sealed => Ready(Done, Head(Advance(w)).steps)
<1>1. Ready(Done, Top(w).steps) /\ s = Head(Top(w).steps) /\ Top(w).steps # <<>>
  BY StackReady DEF AtStep
<1>2. Top(w).steps \in Seq(Steps) /\ Head(Advance(w)).steps = Tail(Top(w).steps)
  BY <1>1, TopTyped DEF AtStep
<1>3. Ready(Done \cup {s}, Tail(Top(w).steps))
  BY <1>1, <1>2, ReadyTail
<1>4. CASE s \in Done
  <2>1. Done \cup {s} = Done
    BY <1>4
  <2>2. QED
    BY <1>1, <1>2, <1>3, <2>1, ReadyHead
<1>5. CASE s \notin Done
  BY <1>1, <1>2, <1>3, <1>5, ReadyHead, ReadyUnsealed
<1>6. QED
  BY <1>4, <1>5

LEMMA PassByInv ==
  ASSUME WorkerInv, NEW w \in Workers, NEW s \in Steps, PassBy(w, s)
  PROVE  WorkerInv' /\ UNCHANGED Once!vars
<1>1. UNCHANGED <<records, messages, environment>> /\ inv[w].pc = "walk" /\ AtStep(w, s)
      /\ inv[w].stack # <<>> /\ Top(w).steps # <<>>
  BY DEF PassBy, AtStep
<1>2. Advance(w) \in Seq(Frames) /\ Advance(w) # <<>> /\ Tail(Advance(w)) = Pop(w)
  BY <1>1, TopTyped
<1>3. PICK pc \in {"walk", "stop"} :
        /\ inv' = [inv EXCEPT ![w] = [inv[w] EXCEPT !.stack = Advance(w), !.pc = pc]]
        /\ pc = "walk" => status[s] = "completed"
  BY DEF PassBy, ReadsFinished, Finished, WalkOrStop
<1> DEFINE next == [inv[w] EXCEPT !.stack = Advance(w), !.pc = pc]
<1>4. next \in Invocations
  BY <1>2, Shape, EveryPc DEF Invocations
<1>5. /\ next.pc = pc /\ next.msg = inv[w].msg /\ next.step = inv[w].step
      /\ next.stack = Advance(w) /\ next.segments = inv[w].segments
      /\ next.tail = inv[w].tail /\ next.parks = inv[w].parks
  BY Shape, EveryPc DEF Invocations
<1>6. inv' = [inv EXCEPT ![w] = next]
  BY <1>3
<1> HIDE DEF next
<1>7. Consistent(next) /\ next.pc # "run"
  BY <1>1, <1>5, Fields DEF Consistent
<1>8. ASSUME DistinctIds PROVE InvReady(Done, next)
  <2>1. InvReady(Done, inv[w]) /\ AllReady(Done, Pop(w))
    BY <1>1, <1>8, StackReady
  <2>2. pc = "walk" => s \in Done \/ s \notin Sealed
    BY <1>3 DEF Done
  <2>3. pc = "walk" => Ready(Done, Head(Advance(w)).steps)
    BY <1>1, <1>8, <2>2, StepReady
  <2>4. pc = "walk" => Ready(Done \cup {next.step}, Head(Advance(w)).steps)
    BY <2>3, ReadyMore
  <2>5. QED
    BY <1>2, <1>5, <2>1, <2>4 DEF InvReady
<1>9. QED
  BY <1>1, <1>4, <1>6, <1>7, <1>8, QuietStep

LEMMA BusyInv ==
  ASSUME WorkerInv, NEW w \in Workers, NEW s \in Steps, Busy(w, s)
  PROVE  WorkerInv' /\ UNCHANGED Once!vars
<1> DEFINE next == [inv[w] EXCEPT !.pc = "raise", !.error = "busy"]
<1>1. UNCHANGED <<records, messages, environment>> /\ inv[w].pc = "walk"
      /\ inv' = [inv EXCEPT ![w] = next]
  BY DEF Busy, AtStep
<1>2. next \in Invocations /\ Consistent(next) /\ next.pc # "run"
  BY <1>1, Shape, EveryPc DEF Invocations, Consistent
<1>3. ChainsReady => InvReady(Done, next)
  BY <1>1, Shape, EveryPc DEF Invocations, ChainsReady, InvReady
<1>4. QED
  BY <1>1, <1>2, <1>3, QuietStep

LEMMA NextSegmentInv ==
  ASSUME WorkerInv, NEW w \in Workers, NextSegment(w)
  PROVE  WorkerInv' /\ UNCHANGED Once!vars
<1> DEFINE first == Head(inv[w].segments)
           stack == <<first>>
           rest == Tail(inv[w].segments)
           next == [inv[w] EXCEPT !.stack = stack, !.segments = rest]
<1>1. UNCHANGED <<records, messages, environment>> /\ inv[w].pc = "walk"
      /\ inv[w].segments # <<>> /\ inv' = [inv EXCEPT ![w] = next]
  BY DEF NextSegment
<1>2. first \in Frames /\ rest \in Seq(Frames)
  BY <1>1, Fields, HeadTail
<1>3. stack \in Seq(Frames) /\ Head(stack) = first /\ Tail(stack) = <<>>
  BY <1>2, Singleton
<1>4. DistinctIds => Ready(Done, first.steps) /\ AllReady(Done, rest) /\ AllReady(Done, <<>>)
  BY <1>1, Fields, StackReady, ReadyFrames
<1> HIDE DEF first, stack, rest
<1>5. next \in Invocations
  BY <1>2, <1>3, Shape, EveryPc DEF Invocations
<1>6. /\ next.pc = "walk" /\ next.msg = inv[w].msg /\ next.step = inv[w].step
      /\ next.stack = stack /\ next.segments = rest
      /\ next.tail = inv[w].tail /\ next.parks = inv[w].parks
  BY <1>1, Shape, EveryPc DEF Invocations
<1> HIDE DEF next
<1>7. Consistent(next)
  BY <1>1, <1>6, Fields DEF Consistent
<1>8. ASSUME DistinctIds PROVE InvReady(Done, next)
  <2>1. InvReady(Done, inv[w])
    BY <1>8, StackReady
  <2>2. Ready(Done \cup {next.step}, first.steps)
    BY <1>4, <1>8, ReadyMore
  <2>3. QED
    BY <1>3, <1>4, <1>6, <1>8, <2>1, <2>2 DEF InvReady
<1>9. QED
  BY <1>1, <1>5, <1>6, <1>7, <1>8, QuietStep

LEMMA EndRunInv ==
  ASSUME WorkerInv, NEW w \in Workers, EndRun(w)
  PROVE  WorkerInv' /\ UNCHANGED Once!vars
<1>1. UNCHANGED <<records, messages, environment>> /\ inv[w].pc \in {"stop", "walk"}
      /\ inv[w].stack = <<>>
  BY DEF EndRun
<1>2. PICK pc \in {"sweep", "matched"} :
        inv' = [inv EXCEPT ![w] = [inv[w] EXCEPT !.segments = <<>>, !.pc = pc]]
  BY DEF EndRun
<1> DEFINE nothing == <<>>
           next == [inv[w] EXCEPT !.segments = nothing, !.pc = pc]
<1>3. next \in Invocations
  <2>1. nothing \in Seq(Frames)
    OBVIOUS
  <2> HIDE DEF nothing
  <2>2. QED
    BY <1>2, <2>1, Shape, EveryPc DEF Invocations
<1>4. /\ next.pc = pc /\ next.msg = inv[w].msg /\ next.step = inv[w].step
      /\ next.stack = <<>> /\ next.segments = <<>>
      /\ next.tail = inv[w].tail /\ next.parks = inv[w].parks
  BY <1>1, Shape, EveryPc DEF Invocations
<1>5. inv' = [inv EXCEPT ![w] = next]
  BY <1>2
<1> HIDE DEF next
<1>6. Consistent(next) /\ next.pc # "run"
  BY <1>1, <1>4, Fields DEF Consistent
<1>7. ASSUME DistinctIds PROVE InvReady(Done, next)
  <2>1. InvReady(Done, inv[w]) /\ AllReady(Done, <<>>)
    BY <1>7, StackReady DEF AllReady
  <2>2. QED
    BY <1>4, <2>1 DEF InvReady
<1>8. QED
  BY <1>1, <1>3, <1>5, <1>6, <1>7, QuietStep

LEMMA SuspendInv ==
  ASSUME WorkerInv, NEW w \in Workers, Suspend(w)
  PROVE  WorkerInv' /\ UNCHANGED Once!vars
<1> DEFINE parked == [flow |-> inv[w].flow, paused |-> inv[w].paused,
                      segments |-> inv[w].tail \o inv[w].segments]
           parks == Append(inv[w].parks, parked)
<1>1. UNCHANGED <<records, messages, environment>> /\ inv[w].pc = "suspend"
      /\ inv[w].stack = <<>>
  BY DEF Suspend
<1>2. PICK pc \in {"sweep", "park"} :
        inv' = [inv EXCEPT ![w] = [inv[w] EXCEPT !.pc = pc, !.tail = <<>>, !.segments = <<>>,
                                                 !.paused = <<>>, !.parks = parks]]
  BY DEF Suspend
<1> DEFINE nothing == <<>>
           next == [inv[w] EXCEPT !.pc = pc, !.tail = nothing, !.segments = nothing,
                                  !.paused = nothing, !.parks = parks]
<1>3. inv[w].tail \o inv[w].segments \in Seq(Frames)
  BY Fields
<1>4. parked \in Suspensions /\ parked.segments = inv[w].tail \o inv[w].segments
  BY <1>3, Fields DEF Suspensions
<1> HIDE DEF parked
<1>5. /\ inv[w].parks \in Seq(Suspensions) /\ parks \in Seq(Suspensions) /\ parks # <<>>
      /\ \A k \in DOMAIN parks : \/ k \in DOMAIN inv[w].parks /\ parks[k] = inv[w].parks[k]
                                 \/ parks[k] = parked
  <2>1. inv[w].parks \in Seq(Suspensions)
    BY Fields
  <2>2. QED
    BY <1>4, <2>1
<1> HIDE DEF parks
<1>6. next \in Invocations
  <2>1. nothing \in Seq(Frames) /\ nothing \in Seq(Pausing)
    OBVIOUS
  <2> HIDE DEF nothing
  <2>2. inv[w] \in Invocations /\ parks \in Seq(Suspensions) /\ pc \in {"sweep", "park"}
    BY <1>2, <1>5, Fields
  <2>3. QED
    BY <2>1, <2>2, EveryPc DEF Invocations
<1>7. /\ next.pc = pc /\ next.msg = inv[w].msg /\ next.step = inv[w].step
      /\ next.stack = <<>> /\ next.segments = <<>> /\ next.tail = <<>> /\ next.parks = parks
  BY <1>1, Shape, EveryPc DEF Invocations
<1>8. inv' = [inv EXCEPT ![w] = next]
  BY <1>2
<1> HIDE DEF next
<1>9. Consistent(next) /\ next.pc # "run"
  BY <1>1, <1>5, <1>7, Shape DEF Consistent
<1>10. ASSUME DistinctIds PROVE InvReady(Done, next)
  <2>1. InvReady(Done, inv[w]) /\ AllReady(Done, <<>>)
    BY <1>10, StackReady DEF AllReady
  <2>2. AllReady(Done, parked.segments)
    BY <1>4, <1>10, Fields, StackReady, ReadyFrames
  <2>3. \A k \in DOMAIN parks : AllReady(Done, parks[k].segments)
    BY <1>5, <2>1, <2>2 DEF InvReady
  <2>4. QED
    BY <1>7, <2>1, <2>3 DEF InvReady
<1>11. QED
  BY <1>1, <1>6, <1>8, <1>9, <1>10, QuietStep

-----------------------------------------------------------------------------
(* The messages.                                                           *)

(* An invocation goes on and leaves the records alone, with messages sent  *)
(* or taken.                                                               *)
LEMMA MailStep ==
  ASSUME WorkerInv, NEW w \in Workers, NEW next, UNCHANGED records,
         Mail', Around', DistinctIds => MailReady',
         inv' = [inv EXCEPT ![w] = next], next \in Invocations, Consistent(next),
         DistinctIds => InvReady(Done, next),
         inv[w].pc # "run", next.pc # "run"
  PROVE  WorkerInv' /\ UNCHANGED Once!vars
<1>1. SealedStand /\ Done' = Done
  BY RecordsStand
<1>2. QED
  BY <1>1, AsideStep DEF Turn

LEMMA SendStands ==
  ASSUME WorkerInv, NEW m \in Envelopes, m.receives < MaxReceive, Send(m), dead' \in BOOLEAN,
         UNCHANGED records, DistinctIds => AllReady(Done, m.segments)
  PROVE  Mail' /\ (DistinctIds => MailReady')
<1>1. Done' = Done
  BY RecordsStand
<1>2. IsABag(queue) /\ queue' = queue (+) SetToBag({m})
  BY DEF WorkerInv, TypeOK, Send
<1>3. IsABag(queue') /\ BagToSet(queue') = BagToSet(queue) \cup {m}
  BY <1>2, BagMore
<1>4. Mail'
  BY <1>3 DEF WorkerInv, TypeOK, Mail
<1>5. DistinctIds => MailReady'
  BY <1>1, <1>3 DEF WorkerInv, ChainsReady, MailReady
<1>6. QED
  BY <1>4, <1>5

LEMMA EventTyped ==
  ASSUME NEW attempt \in Nat
  PROVE  /\ EventMessage(attempt) \in Envelopes /\ EventMessage(attempt).receives < MaxReceive
         /\ \A done : AllReady(done, EventMessage(attempt).segments)
<1>1. <<>> \in Seq(Frames) /\ <<>> \in Seq(Pausing) /\ 0 \in 0 .. MaxReceive /\ 0 < MaxReceive
  BY BoundsAssumption
<1>2. EventMessage(attempt) \in Envelopes
  <2> DEFINE nothing == <<>>
  <2>1. nothing \in Seq(Frames) /\ nothing \in Seq(Pausing)
    BY <1>1
  <2>2. EventMessage(attempt) =
          [kind |-> "event", flow |-> NoFlow, segments |-> nothing, paused |-> nothing,
           hops |-> 0, attempt |-> attempt, receives |-> 0]
    BY DEF EventMessage
  <2> HIDE DEF nothing
  <2>3. QED
    BY <1>1, <2>1, <2>2 DEF Envelopes
<1>3. EventMessage(attempt).receives = 0 /\ EventMessage(attempt).segments = <<>>
  BY DEF EventMessage
<1>4. \A done : AllReady(done, <<>>)
  BY DEF AllReady
<1>5. QED
  BY <1>1, <1>2, <1>3, <1>4

LEMMA ContinuationTyped ==
  ASSUME NEW parked \in Suspensions
  PROVE  LET m == Continuation(parked.flow, parked.segments, parked.paused) IN
         m \in Envelopes /\ m.receives < MaxReceive /\ m.segments = parked.segments
<1>1. parked.flow \in DOMAIN Chain \cup {NoFlow} /\ parked.segments \in Seq(Frames)
      /\ parked.paused \in Seq(Pausing)
  BY DEF Suspensions
<1>2. 0 \in 0 .. MaxReceive /\ 0 < MaxReceive /\ Hops \in Nat
  BY BoundsAssumption
<1>3. QED
  BY <1>1, <1>2 DEF Continuation, Envelopes

(* An envelope delivered, and one that goes back for the remainder.        *)
LEMMA EnvelopeCounts ==
  ASSUME NEW m \in Envelopes
  PROVE  /\ \A n \in 0 .. MaxReceive :
              [m EXCEPT !.receives = n] \in Envelopes /\ [m EXCEPT !.receives = n].segments = m.segments
         /\ m.hops > 0 => /\ Rehop(m) \in Envelopes /\ Rehop(m).receives < MaxReceive
                          /\ Rehop(m).segments = m.segments
<1>1. ASSUME NEW n \in 0 .. MaxReceive
      PROVE  [m EXCEPT !.receives = n] \in Envelopes /\ [m EXCEPT !.receives = n].segments = m.segments
  BY DEF Envelopes
<1>2. ASSUME m.hops > 0
      PROVE  Rehop(m) \in Envelopes /\ Rehop(m).receives < MaxReceive /\ Rehop(m).segments = m.segments
  <2> DEFINE hops == m.hops - 1
             zero == 0
  <2>1. hops \in Nat /\ zero \in 0 .. MaxReceive /\ zero < MaxReceive
    BY <1>2, BoundsAssumption DEF Envelopes
  <2>2. Rehop(m) = [m EXCEPT !.hops = hops, !.receives = zero]
    BY DEF Rehop
  <2> HIDE DEF hops, zero
  <2>3. QED
    BY <2>1, <2>2 DEF Envelopes
<1>3. QED
  BY <1>1, <1>2

LEMMA Delivered ==
  ASSUME NEW i \in Invocations, NEW pc \in {"sweep", "resume"}, NEW msg \in Envelopes,
         NEW flow \in DOMAIN Chain \cup {NoFlow}, NEW sweep \in SUBSET (DOMAIN Flows)
  PROVE  [i EXCEPT !.pc = pc, !.msg = msg, !.flow = flow, !.sweep = sweep] \in Invocations
BY EveryPc DEF Invocations

LEMMA ReceiveInv ==
  ASSUME WorkerInv, NEW w \in Workers, NEW m \in BagToSet(queue), Receive(w, m)
  PROVE  WorkerInv' /\ UNCHANGED Once!vars
<1>1. /\ inv[w].pc = "idle" /\ queue' = queue (-) SetToBag({m})
      /\ UNCHANGED <<records, dead, off, cancelling, sends, faults>>
      /\ inbox' \in {"received", inbox}
  BY DEF Receive
<1>2. m \in Envelopes /\ m.receives < MaxReceive /\ IsABag(queue)
  BY DEF WorkerInv, TypeOK
<1> DEFINE sweep == {i \in DOMAIN Flows : m.kind = "event" /\ Flows[i] \notin off}
           receives == m.receives + 1
           msg == [m EXCEPT !.receives = receives]
<1>3. PICK pc \in {"sweep", "resume"} :
        inv' = [inv EXCEPT ![w] = [inv[w] EXCEPT !.pc = pc, !.msg = msg, !.flow = m.flow,
                                                 !.sweep = sweep]]
  BY DEF Receive
<1> DEFINE flow == m.flow
           next == [inv[w] EXCEPT !.pc = pc, !.msg = msg, !.flow = flow, !.sweep = sweep]
<1>4. msg \in Envelopes /\ msg.segments = m.segments /\ flow \in DOMAIN Chain \cup {NoFlow}
  <2>1. receives \in 0 .. MaxReceive /\ flow \in DOMAIN Chain \cup {NoFlow}
    BY <1>2, BoundsAssumption DEF Envelopes
  <2> HIDE DEF receives
  <2>2. QED
    BY <1>2, <2>1, EnvelopeCounts
<1>5. sweep \subseteq DOMAIN Flows
  OBVIOUS
<1>6. inv' = [inv EXCEPT ![w] = next]
  BY <1>3
<1> HIDE DEF msg, sweep, flow
<1>7. next \in Invocations
  BY <1>4, <1>5, Shape, Delivered
<1>8. /\ next.pc = pc /\ next.msg = msg /\ next.step = inv[w].step
      /\ next.stack = inv[w].stack /\ next.segments = inv[w].segments
      /\ next.tail = inv[w].tail /\ next.parks = inv[w].parks
  BY Shape, EveryPc DEF Invocations
<1> HIDE DEF next
<1>9. Consistent(next) /\ next.pc # "run"
  <2>1. msg # NoMessage
    BY <1>4 DEF Envelopes, NoMessage
  <2>2. QED
    BY <1>1, <1>8, <2>1, Shape DEF Consistent
<1>10. DistinctIds => InvReady(Done, next)
  <2> SUFFICES ASSUME DistinctIds PROVE InvReady(Done, next)
    OBVIOUS
  <2>1. InvReady(Done, inv[w])
    BY StackReady
  <2>2. AllReady(Done, m.segments)
    BY DEF WorkerInv, ChainsReady
  <2>3. QED
    BY <1>1, <1>4, <1>8, <2>1, <2>2 DEF InvReady
<1>11. Mail' /\ (DistinctIds => MailReady')
  <2>1. IsABag(queue') /\ BagToSet(queue') \subseteq BagToSet(queue)
    BY <1>1, <1>2, BagLess
  <2>2. Done' = Done
    BY <1>1, RecordsStand
  <2>3. QED
    BY <1>1, <2>1, <2>2 DEF WorkerInv, TypeOK, Mail, MailReady, ChainsReady
<1>12. Around'
  BY <1>1 DEF WorkerInv, TypeOK, Around
<1>13. QED
  BY <1>1, <1>6, <1>7, <1>9, <1>10, <1>11, <1>12, MailStep

LEMMA ResumeEarlyInv ==
  ASSUME WorkerInv, NEW w \in Workers, ResumeEarly(w)
  PROVE  WorkerInv' /\ UNCHANGED Once!vars
<1> DEFINE next == [inv[w] EXCEPT !.pc = "matched"]
<1>1. /\ inv[w].pc = "resume" /\ Message(w).hops > 0 /\ Send(Rehop(Message(w)))
      /\ inv' = [inv EXCEPT ![w] = next] /\ UNCHANGED <<records, dead, environment>>
  BY DEF ResumeEarly
<1>2. Message(w) \in Envelopes /\ Message(w) # NoMessage
  BY <1>1, Fields DEF Message, Consistent
<1>3. Rehop(Message(w)) \in Envelopes /\ Rehop(Message(w)).receives < MaxReceive
      /\ Rehop(Message(w)).segments = Message(w).segments
  BY <1>1, <1>2, EnvelopeCounts
<1>4. DistinctIds => AllReady(Done, Rehop(Message(w)).segments)
  BY <1>2, <1>3, StackReady DEF InvReady, Message
<1>5. dead' \in BOOLEAN /\ Around'
  BY <1>1, AroundStands DEF WorkerInv, TypeOK
<1>6. Mail' /\ (DistinctIds => MailReady')
  BY <1>1, <1>3, <1>4, <1>5, SendStands
<1>7. next \in Invocations /\ Consistent(next) /\ next.pc # "run"
  BY <1>1, Shape, EveryPc DEF Invocations, Consistent
<1>8. DistinctIds => InvReady(Done, next)
  BY <1>1, Shape, EveryPc DEF Invocations, WorkerInv, ChainsReady, InvReady
<1>9. QED
  BY <1>1, <1>5, <1>6, <1>7, <1>8, MailStep

LEMMA ParkFailsInv ==
  ASSUME WorkerInv, NEW w \in Workers, ParkFails(w)
  PROVE  WorkerInv' /\ UNCHANGED Once!vars
<1> DEFINE next == [inv[w] EXCEPT !.pc = "requeue"]
<1>1. /\ inv[w].pc = "park" /\ faults < MaxFaults /\ faults' = faults + 1
      /\ inv' = [inv EXCEPT ![w] = next]
      /\ UNCHANGED <<records, messages, inbox, off, cancelling, sends>>
  BY DEF ParkFails
<1>2. Mail' /\ (DistinctIds => MailReady')
  BY <1>1, MailStands, RecordsStand DEF WorkerInv
<1>3. Around'
  BY <1>1, BoundsAssumption DEF WorkerInv, TypeOK, Around
<1>4. next \in Invocations /\ Consistent(next) /\ next.pc # "run"
  BY <1>1, Shape, EveryPc DEF Invocations, Consistent
<1>5. DistinctIds => InvReady(Done, next)
  BY <1>1, Shape, EveryPc DEF Invocations, WorkerInv, ChainsReady, InvReady
<1>6. QED
  BY <1>1, <1>2, <1>3, <1>4, <1>5, MailStep

LEMMA RaisedInv ==
  ASSUME WorkerInv, NEW w \in Workers, Raised(w)
  PROVE  WorkerInv' /\ UNCHANGED Once!vars
<1>1. /\ inv[w].pc = "raise" /\ inv[w].stack = <<>> /\ UNCHANGED <<records, dead, environment>>
      /\ Send(EventMessage(NextAttempt(Message(w)))) \/ UNCHANGED queue
  BY DEF Raised
<1>2. PICK pc \in {"requeue", "retried", "failed"} : inv' = [inv EXCEPT ![w] = [inv[w] EXCEPT !.pc = pc]]
  BY DEF Raised, Verdict
<1> DEFINE next == [inv[w] EXCEPT !.pc = pc]
<1>3. dead' \in BOOLEAN /\ Around'
  BY <1>1, AroundStands DEF WorkerInv, TypeOK
<1>4. Mail' /\ (DistinctIds => MailReady')
  <2>1. CASE Send(EventMessage(NextAttempt(Message(w))))
    <3>1. NextAttempt(Message(w)) \in Nat
      BY <1>1, Fields DEF Message, Envelopes, NextAttempt
    <3>2. QED
      BY <1>1, <1>3, <2>1, <3>1, EventTyped, SendStands
  <2>2. CASE UNCHANGED queue
    BY <1>1, <2>2, MailStands, RecordsStand DEF WorkerInv, messages
  <2>3. QED
    BY <1>1, <2>1, <2>2
<1>5. next \in Invocations /\ Consistent(next) /\ next.pc # "run"
  BY <1>1, Shape, EveryPc DEF Invocations, Consistent
<1>6. DistinctIds => InvReady(Done, next)
  BY <1>1, Shape, EveryPc DEF Invocations, WorkerInv, ChainsReady, InvReady
<1>7. QED
  BY <1>1, <1>2, <1>3, <1>4, <1>5, <1>6, MailStep

(* What is left to park once one suspension is parked.                     *)
LEMMA ParkedOne ==
  ASSUME NEW parks \in Seq(Suspensions), parks # <<>>
  PROVE  LET i == IF Len(parks) > 1 THEN 2 ELSE 1
             rest == IF Len(parks) > 1 THEN <<parks[1]>> \o SubSeq(parks, 3, Len(parks)) ELSE <<>>
         IN  /\ i \in DOMAIN parks /\ parks[i] \in Suspensions
             /\ rest \in Seq(Suspensions)
             /\ \A k \in DOMAIN rest : \E j \in DOMAIN parks : rest[k] = parks[j]
<1> DEFINE i == IF Len(parks) > 1 THEN 2 ELSE 1
           rest == IF Len(parks) > 1 THEN <<parks[1]>> \o SubSeq(parks, 3, Len(parks)) ELSE <<>>
<1>1. Len(parks) \in Nat \ {0} /\ \A j \in DOMAIN parks : parks[j] \in Suspensions
  OBVIOUS
<1>2. i \in DOMAIN parks /\ parks[i] \in Suspensions
  BY <1>1
<1>3. rest \in Seq(Suspensions) /\ \A k \in DOMAIN rest : \E j \in DOMAIN parks : rest[k] = parks[j]
  <2>1. CASE Len(parks) > 1
    <3> DEFINE first == <<parks[1]>>
               others == SubSeq(parks, 3, Len(parks))
    <3>1. first \in Seq(Suspensions) /\ Len(first) = 1 /\ first[1] = parks[1]
      BY <1>1
    <3>2. others \in Seq(Suspensions)
      BY <1>1
    <3>3. \A k \in DOMAIN others : k + 2 \in DOMAIN parks /\ others[k] = parks[k + 2]
      BY <1>1
    <3>4. rest = first \o others
      BY <2>1
    <3> HIDE DEF first, others, rest
    <3>5. rest \in Seq(Suspensions)
      BY <3>1, <3>2, <3>4
    <3>6. \A k \in DOMAIN (first \o others) :
            \/ k \in DOMAIN first /\ (first \o others)[k] = first[k]
            \/ k - Len(first) \in DOMAIN others /\ (first \o others)[k] = others[k - Len(first)]
      BY <3>1, <3>2, Joined
    <3>7. \A k \in DOMAIN first : first[k] = parks[1]
      BY <3>1
    <3>8. \A k \in DOMAIN rest : \E j \in DOMAIN parks : rest[k] = parks[j]
      BY <1>1, <3>3, <3>4, <3>6, <3>7
    <3>9. QED
      BY <3>5, <3>8
  <2>2. CASE ~(Len(parks) > 1)
    BY <2>2
  <2>3. QED
    BY <2>1, <2>2
<1>4. QED
  BY <1>2, <1>3

LEMMA ParkInv ==
  ASSUME WorkerInv, NEW w \in Workers, Park(w)
  PROVE  WorkerInv' /\ UNCHANGED Once!vars
<1> DEFINE parks == inv[w].parks
           i == IF Len(parks) > 1 THEN 2 ELSE 1
           rest == IF Len(parks) > 1 THEN <<parks[1]>> \o SubSeq(parks, 3, Len(parks)) ELSE <<>>
           m == Continuation(parks[i].flow, parks[i].segments, parks[i].paused)
<1>1. inv[w].pc = "park" /\ Send(m) /\ UNCHANGED <<records, dead, environment>>
  BY DEF Park
<1>2. PICK pc \in {"matched", "park"} :
        /\ inv' = [inv EXCEPT ![w] = [inv[w] EXCEPT !.parks = rest, !.pc = pc]]
        /\ pc = "park" => rest # <<>>
  BY DEF Park
<1>3. parks \in Seq(Suspensions) /\ parks # <<>>
  BY <1>1, Fields DEF Consistent
<1>4. /\ i \in DOMAIN parks /\ parks[i] \in Suspensions /\ rest \in Seq(Suspensions)
      /\ \A k \in DOMAIN rest : \E j \in DOMAIN parks : rest[k] = parks[j]
  BY <1>3, ParkedOne
<1>5. m \in Envelopes /\ m.receives < MaxReceive /\ m.segments = parks[i].segments
  BY <1>4, ContinuationTyped
<1> HIDE DEF m, i
<1> DEFINE next == [inv[w] EXCEPT !.parks = rest, !.pc = pc]
<1>6. inv' = [inv EXCEPT ![w] = next]
  BY <1>2
<1> HIDE DEF rest
<1>7. next \in Invocations
  <2>1. rest \in Seq(Suspensions)
    BY <1>4
  <2>2. QED
    BY <2>1, Shape, EveryPc DEF Invocations
<1>8. /\ next.pc = pc /\ next.msg = inv[w].msg /\ next.step = inv[w].step
      /\ next.stack = inv[w].stack /\ next.segments = inv[w].segments
      /\ next.tail = inv[w].tail /\ next.parks = rest
  BY Shape, EveryPc DEF Invocations
<1> HIDE DEF next
<1>9. Consistent(next) /\ next.pc # "run"
  BY <1>1, <1>2, <1>8, Shape DEF Consistent
<1>10. DistinctIds => InvReady(Done, next) /\ AllReady(Done, m.segments)
  <2> SUFFICES ASSUME DistinctIds PROVE InvReady(Done, next) /\ AllReady(Done, m.segments)
    OBVIOUS
  <2>1. InvReady(Done, inv[w])
    BY StackReady
  <2>2. \A j \in DOMAIN parks : AllReady(Done, parks[j].segments)
    BY <2>1 DEF InvReady
  <2>3. \A k \in DOMAIN rest : AllReady(Done, rest[k].segments)
    BY <1>4, <2>2
  <2>4. QED
    BY <1>1, <1>4, <1>5, <1>8, <2>1, <2>2, <2>3 DEF InvReady
<1>11. dead' \in BOOLEAN /\ Around'
  BY <1>1, AroundStands DEF WorkerInv, TypeOK
<1>12. Mail' /\ (DistinctIds => MailReady')
  BY <1>1, <1>5, <1>10, <1>11, SendStands
<1>13. QED
  BY <1>1, <1>6, <1>7, <1>9, <1>10, <1>11, <1>12, MailStep

-----------------------------------------------------------------------------
(* The walk, where it writes the record of a step that is not sealed.      *)

LEMMA UnsealedWrites ==
  ASSUME WorkerInv, NEW s \in Steps, s \notin Sealed, NEW outcome \in Status,
         Mark(s, outcome) \/ Release(s) \/ UNCHANGED records
  PROVE  SealedStand
<1>1. status \in [Steps -> Status] /\ lease \in [Steps -> Workers \cup {"orphan", "over"}]
  BY DEF WorkerInv, TypeOK
<1>2. CASE Mark(s, outcome)
  BY <1>1, <1>2, Unsealed DEF Mark, SealedStand
<1>3. CASE Release(s)
  <2>1. "failed" \in Status
    BY DEF Status
  <2>2. QED
    BY <1>1, <1>3, <2>1, Unsealed DEF Release, SealedStand
<1>4. CASE UNCHANGED records
  BY <1>4, RecordsStand
<1>5. QED
  BY <1>2, <1>3, <1>4

LEMMA RecordStep ==
  ASSUME WorkerInv, NEW w \in Workers, NEW next, SealedStand, UNCHANGED <<messages, environment>>,
         inv' = [inv EXCEPT ![w] = next], next \in Invocations, Consistent(next),
         DistinctIds => InvReady(Done, next),
         inv[w].pc # "run" \/ inv[w].step \notin Sealed,
         next.pc # "run" \/ next.step \notin Sealed
  PROVE  WorkerInv' /\ UNCHANGED Once!vars
<1>1. Done' = Done
  BY DEF Done, SealedStand
<1>2. Mail' /\ Around' /\ (ChainsReady => MailReady')
  BY <1>1, MailStands, AroundStands
<1>3. QED
  BY <1>1, <1>2, AsideStep DEF Turn

(* A frame in front of a stack in order.                                   *)
LEMMA ReadyPush ==
  ASSUME NEW done, NEW stack \in Seq(Frames)
  PROVE  stack # <<>> /\ Ready(done, Head(stack).steps) /\ AllReady(done, Tail(stack)) =>
           AllReady(done, stack)
<1> SUFFICES ASSUME stack # <<>>, Ready(done, Head(stack).steps), AllReady(done, Tail(stack))
             PROVE  AllReady(done, stack)
  OBVIOUS
<1>1. Head(stack) \in Frames /\ Tail(stack) \in Seq(Frames)
  BY HeadTail
<1>2. <<Head(stack)>> \in Seq(Frames) /\ AllReady(done, <<Head(stack)>>)
  BY <1>1, ReadyFrames, Singleton
<1>3. AllReady(done, <<Head(stack)>> \o Tail(stack))
  BY <1>1, <1>2, ReadyFrames
<1>4. stack = <<Head(stack)>> \o Tail(stack)
  OBVIOUS
<1>5. QED
  BY <1>3, <1>4

(* The chains of an invocation are in order where none of them is about to *)
(* be left and no sealed step is in hand.                                  *)
LEMMA WholeStack ==
  ASSUME WorkerInv, DistinctIds, NEW w \in Workers, inv[w].pc \notin {"stop", "raise"},
         inv[w].step \notin Sealed
  PROVE  AllReady(Done, inv[w].stack)
<1>1. inv[w].stack \in Seq(Frames) /\ AllReady(Done, <<>>)
  BY Fields DEF AllReady
<1>2. CASE inv[w].stack # <<>>
  <2>1. Ready(Done \cup {inv[w].step}, Head(inv[w].stack).steps)
        /\ AllReady(Done, Tail(inv[w].stack))
    BY <1>2, StackReady DEF InvReady
  <2>2. Ready(Done, Head(inv[w].stack).steps)
    BY <2>1, ReadyUnsealed
  <2>3. QED
    BY <1>1, <1>2, <2>1, <2>2, ReadyPush
<1>3. QED
  BY <1>1, <1>2

(* A stack in order, in the hands of a next invocation.                    *)
LEMMA StackInHand ==
  ASSUME WorkerInv, DistinctIds, NEW w \in Workers, NEW next, NEW stack \in Seq(Frames),
         AllReady(Done, stack), next.pc # "run", next.stack = stack, next.msg = inv[w].msg,
         next.segments = inv[w].segments, next.tail = inv[w].tail, next.parks = inv[w].parks
  PROVE  InvReady(Done, next)
<1>1. InvReady(Done, inv[w])
  BY StackReady
<1>2. stack # <<>> => Ready(Done, Head(stack).steps) /\ AllReady(Done, Tail(stack))
  BY ReadyFrames
<1>3. stack # <<>> => Ready(Done \cup {next.step}, Head(stack).steps)
  BY <1>2, ReadyMore
<1>4. QED
  BY <1>1, <1>2, <1>3 DEF InvReady

LEMMA HandledInv ==
  ASSUME WorkerInv, NEW w \in Workers, Handled(w)
  PROVE  WorkerInv' /\ UNCHANGED Once!vars
<1> DEFINE s == inv[w].step
           frame == Frame(Recovery[s], NoStep, FALSE, <<>>)
           stack == IF Policy[s] = "recover" THEN <<frame>> \o inv[w].stack ELSE inv[w].stack
           next == [inv[w] EXCEPT !.pc = "walk", !.step = NoStep, !.stack = stack]
<1>1. inv[w].pc = "mark" /\ UNCHANGED <<messages, environment>> /\ inv' = [inv EXCEPT ![w] = next]
      /\ (Mark(s, "skipped") \/ Mark(s, "failed"))
  BY DEF Handled
<1>2. s \in Steps /\ s \notin Sealed /\ inv[w].stack \in Seq(Frames)
  BY <1>1, Fields, Unsealed DEF Consistent
<1>3. SealedStand
  BY <1>1, <1>2, UnsealedWrites DEF Status
<1>4. frame \in Frames /\ frame.steps = Recovery[s] /\ Recovery[s] \in Chains
  <2> HIDE DEF s, next, stack
  <2>1. Recovery[s] \in Chains /\ Recovery[s] \in Seq(Steps) /\ <<>> \in Seq(Chains)
    BY <1>2, ChainsTyped
  <2>2. QED
    BY <2>1, FrameTyped
<1>5. DistinctIds => AllReady(Done, <<frame>>) /\ AllReady(Done, inv[w].stack)
  BY <1>1, <1>2, <1>4, WholeStack, ReadyChain, ReadyFrames
<1> HIDE DEF frame
<1>6. stack \in Seq(Frames) /\ (DistinctIds => AllReady(Done, stack))
  <2>1. <<frame>> \in Seq(Frames) /\ <<frame>> \o inv[w].stack \in Seq(Frames)
    BY <1>2, <1>4, OneMore, Singleton
  <2>2. DistinctIds => AllReady(Done, <<frame>> \o inv[w].stack)
    BY <1>2, <1>5, <2>1, ReadyFrames
  <2>3. QED
    BY <1>2, <1>5, <2>1, <2>2
<1> HIDE DEF stack, s
<1>7. next \in Invocations
  <2>1. stack \in Seq(Frames)
    BY <1>6
  <2>2. QED
    BY <2>1, Shape, EveryPc DEF Invocations
<1>8. /\ next.pc = "walk" /\ next.msg = inv[w].msg /\ next.step = NoStep
      /\ next.stack = stack /\ next.segments = inv[w].segments
      /\ next.tail = inv[w].tail /\ next.parks = inv[w].parks
  BY Shape, EveryPc DEF Invocations
<1> HIDE DEF next
<1>9. Consistent(next)
  BY <1>1, <1>8, Shape DEF Consistent
<1>10. DistinctIds => InvReady(Done, next)
  BY <1>6, <1>8, StackInHand
<1>11. QED
  BY <1>1, <1>3, <1>7, <1>8, <1>9, <1>10, RecordStep

LEMMA GivenUp ==
  ASSUME NEW i \in Invocations, NEW pc \in {"raise", "mark"}, NEW step \in Steps \cup {NoStep},
         NEW error \in {"none", "busy", "action", "logic"}, NEW stack \in Seq(Frames)
  PROVE  [i EXCEPT !.pc = pc, !.step = step, !.error = error, !.stack = stack] \in Invocations
BY EveryPc DEF Invocations

(* A step that is not sealed fails: it is handed to its policy, or raised. *)
LEMMA FailInv ==
  ASSUME WorkerInv, NEW w \in Workers, NEW s \in Steps, s \notin Sealed, NEW stack \in Seq(Frames),
         NEW error \in {"none", "busy", "action", "logic"}, Fail(w, s, stack, error),
         UNCHANGED <<messages, environment>>, DistinctIds => AllReady(Done, stack),
         inv[w].pc # "idle", inv[w].pc # "run" \/ inv[w].step \notin Sealed
  PROVE  WorkerInv' /\ UNCHANGED Once!vars
<1>1. PICK pc \in {"raise", "mark"}, step \in {NoStep, s}, e \in {"none", error} :
        /\ inv' = [inv EXCEPT ![w] = [inv[w] EXCEPT !.pc = pc, !.step = step, !.error = e,
                                                    !.stack = stack]]
        /\ pc = "raise" => step = NoStep
        /\ pc = "mark" => step = s /\ Policy[s] # "halt"
  <2>1. CASE Policy[s] = "halt"
    BY <2>1 DEF Fail
  <2>2. CASE Policy[s] # "halt"
    BY <2>2 DEF Fail
  <2>3. QED
    BY <2>1, <2>2
<1> DEFINE next == [inv[w] EXCEPT !.pc = pc, !.step = step, !.error = e, !.stack = stack]
<1>2. SealedStand
  <2>1. "failed" \in Status /\ Release(s)
    BY DEF Status, Fail
  <2>2. QED
    BY <2>1, UnsealedWrites
<1>3. next \in Invocations
  <2>1. step \in Steps \cup {NoStep} /\ e \in {"none", "busy", "action", "logic"}
    OBVIOUS
  <2>2. QED
    BY <2>1, Shape, GivenUp
<1>4. /\ next.pc = pc /\ next.msg = inv[w].msg /\ next.step = step
      /\ next.stack = stack /\ next.segments = inv[w].segments
      /\ next.tail = inv[w].tail /\ next.parks = inv[w].parks
  BY Shape, EveryPc DEF Invocations
<1>5. inv' = [inv EXCEPT ![w] = next]
  BY <1>1
<1> HIDE DEF next
<1>6. Consistent(next)
  <2>1. s # NoStep
    BY Unsealed
  <2>2. QED
    BY <1>1, <1>4, <2>1, Shape DEF Consistent
<1>7. DistinctIds => InvReady(Done, next)
  BY <1>4, StackInHand
<1>8. QED
  BY <1>2, <1>3, <1>4, <1>5, <1>6, <1>7, RecordStep

LEMMA PropagateInv ==
  ASSUME WorkerInv, NEW w \in Workers, Propagate(w)
  PROVE  WorkerInv' /\ UNCHANGED Once!vars
<1>1. inv[w].pc = "raise" /\ inv[w].stack # <<>> /\ UNCHANGED <<messages, environment>>
  BY DEF Propagate
<1>2. Pop(w) \in Seq(Frames) /\ Top(w).owner \in Wrappers \cup {NoStep}
  BY <1>1, TopTyped
<1>3. DistinctIds => AllReady(Done, Pop(w))
  BY <1>1, StackReady
<1>4. CASE Top(w).owner = NoStep
  <2> DEFINE next == [inv[w] EXCEPT !.stack = Pop(w)]
  <2>1. UNCHANGED records /\ inv' = [inv EXCEPT ![w] = next]
    BY <1>4 DEF Propagate
  <2>2. next \in Invocations
    BY <1>2, Shape, EveryPc DEF Invocations
  <2>3. /\ next.pc = inv[w].pc /\ next.msg = inv[w].msg /\ next.step = inv[w].step
        /\ next.stack = Pop(w) /\ next.segments = inv[w].segments
        /\ next.tail = inv[w].tail /\ next.parks = inv[w].parks
    BY Shape, EveryPc DEF Invocations
  <2> HIDE DEF next
  <2>4. Consistent(next)
    BY <1>1, <2>3, Shape DEF Consistent
  <2>5. DistinctIds => InvReady(Done, next)
    BY <1>1, <1>2, <1>3, <2>3, StackInHand
  <2>6. QED
    BY <1>1, <2>1, <2>2, <2>3, <2>4, <2>5, QuietStep
<1>5. CASE Top(w).owner # NoStep
  <2>1. Top(w).owner \in Steps /\ Top(w).owner \notin Sealed
    BY <1>2, <1>5, Unsealed
  <2>2. Fail(w, Top(w).owner, Pop(w), inv[w].error)
    BY <1>5 DEF Propagate
  <2>3. inv[w].error \in {"none", "busy", "action", "logic"}
    BY Shape, EveryPc DEF Invocations
  <2>4. QED
    BY <1>1, <1>2, <1>3, <2>1, <2>2, <2>3, FailInv
<1>6. QED
  BY <1>4, <1>5

LEMMA Moved ==
  ASSUME NEW i \in Invocations, NEW stack \in Seq(Frames), NEW pc \in {"walk", "stop"}
  PROVE  [i EXCEPT !.pc = pc, !.stack = stack] \in Invocations
BY EveryPc DEF Invocations

LEMMA EndChainInv ==
  ASSUME WorkerInv, NEW w \in Workers, EndChain(w)
  PROVE  WorkerInv' /\ UNCHANGED Once!vars
<1>1. inv[w].stack # <<>> /\ inv[w].pc \in {"walk", "stop"} /\ UNCHANGED <<messages, environment>>
  BY DEF EndChain
<1>2. /\ Pop(w) \in Seq(Frames) /\ Top(w).owner \in Wrappers \cup {NoStep}
      /\ Top(w).more \in Seq(Chains)
  BY <1>1, TopTyped
<1>3. DistinctIds => AllReady(Done, Pop(w))
  BY <1>1, StackReady
<1>4. ASSUME NEW pc \in {"walk", "stop"}, NEW stack \in Seq(Frames),
             DistinctIds => AllReady(Done, stack), SealedStand,
             inv' = [inv EXCEPT ![w] = [inv[w] EXCEPT !.pc = pc, !.stack = stack]]
      PROVE  WorkerInv' /\ UNCHANGED Once!vars
  <2> DEFINE next == [inv[w] EXCEPT !.pc = pc, !.stack = stack]
  <2>1. next \in Invocations
    BY Shape, Moved
  <2>2. /\ next.pc = pc /\ next.msg = inv[w].msg /\ next.step = inv[w].step
        /\ next.stack = stack /\ next.segments = inv[w].segments
        /\ next.tail = inv[w].tail /\ next.parks = inv[w].parks
    BY Shape, EveryPc DEF Invocations
  <2>3. inv' = [inv EXCEPT ![w] = next]
    BY <1>4
  <2> HIDE DEF next
  <2>4. Consistent(next)
    BY <1>1, <2>2, Shape DEF Consistent
  <2>5. DistinctIds => InvReady(Done, next)
    BY <1>4, <2>2, StackInHand
  <2>6. QED
    BY <1>1, <1>4, <2>1, <2>2, <2>3, <2>4, <2>5, RecordStep
<1>5. CASE Top(w).more # <<>>
  <2> DEFINE body == Head(Top(w).more)
             others == Tail(Top(w).more)
             frame == Frame(body, Top(w).owner, TRUE, others)
             stack == <<frame>> \o Pop(w)
  <2>1. SealedStand /\ inv' = [inv EXCEPT ![w] = [inv[w] EXCEPT !.pc = "walk", !.stack = stack]]
    BY <1>5, RecordsStand DEF EndChain
  <2>2. body \in Chains /\ body \in Seq(Steps) /\ others \in Seq(Chains)
    BY <1>2, <1>5, HeadTail, ChainsTyped
  <2>3. frame \in Frames /\ frame.steps = body
    <3> HIDE DEF body, others
    <3>1. QED
      BY <1>2, <2>2, FrameTyped
  <2> HIDE DEF frame, body
  <2>4. <<frame>> \in Seq(Frames) /\ stack \in Seq(Frames)
    BY <1>2, <2>3, OneMore, Singleton
  <2>5. DistinctIds => AllReady(Done, stack)
    BY <1>2, <1>3, <2>2, <2>3, <2>4, ReadyChain, ReadyFrames
  <2> HIDE DEF stack
  <2>6. QED
    BY <1>4, <2>1, <2>4, <2>5
<1>6. CASE Top(w).more = <<>>
  <2>1. PICK pc \in {"walk", "stop"} :
          inv' = [inv EXCEPT ![w] = [inv[w] EXCEPT !.pc = pc, !.stack = Pop(w)]]
    BY <1>1, <1>6 DEF EndChain
  <2>2. SealedStand
    <3>1. CASE Top(w).owner = NoStep
      BY <1>6, <3>1, RecordsStand DEF EndChain
    <3>2. CASE Top(w).owner # NoStep
      <4>1. Top(w).owner \in Steps /\ Top(w).owner \notin Sealed /\ "completed" \in Status
        BY <1>2, <3>2, Unsealed DEF Status
      <4>2. Mark(Top(w).owner, "completed")
        BY <1>6, <3>2 DEF EndChain
      <4>3. QED
        BY <4>1, <4>2, UnsealedWrites
    <3>3. QED
      BY <3>1, <3>2
  <2>3. QED
    BY <1>2, <1>3, <1>4, <2>1, <2>2
<1>7. QED
  BY <1>5, <1>6

(* What a suspension leaves of a chain.                                    *)
LEMMA RemainderTyped ==
  ASSUME NEW frame \in Frames
  PROVE  /\ Remainder(frame) \in Seq(Frames)
         /\ \A done : Ready(done, frame.steps) => AllReady(done, Remainder(frame))
<1> DEFINE ahead == Frame(frame.steps, NoStep, FALSE, <<>>)
           behind == Frame(<<>>, NoStep, TRUE, frame.more)
           first == IF frame.steps = <<>> THEN <<>> ELSE <<ahead>>
           last == IF frame.loop THEN <<behind>> ELSE <<>>
<1>1. frame.steps \in Seq(Steps) /\ frame.more \in Seq(Chains)
  BY DEF Frames
<1>2. ahead \in Frames /\ ahead.steps = frame.steps
  <2>1. <<>> \in Seq(Chains)
    OBVIOUS
  <2>2. QED
    BY <1>1, <2>1, FrameTyped
<1>3. behind \in Frames /\ behind.steps = <<>>
  <2>1. <<>> \in Seq(Steps)
    OBVIOUS
  <2>2. QED
    BY <1>1, <2>1, FrameTyped
<1>4. Remainder(frame) = first \o last
  BY DEF Remainder
<1> HIDE DEF ahead, behind
<1>5. first \in Seq(Frames) /\ last \in Seq(Frames)
  BY <1>2, <1>3, Singleton
<1>6. \A done : AllReady(done, last)
  <2>1. \A done : Ready(done, behind.steps) /\ AllReady(done, <<>>)
    BY <1>3 DEF Ready, AllReady
  <2>2. \A done : AllReady(done, <<behind>>)
    BY <1>3, <1>5, <2>1, ReadyFrames
  <2>3. QED
    BY <2>1, <2>2
<1>7. \A done : Ready(done, frame.steps) => AllReady(done, first)
  <2>1. \A done : AllReady(done, <<>>)
    BY DEF AllReady
  <2>2. \A done : Ready(done, frame.steps) => AllReady(done, <<ahead>>)
    BY <1>2, <1>5, ReadyFrames
  <2>3. QED
    BY <2>1, <2>2
<1> HIDE DEF first, last
<1>8. \A done : Ready(done, frame.steps) => AllReady(done, first \o last)
  BY <1>5, <1>6, <1>7, ReadyFrames
<1>9. QED
  BY <1>4, <1>5, <1>8

LEMMA Unwound ==
  ASSUME NEW i \in Invocations, NEW stack \in Seq(Frames), NEW tail \in Seq(Frames),
         NEW paused \in Seq(Pausing)
  PROVE  [i EXCEPT !.stack = stack, !.tail = tail, !.paused = paused] \in Invocations
BY EveryPc DEF Invocations

LEMMA UnwindInv ==
  ASSUME WorkerInv, NEW w \in Workers, Unwind(w)
  PROVE  WorkerInv' /\ UNCHANGED Once!vars
<1> DEFINE owner == Top(w).owner
           tail == inv[w].tail \o Remainder(Top(w))
           paused == IF owner = NoStep THEN inv[w].paused ELSE Append(inv[w].paused, owner)
           next == [inv[w] EXCEPT !.stack = Pop(w), !.tail = tail, !.paused = paused]
<1>1. /\ inv[w].pc = "suspend" /\ inv[w].stack # <<>> /\ UNCHANGED <<messages, environment>>
      /\ inv' = [inv EXCEPT ![w] = next]
      /\ IF owner = NoStep THEN UNCHANGED records ELSE Mark(owner, "delayed")
  BY DEF Unwind
<1>2. Pop(w) \in Seq(Frames) /\ owner \in Wrappers \cup {NoStep} /\ Top(w) \in Frames
  BY <1>1, TopTyped
<1>3. Remainder(Top(w)) \in Seq(Frames)
      /\ (DistinctIds => AllReady(Done, Pop(w)) /\ AllReady(Done, Remainder(Top(w))))
  BY <1>1, <1>2, StackReady, RemainderTyped
<1>4. tail \in Seq(Frames) /\ (DistinctIds => AllReady(Done, tail))
  <2>1. inv[w].tail \in Seq(Frames)
    BY Fields
  <2>2. tail \in Seq(Frames)
    BY <1>3, <2>1
  <2>3. DistinctIds => AllReady(Done, tail)
    BY <1>3, <2>1, StackReady, ReadyFrames
  <2>4. QED
    BY <2>2, <2>3
<1>5. paused \in Seq(Pausing)
  <2>1. inv[w].paused \in Seq(Pausing) /\ (owner # NoStep => owner \in Pausing)
    BY <1>2, Fields DEF Pausing
  <2>2. QED
    BY <2>1
<1>6. SealedStand
  <2>1. CASE owner = NoStep
    BY <1>1, <2>1, RecordsStand
  <2>2. CASE owner # NoStep
    BY <1>1, <1>2, <2>2, Unsealed, UnsealedWrites DEF Status
  <2>3. QED
    BY <2>1, <2>2
<1> HIDE DEF tail, paused, owner
<1>7. next \in Invocations
  BY <1>2, <1>4, <1>5, Shape, Unwound
<1>8. /\ next.pc = "suspend" /\ next.msg = inv[w].msg /\ next.step = inv[w].step
      /\ next.stack = Pop(w) /\ next.segments = inv[w].segments
      /\ next.tail = tail /\ next.parks = inv[w].parks
  BY <1>1, Shape, EveryPc DEF Invocations
<1> HIDE DEF next
<1>9. Consistent(next)
  BY <1>1, <1>8, Shape DEF Consistent
<1>10. ASSUME DistinctIds PROVE InvReady(Done, next)
  <2>1. InvReady(Done, inv[w])
    BY <1>10, StackReady
  <2>2. Pop(w) # <<>> => Ready(Done, Head(Pop(w)).steps) /\ AllReady(Done, Tail(Pop(w)))
    BY <1>2, <1>3, <1>10, ReadyFrames
  <2>3. Pop(w) # <<>> => Ready(Done \cup {next.step}, Head(Pop(w)).steps)
    BY <2>2, ReadyMore
  <2>4. QED
    BY <1>4, <1>8, <1>10, <2>1, <2>2, <2>3 DEF InvReady
<1>11. QED
  BY <1>1, <1>6, <1>7, <1>8, <1>9, <1>10, RecordStep

-----------------------------------------------------------------------------
(* The gate, and the step behind it.                                       *)

LEMMA Started ==
  ASSUME NEW i \in Invocations, NEW stack \in Seq(Frames), NEW s \in Steps
  PROVE  [i EXCEPT !.pc = "run", !.step = s, !.stack = stack] \in Invocations
BY EveryPc DEF Invocations

(* A branch or a loop enters its body.                                     *)
LEMMA EnterInv ==
  ASSUME WorkerInv, NEW w \in Workers, NEW s \in Wrappers, Take(w, s)
  PROVE  WorkerInv' /\ UNCHANGED Once!vars
<1> DEFINE body == Head(Bodies[s])
           others == Tail(Bodies[s])
           frame == Frame(body, s, Kind[s] = "loop", others)
           stack == <<frame>> \o Advance(w)
           next == [inv[w] EXCEPT !.stack = stack]
<1>1. s \in Steps /\ s \notin Sealed
  BY Unsealed
<1>2. /\ AtStep(w, s) /\ inv[w].pc = "walk" /\ inv[w].stack # <<>> /\ Top(w).steps # <<>>
      /\ UNCHANGED <<messages, environment>> /\ inv' = [inv EXCEPT ![w] = next]
  BY DEF Take, AtStep, Wrappers
<1>3. SealedStand
  BY <1>1, Unsealed DEF Take, WorkerInv, TypeOK, SealedStand, Status
<1>4. Advance(w) \in Seq(Frames) /\ Advance(w) # <<>> /\ Tail(Advance(w)) = Pop(w)
  BY <1>2, TopTyped
<1>5. DistinctIds => AllReady(Done, Advance(w))
  BY <1>1, <1>2, <1>4, StackReady, StepReady, ReadyPush
<1>6. body \in Chains /\ body \in Seq(Steps) /\ others \in Seq(Chains)
  BY ChainsTyped
<1>7. frame \in Frames /\ frame.steps = body
  <2> HIDE DEF body, others
  <2>1. (Kind[s] = "loop") \in BOOLEAN
    OBVIOUS
  <2>2. QED
    BY <1>6, <2>1, FrameTyped
<1> HIDE DEF frame, body
<1>8. <<frame>> \in Seq(Frames) /\ stack \in Seq(Frames)
  BY <1>4, <1>7, OneMore, Singleton
<1>9. DistinctIds => AllReady(Done, stack)
  BY <1>4, <1>5, <1>6, <1>7, <1>8, ReadyChain, ReadyFrames
<1> HIDE DEF stack
<1>10. next \in Invocations
  BY <1>8, Shape, EveryPc DEF Invocations
<1>11. /\ next.pc = "walk" /\ next.msg = inv[w].msg /\ next.step = inv[w].step
       /\ next.stack = stack /\ next.segments = inv[w].segments
       /\ next.tail = inv[w].tail /\ next.parks = inv[w].parks
  BY <1>2, Shape, EveryPc DEF Invocations
<1> HIDE DEF next
<1>12. Consistent(next)
  BY <1>2, <1>11, Shape DEF Consistent
<1>13. DistinctIds => InvReady(Done, next)
  BY <1>8, <1>9, <1>11, StackInHand
<1>14. QED
  BY <1>2, <1>3, <1>10, <1>11, <1>12, <1>13, RecordStep

(* Any other step is in the hands of the invocation now.                   *)
LEMMA TakeShape ==
  ASSUME WorkerInv, NEW w \in Workers, NEW s \in Steps \ Wrappers, Take(w, s)
  PROVE  /\ inv[w].pc = "walk" /\ inv[w].step = NoStep
         /\ inv' \in [Workers -> Invocations] /\ \A v \in Workers : Consistent(inv'[v])
         /\ \A v \in Workers : v # w => inv'[v] = inv[v]
         /\ inv'[w].pc = "run" /\ inv'[w].step = s
         /\ DistinctIds => InvReady(Done, inv'[w])
<1> DEFINE next == [inv[w] EXCEPT !.pc = "run", !.step = s, !.stack = Advance(w)]
<1>1. /\ AtStep(w, s) /\ inv[w].pc = "walk" /\ inv[w].stack # <<>> /\ Top(w).steps # <<>>
      /\ inv' = [inv EXCEPT ![w] = next]
  BY DEF Take, AtStep, Wrappers
<1>2. Advance(w) \in Seq(Frames) /\ Advance(w) # <<>> /\ Tail(Advance(w)) = Pop(w)
  BY <1>1, TopTyped
<1>3. next \in Invocations
  BY <1>2, Shape, Started
<1>4. /\ next.pc = "run" /\ next.msg = inv[w].msg /\ next.step = s
      /\ next.stack = Advance(w) /\ next.segments = inv[w].segments
      /\ next.tail = inv[w].tail /\ next.parks = inv[w].parks
  BY Shape, EveryPc DEF Invocations
<1> HIDE DEF next
<1>5. Consistent(next)
  <2>1. s # NoStep
    BY Unsealed
  <2>2. QED
    BY <1>1, <1>4, <2>1, Shape DEF Consistent
<1>6. ASSUME DistinctIds PROVE InvReady(Done, next)
  <2>1. InvReady(Done, inv[w]) /\ AllReady(Done, Pop(w))
    BY <1>1, <1>6, StackReady
  <2>2. Ahead(s) \cap Sealed \subseteq Done /\ Ready(Done \cup {s}, Head(Advance(w)).steps)
    BY <1>1, <1>6, StepReady
  <2>3. QED
    BY <1>2, <1>4, <2>1, <2>2 DEF InvReady
<1>7. inv \in [Workers -> Invocations] /\ \A v \in Workers : Consistent(inv[v])
  BY DEF WorkerInv, TypeOK
<1>8. inv'[w] = next /\ \A v \in Workers : v # w => inv'[v] = inv[v]
  BY <1>1, <1>7
<1>9. inv' \in [Workers -> Invocations]
  BY <1>1, <1>3, <1>7
<1>10. inv[w].step = NoStep
  BY <1>1, Fields
<1>11. QED
  BY <1>1, <1>4, <1>5, <1>6, <1>7, <1>8, <1>9, <1>10

(* Nobody runs a sealed step that the gate lets through: a runner would    *)
(* hold its lease.                                                         *)
LEMMA FreeUnrun ==
  ASSUME WorkerInv, NEW s \in Sealed, Free(s)
  PROVE  s \notin Done /\ status[s] \notin Finished /\ \A v \in Workers : ~Runs(v, s)
BY BoundsAssumption DEF WorkerInv, RunnersHold, Free, Finished, Done

(* The sealed steps that are run, as StepOnce sees them.                   *)
LEMMA OnceBegins ==
  ASSUME WorkerInv, NEW w \in Workers, NEW s \in Sealed, Take(w, s)
  PROVE  WorkerInv' /\ Once!Begin(w, s)
<1>1. s \in Steps /\ s \in Steps \ Wrappers /\ Free(s)
  BY Unsealed DEF Take
<1>2. /\ status' = [status EXCEPT ![s] = "processing"] /\ lease' = [lease EXCEPT ![s] = w]
      /\ UNCHANGED <<messages, environment>>
  BY DEF Take
<1>3. /\ inv[w].pc = "walk" /\ inv' \in [Workers -> Invocations]
      /\ \A v \in Workers : Consistent(inv'[v])
      /\ \A v \in Workers : v # w => inv'[v] = inv[v]
      /\ inv'[w].pc = "run" /\ inv'[w].step = s
      /\ DistinctIds => InvReady(Done, inv'[w])
  BY <1>1, TakeShape
<1>4. s \notin Done /\ status[s] \notin Finished /\ \A v \in Workers : ~Runs(v, s)
  BY <1>1, FreeUnrun
<1>5. status \in [Steps -> Status] /\ lease \in [Steps -> Workers \cup {"orphan", "over"}]
  BY DEF WorkerInv, TypeOK
<1>6. /\ status' \in [Steps -> Status] /\ lease' \in [Steps -> Workers \cup {"orphan", "over"}]
      /\ status'[s] = "processing" /\ lease'[s] = w
      /\ \A t \in Sealed : t # s => status'[t] = status[t] /\ lease'[t] = lease[t]
  BY <1>1, <1>2, <1>5, Unsealed DEF Status
<1>7. \A v \in Workers, t \in Sealed :
        Runs(v, t)' <=> Runs(v, t) \/ (v = w /\ t = s)
  BY <1>3 DEF Runs
<1>8. TypeOK'
  <2>1. Mail' /\ Around'
    BY <1>2, MailStands, AroundStands
  <2>2. QED
    BY <1>3, <1>6, <2>1 DEF TypeOK, Mail, Around
<1>9. RunnersHold'
  BY <1>4, <1>6, <1>7 DEF WorkerInv, RunnersHold
<1>10. Done' = Done
  BY <1>4, <1>6 DEF Done
<1>11. DistinctIds => ChainsReady'
  <2>1. ChainsReady => MailReady'
    BY <1>2, <1>10, MailStands
  <2>2. QED
    BY <1>3, <1>10, <2>1 DEF WorkerInv, ChainsReady, MailReady
<1>12. Once!Begin(w, s)
  <2>1. {v \in Workers : Runs(v, s)} = {} /\ s \notin {t \in Sealed : status[t] \in Finished}
    BY <1>4
  <2>2. [t \in Sealed |-> {v \in Workers : Runs(v, t)}]' =
          [[t \in Sealed |-> {v \in Workers : Runs(v, t)}] EXCEPT ![s] = {w}]
    BY <1>4, <1>7
  <2>3. UNCHANGED {t \in Sealed : status[t] \in Finished}
    BY <1>4, <1>6 DEF Finished
  <2>4. QED
    BY <2>1, <2>2, <2>3 DEF Once!Begin
<1>13. QED
  BY <1>8, <1>9, <1>11, <1>12 DEF WorkerInv

LEMMA TakeInv ==
  ASSUME WorkerInv, NEW w \in Workers, NEW s \in Steps, Take(w, s)
  PROVE  WorkerInv' /\ [Once!Next]_(Once!vars)
<1>1. CASE s \in Wrappers
  BY <1>1, EnterInv
<1>2. CASE s \in Sealed
  <2>1. WorkerInv' /\ Once!Begin(w, s)
    BY <1>2, OnceBegins
  <2>2. QED
    BY <1>2, <2>1 DEF Once!Next
<1>3. CASE s \notin Wrappers /\ s \notin Sealed
  <2> DEFINE next == inv'[w]
  <2>1. /\ inv[w].pc = "walk" /\ inv' \in [Workers -> Invocations]
        /\ \A v \in Workers : Consistent(inv'[v])
        /\ \A v \in Workers : v # w => inv'[v] = inv[v]
        /\ next.pc = "run" /\ next.step = s
        /\ DistinctIds => InvReady(Done, next)
    BY <1>3, TakeShape
  <2>2. inv' = [inv EXCEPT ![w] = next]
    BY <2>1 DEF WorkerInv, TypeOK
  <2>3. SealedStand
    BY <1>3, Unsealed DEF Take, WorkerInv, TypeOK, SealedStand, Status
  <2>4. UNCHANGED <<messages, environment>>
    BY DEF Take
  <2>5. next \in Invocations /\ Consistent(next)
    BY <2>1
  <2> HIDE DEF next
  <2>6. QED
    BY <1>3, <2>1, <2>2, <2>3, <2>4, <2>5, RecordStep
<1>4. QED
  BY <1>1, <1>2, <1>3

LEMMA Ran ==
  ASSUME NEW i \in Invocations, NEW pc \in {"walk", "stop", "suspend"}, NEW paused \in Seq(Pausing)
  PROVE  [i EXCEPT !.pc = pc, !.step = NoStep, !.paused = paused] \in Invocations
BY EveryPc DEF Invocations

(* The outcome of a step, and how its invocation goes on.                  *)
LEMMA RunShape ==
  ASSUME WorkerInv, NEW w \in Workers, RunStep(w)
  PROVE  LET s == inv[w].step IN
         /\ inv[w].pc = "run" /\ s \in Steps /\ UNCHANGED <<messages, environment>>
         /\ \E pc \in {"walk", "stop", "suspend"}, outcome \in {"completed", "filtered", "delayed"},
               next \in Invocations :
              /\ Mark(s, outcome) /\ inv' = [inv EXCEPT ![w] = next] /\ Consistent(next)
              /\ next.pc = pc /\ next.msg = inv[w].msg /\ next.step = NoStep
              /\ next.stack = inv[w].stack /\ next.segments = inv[w].segments
              /\ next.tail = inv[w].tail /\ next.parks = inv[w].parks
              /\ s \in Sealed => \/ outcome = "completed" /\ pc = "walk"
                                 \/ outcome = "filtered" /\ pc = "stop"
<1> DEFINE s == inv[w].step
<1>1. inv[w].pc = "run" /\ s \in Steps /\ UNCHANGED <<messages, environment>>
  BY Fields DEF RunStep, Consistent
<1>2. inv[w].paused \in Seq(Pausing)
  BY Fields
<1>3. \E pc \in {"walk", "stop", "suspend"}, outcome \in {"completed", "filtered", "delayed"},
         paused \in Seq(Pausing) :
        /\ Mark(s, outcome)
        /\ inv' = [inv EXCEPT ![w] = [inv[w] EXCEPT !.pc = pc, !.step = NoStep, !.paused = paused]]
        /\ s \in Sealed => \/ outcome = "completed" /\ pc = "walk"
                           \/ outcome = "filtered" /\ pc = "stop"
  <2>1. CASE /\ Mark(s, "completed")
             /\ inv' = [inv EXCEPT ![w].pc = "walk", ![w].step = NoStep]
    <3>1. inv' = [inv EXCEPT ![w] = [inv[w] EXCEPT !.pc = "walk", !.step = NoStep,
                                                   !.paused = inv[w].paused]]
      BY <2>1, Shape, EveryPc DEF Invocations, WorkerInv, TypeOK
    <3>2. QED
      BY <1>2, <2>1, <3>1
  <2>2. CASE /\ Mark(s, "filtered")
             /\ inv' = [inv EXCEPT ![w].pc = "stop", ![w].step = NoStep]
    <3>1. inv' = [inv EXCEPT ![w] = [inv[w] EXCEPT !.pc = "stop", !.step = NoStep,
                                                   !.paused = inv[w].paused]]
      BY <2>2, Shape, EveryPc DEF Invocations, WorkerInv, TypeOK
    <3>2. QED
      BY <1>2, <2>2, <3>1
  <2>3. CASE /\ Kind[s] = "delay" /\ Mark(s, "delayed")
             /\ inv' = [inv EXCEPT ![w].pc = "suspend", ![w].step = NoStep, ![w].paused = <<s>>]
    <3>1. s \in Pausing /\ s \notin Sealed
      BY <1>1, <2>3, Unsealed DEF Pausing
    <3>2. <<s>> \in Seq(Pausing)
      BY <3>1, Singleton
    <3>3. inv' = [inv EXCEPT ![w] = [inv[w] EXCEPT !.pc = "suspend", !.step = NoStep,
                                                   !.paused = <<s>>]]
      BY <2>3
    <3>4. QED
      BY <2>3, <3>1, <3>2, <3>3
  <2>4. QED
    BY <2>1, <2>2, <2>3 DEF RunStep
<1>4. PICK pc \in {"walk", "stop", "suspend"}, outcome \in {"completed", "filtered", "delayed"},
           paused \in Seq(Pausing) :
        /\ Mark(s, outcome)
        /\ inv' = [inv EXCEPT ![w] = [inv[w] EXCEPT !.pc = pc, !.step = NoStep, !.paused = paused]]
        /\ s \in Sealed => \/ outcome = "completed" /\ pc = "walk"
                           \/ outcome = "filtered" /\ pc = "stop"
  BY <1>3
<1> DEFINE next == [inv[w] EXCEPT !.pc = pc, !.step = NoStep, !.paused = paused]
<1>5. next \in Invocations
  BY Shape, Ran
<1>6. /\ next.pc = pc /\ next.msg = inv[w].msg /\ next.step = NoStep
      /\ next.stack = inv[w].stack /\ next.segments = inv[w].segments
      /\ next.tail = inv[w].tail /\ next.parks = inv[w].parks
  BY Shape, EveryPc DEF Invocations
<1>7. inv' = [inv EXCEPT ![w] = next]
  BY <1>4
<1> HIDE DEF next
<1>8. Consistent(next)
  BY <1>1, <1>6, Shape DEF Consistent
<1>9. QED
  BY <1>1, <1>4, <1>5, <1>6, <1>7, <1>8

LEMMA RunStepInv ==
  ASSUME WorkerInv, NEW w \in Workers, RunStep(w)
  PROVE  WorkerInv' /\ [Once!Next]_(Once!vars)
<1>1. inv[w].pc = "run" /\ inv[w].step \in Steps /\ UNCHANGED <<messages, environment>>
  BY RunShape
<1> PICK s \in Steps : s = inv[w].step
  BY <1>1
<1>2. PICK pc \in {"walk", "stop", "suspend"}, outcome \in {"completed", "filtered", "delayed"},
           next \in Invocations :
        /\ Mark(s, outcome) /\ inv' = [inv EXCEPT ![w] = next] /\ Consistent(next)
        /\ next.pc = pc /\ next.msg = inv[w].msg /\ next.step = NoStep
        /\ next.stack = inv[w].stack /\ next.segments = inv[w].segments
        /\ next.tail = inv[w].tail /\ next.parks = inv[w].parks
        /\ s \in Sealed => \/ outcome = "completed" /\ pc = "walk"
                           \/ outcome = "filtered" /\ pc = "stop"
  BY RunShape DEF Mark
<1>3. outcome \in Status
  BY DEF Status
<1>4. CASE s \notin Sealed
  <2>1. SealedStand
    BY <1>1, <1>2, <1>3, <1>4, UnsealedWrites
  <2>2. inv[w].stack \in Seq(Frames) /\ inv[w].pc \notin {"stop", "raise"} /\ inv[w].step \notin Sealed
    BY <1>1, <1>4, Fields
  <2>3. DistinctIds => InvReady(Done, next)
    BY <1>2, <2>2, WholeStack, StackInHand
  <2>4. QED
    BY <1>1, <1>2, <2>1, <2>2, <2>3, RecordStep
<1>5. CASE s \in Sealed
  <2>1. status \in [Steps -> Status] /\ lease \in [Steps -> Workers \cup {"orphan", "over"}]
        /\ inv \in [Workers -> Invocations]
    BY DEF WorkerInv, TypeOK
  <2>2. Runs(w, s) /\ status[s] = "processing" /\ lease[s] = w
    BY <1>1, <1>5 DEF Runs, WorkerInv, RunnersHold
  <2>3. \A v \in Workers : v # w => ~Runs(v, s)
    BY <1>5, <2>2 DEF WorkerInv, RunnersHold
  <2>4. /\ status' \in [Steps -> Status] /\ UNCHANGED lease /\ status'[s] = outcome
        /\ \A t \in Sealed : t # s => status'[t] = status[t]
    BY <1>1, <1>2, <1>3, <2>1, Unsealed DEF Mark
  <2>5. \A v \in Workers : inv'[v] = IF v = w THEN next ELSE inv[v]
    BY <1>2, <2>1
  <2>6. \A v \in Workers, t \in Sealed : Runs(v, t)' <=> Runs(v, t) /\ v # w
    BY <1>2, <1>5, <2>5 DEF Runs
  <2>7. TypeOK'
    <3>1. Mail' /\ Around'
      BY <1>1, MailStands, AroundStands
    <3>2. inv' \in [Workers -> Invocations] /\ \A v \in Workers : Consistent(inv'[v])
      BY <1>2, <2>1, <2>5 DEF WorkerInv, TypeOK
    <3>3. QED
      BY <2>1, <2>4, <3>1, <3>2 DEF TypeOK, Mail, Around
  <2>8. RunnersHold'
    BY <1>2, <1>5, <2>2, <2>3, <2>4, <2>6 DEF WorkerInv, RunnersHold
  <2>9. Done \subseteq Done' /\ (outcome = "completed" => Done' = Done \cup {s})
    BY <1>5, <2>2, <2>4 DEF Done
  <2>10. ASSUME DistinctIds PROVE ChainsReady'
    <3>1. ChainsReady
      BY <2>10 DEF WorkerInv
    <3>2. /\ \A m \in BagToSet(queue) : AllReady(Done', m.segments)
          /\ \A v \in Workers : InvReady(Done', inv[v])
      BY <2>9, <3>1, ReadyStays
    <3>3. inv[w].stack # <<>> /\ outcome = "completed" => Ready(Done', Head(inv[w].stack).steps)
      BY <1>1, <2>9, <2>10, StackReady DEF InvReady
    <3>4. inv[w].stack # <<>> /\ outcome = "completed" =>
            Ready(Done' \cup {next.step}, Head(inv[w].stack).steps)
      <4>1. Done' \subseteq Done' \cup {next.step}
        OBVIOUS
      <4>2. QED
        BY <3>3, <4>1, ReadyMore
    <3>5. InvReady(Done', next)
      <4>1. InvReady(Done', inv[w]) /\ inv[w].msg # NoMessage
        BY <1>1, <3>2, Shape DEF Consistent
      <4>2. next.pc # "run" /\ (next.pc = "stop" \/ outcome = "completed")
        BY <1>2, <1>5
      <4>3. inv[w].stack # <<>> => AllReady(Done', Tail(inv[w].stack))
        BY <4>1 DEF InvReady
      <4>4. QED
        BY <1>2, <3>4, <4>1, <4>2, <4>3 DEF InvReady
    <3>6. queue' = queue
      BY <1>1 DEF messages
    <3>7. QED
      BY <2>5, <3>2, <3>5, <3>6 DEF ChainsReady
  <2>11. Once!Finish(w, s)
    <3>1. {v \in Workers : Runs(v, s)} = {w}
      BY <2>2, <2>3
    <3>2. [t \in Sealed |-> {v \in Workers : Runs(v, t)}]' =
            [[t \in Sealed |-> {v \in Workers : Runs(v, t)}] EXCEPT ![s] = {}]
      <4>1. \A t \in Sealed : t # s => ~Runs(w, t)
        BY <2>2 DEF Runs
      <4>2. QED
        BY <2>3, <2>6, <4>1
    <3>3. {t \in Sealed : status[t] \in Finished}' = {t \in Sealed : status[t] \in Finished} \cup {s}
      BY <1>2, <1>5, <2>4 DEF Finished
    <3>4. QED
      BY <1>5, <3>1, <3>2, <3>3 DEF Once!Finish
  <2>12. Once!Next
    BY <1>5, <2>11 DEF Once!Next
  <2>13. QED
    BY <2>7, <2>8, <2>10, <2>12 DEF WorkerInv
<1>6. QED
  BY <1>4, <1>5

(* A sealed step that fails is given up: its lease is over, and the        *)
(* exception goes up its chains.                                           *)
LEMMA OnceGivesUp ==
  ASSUME WorkerInv, NEW w \in Workers, NEW s \in Sealed, inv[w].pc = "run", inv[w].step = s,
         NEW error \in {"action", "logic"}, UNCHANGED <<messages, environment>>, Release(s),
         inv' = [inv EXCEPT ![w] = [inv[w] EXCEPT !.pc = "raise", !.step = NoStep,
                                                  !.error = error, !.stack = inv[w].stack]]
  PROVE  WorkerInv' /\ Once!GiveUp(w, {s})
<1> DEFINE stack == inv[w].stack
           next == [inv[w] EXCEPT !.pc = "raise", !.step = NoStep, !.error = error, !.stack = stack]
<1>1. /\ status \in [Steps -> Status] /\ lease \in [Steps -> Workers \cup {"orphan", "over"}]
      /\ inv \in [Workers -> Invocations] /\ stack \in Seq(Frames)
  BY Fields DEF WorkerInv, TypeOK
<1>2. Runs(w, s) /\ status[s] = "processing" /\ lease[s] = w
  BY DEF Runs, WorkerInv, RunnersHold
<1>3. \A v \in Workers : v # w => ~Runs(v, s)
  BY <1>2 DEF WorkerInv, RunnersHold
<1>4. inv' = [inv EXCEPT ![w] = next]
  OBVIOUS
<1>5. next \in Invocations
  BY <1>1, Shape, GivenUp
<1>6. /\ next.pc = "raise" /\ next.msg = inv[w].msg /\ next.step = NoStep
      /\ next.stack = stack /\ next.segments = inv[w].segments
      /\ next.tail = inv[w].tail /\ next.parks = inv[w].parks
  BY Shape, EveryPc DEF Invocations
<1> HIDE DEF next
<1>7. Consistent(next)
  BY <1>6, Shape DEF Consistent
<1>8. \A v \in Workers : inv'[v] = IF v = w THEN next ELSE inv[v]
  BY <1>1, <1>4
<1>9. /\ status' \in [Steps -> Status] /\ lease' \in [Steps -> Workers \cup {"orphan", "over"}]
      /\ status'[s] = "failed"
      /\ \A t \in Sealed : t # s => status'[t] = status[t] /\ lease'[t] = lease[t]
  BY <1>1, Unsealed DEF Release, Status
<1>10. \A v \in Workers, t \in Sealed : Runs(v, t)' <=> Runs(v, t) /\ v # w
  BY <1>6, <1>8 DEF Runs
<1>11. TypeOK'
  <2>1. Mail' /\ Around'
    BY MailStands, AroundStands
  <2>2. inv' \in [Workers -> Invocations] /\ \A v \in Workers : Consistent(inv'[v])
    BY <1>1, <1>4, <1>5, <1>7, <1>8 DEF WorkerInv, TypeOK
  <2>3. QED
    BY <1>9, <2>1, <2>2 DEF TypeOK, Mail, Around
<1>12. RunnersHold'
  BY <1>2, <1>3, <1>9, <1>10 DEF WorkerInv, RunnersHold
<1>13. Done' = Done
  BY <1>2, <1>9 DEF Done
<1>14. ASSUME DistinctIds PROVE ChainsReady'
  <2>1. MailReady'
    BY <1>13, <1>14, MailStands DEF WorkerInv
  <2>2. InvReady(Done, next)
    BY <1>6, <1>14, StackReady DEF InvReady
  <2>3. QED
    BY <1>8, <1>13, <1>14, <2>1, <2>2 DEF WorkerInv, ChainsReady, MailReady
<1>15. Once!GiveUp(w, {s})
  <2>1. \A t \in Sealed : t # s => ~Runs(w, t)
    BY DEF Runs
  <2>2. [t \in Sealed |-> {v \in Workers : Runs(v, t)}]' =
          [t \in Sealed |-> IF t \in {s} THEN [u \in Sealed |-> {v \in Workers : Runs(v, u)}][t] \ {w}
                            ELSE [u \in Sealed |-> {v \in Workers : Runs(v, u)}][t]]
    BY <1>10, <2>1
  <2>3. UNCHANGED {t \in Sealed : status[t] \in Finished}
    BY <1>2, <1>9 DEF Finished
  <2>4. QED
    BY <2>2, <2>3 DEF Once!GiveUp
<1>16. QED
  BY <1>11, <1>12, <1>14, <1>15 DEF WorkerInv

LEMMA FailStepInv ==
  ASSUME WorkerInv, NEW w \in Workers, FailStep(w)
  PROVE  WorkerInv' /\ [Once!Next]_(Once!vars)
<1>1. inv[w].pc = "run" /\ inv[w].step \in Steps /\ UNCHANGED <<messages, environment>>
  BY Fields DEF FailStep, Consistent
<1> PICK s \in Steps : s = inv[w].step
  BY <1>1
<1>2. PICK error \in {"action", "logic"} : Fail(w, s, inv[w].stack, error)
  BY DEF FailStep
<1>3. inv[w].stack \in Seq(Frames)
  BY Fields
<1>4. CASE s \notin Sealed
  <2>1. DistinctIds => AllReady(Done, inv[w].stack)
    BY <1>1, <1>4, WholeStack
  <2>2. QED
    BY <1>1, <1>2, <1>3, <1>4, <2>1, FailInv
<1>5. CASE s \in Sealed
  <2>1. Policy[s] = "halt"
    BY <1>5, Unsealed
  <2>2. /\ Release(s)
        /\ inv' = [inv EXCEPT ![w] = [inv[w] EXCEPT !.pc = "raise", !.step = NoStep,
                                                    !.error = error, !.stack = inv[w].stack]]
    BY <1>2, <2>1 DEF Fail
  <2>3. WorkerInv' /\ Once!GiveUp(w, {s})
    BY <1>1, <1>5, <2>2, OnceGivesUp
  <2>4. QED
    BY <1>5, <2>3 DEF Once!Next
<1>6. QED
  BY <1>4, <1>5

-----------------------------------------------------------------------------
(* The end of an invocation.                                               *)

LEMMA IdleShape == Idle \in Invocations /\ Consistent(Idle) /\ \A done : InvReady(done, Idle)
<1> DEFINE nothing == <<>>
<1>1. nothing \in Seq(Frames) /\ nothing \in Seq(Pausing) /\ nothing \in Seq(Suspensions)
  OBVIOUS
<1>2. Idle = [pc |-> "idle", msg |-> NoMessage, sweep |-> {}, flow |-> NoFlow, stack |-> nothing,
              segments |-> nothing, tail |-> nothing, step |-> NoStep, paused |-> nothing,
              parks |-> nothing, error |-> "none"]
  BY DEF Idle
<1>3. \A done : AllReady(done, nothing)
  BY DEF AllReady
<1>4. nothing = <<>> /\ DOMAIN nothing = {}
  OBVIOUS
<1> HIDE DEF nothing
<1>5. Idle \in Invocations
  BY <1>1, <1>2, EveryPc DEF Invocations
<1>6. Consistent(Idle)
  BY <1>2 DEF Consistent
<1>7. \A done : InvReady(done, Idle)
  BY <1>2, <1>3, <1>4 DEF InvReady
<1>8. QED
  BY <1>5, <1>6, <1>7

(* Whatever the invocation held, its leases run on without it.             *)
LEMMA LeaveInv ==
  ASSUME WorkerInv, NEW w \in Workers, Leave(w), UNCHANGED status, Mail', Around',
         DistinctIds => MailReady'
  PROVE  WorkerInv' /\ [Once!Next]_(Once!vars)
<1>1. /\ status \in [Steps -> Status] /\ lease \in [Steps -> Workers \cup {"orphan", "over"}]
      /\ inv \in [Workers -> Invocations] /\ \A v \in Workers : Consistent(inv[v])
  BY DEF WorkerInv, TypeOK
<1>2. \A v \in Workers : inv'[v] = IF v = w THEN Idle ELSE inv[v]
  BY <1>1 DEF Leave
<1>3. /\ lease' \in [Steps -> Workers \cup {"orphan", "over"}]
      /\ \A s \in Sealed : lease[s] # w => lease'[s] = lease[s]
  BY <1>1, Unsealed DEF Leave
<1>4. \A v \in Workers, s \in Sealed : Runs(v, s)' <=> Runs(v, s) /\ v # w
  <2>1. Idle.pc = "idle"
    BY DEF Idle
  <2>2. QED
    BY <1>2, <2>1 DEF Runs
<1>5. TypeOK'
  <2>1. inv' \in [Workers -> Invocations]
    BY <1>1, IdleShape DEF Leave
  <2>2. \A v \in Workers : Consistent(inv'[v])
    BY <1>1, <1>2, IdleShape
  <2>3. QED
    BY <1>1, <1>3, <2>1, <2>2 DEF TypeOK, Mail, Around
<1>6. RunnersHold'
  BY <1>3, <1>4 DEF WorkerInv, RunnersHold
<1>7. Done' = Done
  BY DEF Done
<1>8. DistinctIds => ChainsReady'
  BY <1>2, <1>7, IdleShape DEF WorkerInv, ChainsReady, MailReady
<1>9. Once!GiveUp(w, Sealed)
  <2>1. [t \in Sealed |-> {v \in Workers : Runs(v, t)}]' =
          [t \in Sealed |-> IF t \in Sealed
                            THEN [u \in Sealed |-> {v \in Workers : Runs(v, u)}][t] \ {w}
                            ELSE [u \in Sealed |-> {v \in Workers : Runs(v, u)}][t]]
    BY <1>4
  <2>2. UNCHANGED {t \in Sealed : status[t] \in Finished}
    OBVIOUS
  <2>3. QED
    BY <2>1, <2>2 DEF Once!GiveUp
<1>10. QED
  BY <1>5, <1>6, <1>8, <1>9 DEF WorkerInv, Once!Next

(* The message goes back, or to the dead letters.                          *)
LEMMA ReturnStands ==
  ASSUME WorkerInv, NEW w \in Workers, inv[w].pc # "idle", Return(w), UNCHANGED status
  PROVE  Mail' /\ (DistinctIds => MailReady')
<1>1. Done' = Done
  BY DEF Done
<1>2. Message(w) \in Envelopes /\ Message(w) # NoMessage
  BY Fields DEF Message, Consistent
<1>3. CASE Message(w).receives >= MaxReceive
  BY <1>1, <1>3 DEF Return, WorkerInv, TypeOK, Mail, MailReady, ChainsReady
<1>4. CASE ~(Message(w).receives >= MaxReceive)
  <2>1. Message(w).receives < MaxReceive
    <3>1. Message(w).receives \in 0 .. MaxReceive /\ MaxReceive \in Nat
      BY <1>2, BoundsAssumption DEF Envelopes
    <3>2. QED
      BY <1>4, <3>1
  <2>2. IsABag(queue) /\ queue' = queue (+) SetToBag({Message(w)}) /\ dead' = dead
    BY <1>4 DEF Return, Send, WorkerInv, TypeOK
  <2>3. IsABag(queue') /\ BagToSet(queue') = BagToSet(queue) \cup {Message(w)}
    BY <2>2, BagMore
  <2>4. DistinctIds => AllReady(Done, Message(w).segments)
    BY <1>2, StackReady DEF InvReady, Message
  <2>5. Mail'
    BY <1>2, <2>1, <2>2, <2>3 DEF WorkerInv, TypeOK, Mail
  <2>6. DistinctIds => MailReady'
    BY <1>1, <2>3, <2>4 DEF WorkerInv, ChainsReady, MailReady
  <2>7. QED
    BY <2>5, <2>6
<1>5. QED
  BY <1>3, <1>4

LEMMA AcknowledgeInv ==
  ASSUME WorkerInv, NEW w \in Workers, Acknowledge(w)
  PROVE  WorkerInv' /\ [Once!Next]_(Once!vars)
<1>1. /\ Leave(w) /\ UNCHANGED <<status, messages, off, cancelling, sends, faults>>
      /\ inbox' \in {"failed", "unmatched", "matched", inbox}
  BY DEF Acknowledge, Note
<1>2. Done' = Done
  BY <1>1 DEF Done
<1>3. Mail' /\ (DistinctIds => MailReady')
  BY <1>1, <1>2, MailStands DEF WorkerInv
<1>4. Around'
  BY <1>1 DEF WorkerInv, TypeOK, Around
<1>5. QED
  BY <1>1, <1>3, <1>4, LeaveInv

LEMMA RejectInv ==
  ASSUME WorkerInv, NEW w \in Workers, Reject(w)
  PROVE  WorkerInv' /\ [Once!Next]_(Once!vars)
<1>1. /\ Leave(w) /\ Return(w) /\ inv[w].pc # "idle"
      /\ UNCHANGED <<status, cancelling, sends, faults>>
      /\ inbox' \in {"failed", inbox} /\ off' \subseteq off \cup Switchable
  BY DEF Reject, Note
<1>2. Mail' /\ (DistinctIds => MailReady')
  BY <1>1, ReturnStands
<1>3. Around'
  BY <1>1 DEF WorkerInv, TypeOK, Around
<1>4. QED
  BY <1>1, <1>2, <1>3, LeaveInv

LEMMA CrashInv ==
  ASSUME WorkerInv, NEW w \in Workers, Crash(w)
  PROVE  WorkerInv' /\ [Once!Next]_(Once!vars)
<1>1. /\ Leave(w) /\ Return(w) /\ inv[w].pc # "idle" /\ faults < MaxFaults /\ faults' = faults + 1
      /\ UNCHANGED <<status, inbox, off, cancelling, sends>>
  BY DEF Crash
<1>2. Mail' /\ (DistinctIds => MailReady')
  BY <1>1, ReturnStands
<1>3. Around'
  BY <1>1, BoundsAssumption DEF WorkerInv, TypeOK, Around
<1>4. QED
  BY <1>1, <1>2, <1>3, LeaveInv

-----------------------------------------------------------------------------
(* Around the worker.                                                      *)

(* No invocation moves, and no lease that one of them holds is written.    *)
LEMMA OutsideStep ==
  ASSUME WorkerInv, UNCHANGED inv, Mail', Around', DistinctIds => MailReady',
         status' \in [Steps -> Status], lease' \in [Steps -> Workers \cup {"orphan", "over"}],
         \A s \in Sealed : /\ status'[s] = status[s]
                           /\ lease[s] \in Workers => lease'[s] = lease[s]
  PROVE  WorkerInv' /\ UNCHANGED Once!vars
<1>1. TypeOK'
  BY DEF WorkerInv, TypeOK, Mail, Around
<1>2. \A v \in Workers : \A s \in Sealed : Runs(v, s)' <=> Runs(v, s)
  BY DEF Runs
<1>3. RunnersHold'
  BY <1>2 DEF WorkerInv, RunnersHold
<1>4. Done' = Done
  BY DEF Done
<1>5. DistinctIds => ChainsReady'
  BY <1>4 DEF WorkerInv, ChainsReady, MailReady
<1>6. UNCHANGED Once!vars
  BY <1>2 DEF Once!vars
<1>7. QED
  BY <1>1, <1>3, <1>5, <1>6 DEF WorkerInv

LEMMA OutsideInv ==
  ASSUME WorkerInv,
         \/ \E s \in Steps : Expire(s) \/ Cancel(s)
         \/ Resend
         \/ \E f \in DOMAIN Chain : TurnOff(f) \/ ReadCancel(f)
  PROVE  WorkerInv' /\ UNCHANGED Once!vars
<1>1. /\ status \in [Steps -> Status] /\ lease \in [Steps -> Workers \cup {"orphan", "over"}]
      /\ dead \in BOOLEAN
  BY DEF WorkerInv, TypeOK
<1>2. ASSUME NEW s \in Steps, Expire(s) PROVE WorkerInv' /\ UNCHANGED Once!vars
  <2>1. UNCHANGED <<status, messages, inv, environment>> /\ lease[s] = "orphan"
        /\ lease' = [lease EXCEPT ![s] = "over"]
    BY <1>2 DEF Expire
  <2>2. Done' = Done
    BY <2>1 DEF Done
  <2>3. Mail' /\ Around' /\ (DistinctIds => MailReady')
    BY <2>1, <2>2, MailStands, AroundStands DEF WorkerInv
  <2>4. lease' \in [Steps -> Workers \cup {"orphan", "over"}]
        /\ \A t \in Sealed : lease[t] \in Workers => lease'[t] = lease[t]
    BY <1>1, <2>1, BoundsAssumption, Unsealed
  <2>5. QED
    BY <1>1, <2>1, <2>3, <2>4, OutsideStep
<1>3. ASSUME NEW s \in Steps, Cancel(s) PROVE WorkerInv' /\ UNCHANGED Once!vars
  <2>1. /\ UNCHANGED <<messages, inv, inbox, off, sends, faults>> /\ cancelling' \subseteq cancelling
        /\ UNCHANGED records \/ (status[s] = "delayed" /\ Mark(s, "cancelled"))
    BY <1>3 DEF Cancel
  <2>2. SealedStand
    <3>1. CASE UNCHANGED records
      BY <3>1, RecordsStand
    <3>2. CASE status[s] = "delayed" /\ Mark(s, "cancelled")
      <4>1. s \notin Sealed
        BY <3>2 DEF WorkerInv, RunnersHold
      <4>2. QED
        BY <3>2, <4>1, UnsealedWrites DEF Status
    <3>3. QED
      BY <2>1, <3>1, <3>2
  <2>3. Done' = Done
    BY <2>2 DEF Done, SealedStand
  <2>4. Mail' /\ (DistinctIds => MailReady')
    BY <2>1, <2>3, MailStands DEF WorkerInv
  <2>5. Around'
    BY <2>1 DEF WorkerInv, TypeOK, Around
  <2>6. QED
    BY <2>1, <2>2, <2>4, <2>5, OutsideStep DEF SealedStand
<1>4. ASSUME Resend PROVE WorkerInv' /\ UNCHANGED Once!vars
  <2>1. /\ sends < MaxSends /\ sends' = sends + 1 /\ Send(EventMessage(0))
        /\ UNCHANGED <<records, dead, inv, inbox, off, cancelling, faults>>
    BY <1>4 DEF Resend
  <2>2. Mail' /\ (DistinctIds => MailReady')
    BY <1>1, <2>1, EventTyped, SendStands
  <2>3. Around'
    BY <2>1, BoundsAssumption DEF WorkerInv, TypeOK, Around
  <2>4. QED
    BY <1>1, <2>1, <2>2, <2>3, OutsideStep DEF records
<1>5. ASSUME NEW f \in DOMAIN Chain, TurnOff(f) \/ ReadCancel(f)
      PROVE  WorkerInv' /\ UNCHANGED Once!vars
  <2>1. /\ UNCHANGED <<records, messages, inv, inbox, sends, faults>>
        /\ off' \subseteq off \cup Switchable /\ cancelling' \subseteq cancelling \cup Steps
    BY <1>5 DEF TurnOff, ReadCancel
  <2>2. Done' = Done
    BY <2>1, RecordsStand
  <2>3. Mail' /\ (DistinctIds => MailReady')
    BY <2>1, <2>2, MailStands DEF WorkerInv
  <2>4. Around'
    BY <2>1 DEF WorkerInv, TypeOK, Around
  <2>5. QED
    BY <1>1, <2>1, <2>3, <2>4, OutsideStep DEF records
<1>6. QED
  BY <1>2, <1>3, <1>4, <1>5

-----------------------------------------------------------------------------
(* The invariant, and what follows from it.                                *)

LEMMA InitInv ==
  ASSUME Init
  PROVE  WorkerInv /\ Once!Init
<1>1. IsABag(queue) /\ BagToSet(queue) = {EventMessage(0)}
  BY BagOfOne DEF Init
<1>2. EventMessage(0) \in Envelopes /\ EventMessage(0).receives < MaxReceive
      /\ \A done : AllReady(done, EventMessage(0).segments)
  BY EventTyped
<1>3. \A v \in Workers : inv[v] = Idle
  BY DEF Init
<1>4. inv \in [Workers -> Invocations]
  BY IdleShape DEF Init
<1>5. TypeOK
  <2>1. /\ status \in [Steps -> Status] /\ lease \in [Steps -> Workers \cup {"orphan", "over"}]
        /\ dead \in BOOLEAN /\ inbox = "none" /\ off = {} /\ cancelling = {}
    BY DEF Init, Status
  <2>2. sends \in 1 .. MaxSends /\ faults \in 0 .. MaxFaults
    BY BoundsAssumption DEF Init
  <2>3. QED
    BY <1>1, <1>2, <1>3, <1>4, <2>1, <2>2, IdleShape DEF TypeOK
<1>6. \A v \in Workers, s \in Sealed : ~Runs(v, s) /\ status[s] = "none"
  <2>1. Idle.pc = "idle"
    BY DEF Idle
  <2>2. QED
    BY <1>3, <2>1, Unsealed DEF Runs, Init
<1>7. \A s \in Sealed : status[s] = "none"
  BY Unsealed DEF Init
<1>8. RunnersHold
  BY <1>6, <1>7 DEF RunnersHold
<1>9. ChainsReady
  BY <1>1, <1>2, <1>3, IdleShape DEF ChainsReady
<1>10. Once!Init
  BY <1>6, <1>7 DEF Once!Init, Finished
<1>11. QED
  BY <1>5, <1>8, <1>9, <1>10 DEF WorkerInv

LEMMA HandleInv ==
  ASSUME WorkerInv, NEW w \in Workers, Handle(w)
  PROVE  WorkerInv' /\ [Once!Next]_(Once!vars)
<1>1. CASE \E s \in Steps : Take(w, s) \/ PassBy(w, s) \/ Busy(w, s)
  BY <1>1, TakeInv, PassByInv, BusyInv
<1>2. CASE Sweep(w) \/ ResumeEarly(w) \/ ResumeWorkflow(w) \/ ReadPauses(w) \/ Drop(w)
           \/ ClosePaused(w)
  BY <1>2, SweepInv, ResumeEarlyInv, ResumeWorkflowInv, ReadPausesInv, DropInv, ClosePausedInv
<1>3. CASE RunStep(w) \/ FailStep(w) \/ Handled(w) \/ Propagate(w)
  BY <1>3, RunStepInv, FailStepInv, HandledInv, PropagateInv
<1>4. CASE EndChain(w) \/ NextSegment(w) \/ EndRun(w) \/ Unwind(w) \/ Suspend(w)
  BY <1>4, EndChainInv, NextSegmentInv, EndRunInv, UnwindInv, SuspendInv
<1>5. CASE Park(w) \/ ParkFails(w) \/ Raised(w) \/ Acknowledge(w) \/ Reject(w)
  BY <1>5, ParkInv, ParkFailsInv, RaisedInv, AcknowledgeInv, RejectInv
<1>6. QED
  BY <1>1, <1>2, <1>3, <1>4, <1>5 DEF Handle

LEMMA NextInv ==
  ASSUME WorkerInv, [Next]_vars
  PROVE  WorkerInv' /\ [Once!Next]_(Once!vars)
<1>1. CASE UNCHANGED vars
  <2>1. UNCHANGED <<inv, status, lease, messages, environment>> /\ Done' = Done
    BY <1>1 DEF vars, messages, environment, Done
  <2>2. Mail' /\ Around' /\ (DistinctIds => MailReady')
    BY <2>1, MailStands, AroundStands DEF WorkerInv
  <2>3. QED
    BY <2>1, <2>2, OutsideStep DEF WorkerInv, TypeOK
<1>2. ASSUME NEW w \in Workers, Deliver(w) \/ Handle(w) \/ Crash(w)
      PROVE  WorkerInv' /\ [Once!Next]_(Once!vars)
  BY <1>2, ReceiveInv, HandleInv, CrashInv DEF Deliver
<1>3. CASE \/ \E s \in Steps : Expire(s) \/ Cancel(s)
           \/ Resend
           \/ \E f \in DOMAIN Chain : TurnOff(f) \/ ReadCancel(f)
  BY <1>3, OutsideInv
<1>4. QED
  BY <1>1, <1>2, <1>3 DEF Next

(* In every reachable state records, messages and invocations keep their   *)
(* shape, a sealed step is run by the holder of its lease alone, and every *)
(* remainder of a chain, on a stack, parked or on the queue, is in order   *)
(* (engine/worker.py: handler, execute, run_chain, _enqueue_resume).       *)
THEOREM WorkerInvariant == Spec => []WorkerInv
<1>1. Init => WorkerInv
  BY InitInv
<1>2. WorkerInv /\ [Next]_vars => WorkerInv'
  BY NextInv
<1>3. QED
  BY <1>1, <1>2, PTL DEF Spec

(* Whole deliveries, with crashes, duplicates, retries, failing wrappers   *)
(* and resumes, keep the ledger's promise: a sealed step runs once at a    *)
(* time and never again when it is done (_claim_action under handler).     *)
THEOREM WorkerImplementsStepOnce == Spec => ImplementsStepOnce
<1>1. Init => Once!Init
  BY InitInv
<1>2. WorkerInv /\ [Next]_vars => [Once!Next]_(Once!vars)
  BY NextInv
<1>3. QED
  BY <1>1, <1>2, WorkerInvariant, PTL DEF Spec, ImplementsStepOnce, Once!Spec

(* Where an id names one step of one chain, no delivery runs a step before *)
(* the sealed steps ahead of it are completed: not the first, not a        *)
(* redelivery that walks past what is done, not the continuation of a      *)
(* parked run (run_chain, resume_chain).                                   *)
THEOREM WalksInOrder ==
  ASSUME DistinctIds
  PROVE  Spec => []InOrder
<1>1. WorkerInv => InOrder
  <2> SUFFICES ASSUME WorkerInv, NEW w \in Workers, NEW s \in Steps, Runs(w, s),
                      NEW t \in Ahead(s) \cap Sealed
               PROVE  status[t] = "completed"
    BY DEF InOrder
  <2>1. InvReady(Done, inv[w])
    BY DEF WorkerInv, ChainsReady
  <2>2. t \in Done
    BY <2>1 DEF InvReady, Runs
  <2>3. QED
    BY <2>2 DEF Done
<1>2. QED
  BY <1>1, WorkerInvariant, PTL
=============================================================================
