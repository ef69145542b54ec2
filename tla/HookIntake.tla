----------------------------- MODULE HookIntake -----------------------------
(***************************************************************************)
(* One stored webhook: its deliveries with the provider's retries, the     *)
(* claim on each delivery's id and its release (seen.claim, seen.forget),  *)
(* the publish, and the inline run of response.mode: sync with its budget  *)
(* and its fallback to the queue (api/router.py).                          *)
(*                                                                         *)
(* The workflow's steps are numbered in the order a walk meets them; a     *)
(* branch stands before the steps of its body.                             *)
(***************************************************************************)
EXTENDS Naturals, Sequences

CONSTANTS
    Keys,       \* the deliveries, named by their stable event ids
    Requests,   \* invocations of the API function
    WrapperOf,  \* WrapperOf[s]: the branch step s is in, 0 at top level
    MaxTries,   \* bound: times the provider sends a delivery, over all of them
    MaxHookFaults \* bound: failed calls and dead invocations

ASSUME HookAssumption ==
    /\ \A r \in Requests : r \notin {"worker", "none", "over", "done"}
    /\ WrapperOf \in Seq(Nat) /\ MaxTries \in Nat

VARIABLES
    response,   \* the hook's response.mode
    entry,      \* entry[k]: the seen row's entry for k
    call,       \* call[r]: the local state of r, "worker" for the queue's consumer
    queued,     \* deliveries on the event queue
    record,     \* record[k][s]: the execution record of step s
    provider,   \* provider[k]: what the provider knows of k
    tries,      \* tries[k]: how often it has sent k
    served,     \* history: deliveries answered as accepted, not as a duplicate
    effects,    \* history: effects[k][s]: times step s ran for k
    unrecorded, \* history: unrecorded[k][s]: effects of s whose record was not written
    sent,       \* how often it has sent any
    torn,       \* history: claims left behind by a death, or put back with an older set
    hookFaults

hookVars == <<response, entry, call, queued, record, provider, tries,
              served, effects, unrecorded, torn, sent, hookFaults>>
walk == <<record, effects, unrecorded>>
outside == <<provider, tries, sent>>

HookSteps == DOMAIN WrapperOf
Runners == Requests \cup {"worker"}
Away == [pc |-> "idle"]
Serving(k) ==
    [pc |-> "claim", key |-> k, try |-> tries[k] + 1, step |-> 1, inside |-> 0,
     late |-> FALSE, skipped |-> FALSE, read |-> {}]

\* What a call holds while it runs.
Calls ==
    [pc : {"claim", "reread", "reclaim", "match", "walk", "act", "mark", "publish", "release",
           "forget", "sorry"},
     key : Keys, try : Nat, step : 1..(Len(WrapperOf) + 1), inside : HookSteps \cup {0},
     late : BOOLEAN, skipped : BOOLEAN, read : SUBSET Keys]

HookTypeOK ==
    /\ response \in {"ack", "sync"}
    /\ entry \in [Keys -> {"none", "live", "stale"}]
    /\ queued \subseteq Keys /\ served \subseteq Keys /\ torn \subseteq Keys
    /\ record \in [Keys -> [HookSteps -> {"none", "over", "done"} \cup Runners]]
    /\ provider \in [Keys -> {"unsent", "waiting", "failed", "accepted"}]
    /\ sent \in 0..MaxTries /\ tries \in [Keys -> 0..sent]
    /\ call \in [Runners -> {Away} \cup Calls]
    /\ effects \in [Keys -> [HookSteps -> Nat]] /\ unrecorded \in [Keys -> [HookSteps -> Nat]]

HookInit ==
    /\ response \in {"ack", "sync"}
    /\ entry \in [Keys -> {"none", "stale"}]
    /\ call = [r \in Runners |-> Away]
    /\ queued = {} /\ served = {} /\ torn = {}
    /\ record = [k \in Keys |-> [s \in HookSteps |-> "none"]]
    /\ effects = [k \in Keys |-> [s \in HookSteps |-> 0]] /\ unrecorded = effects
    /\ provider = [k \in Keys |-> "unsent"] /\ tries = [k \in Keys |-> 0]
    /\ hookFaults = 0 /\ sent = 0

Fault == hookFaults < MaxHookFaults /\ hookFaults' = hookFaults + 1

-----------------------------------------------------------------------------
(* The provider.                                                           *)

\* The first try, and one more whenever it was told of a failure or gave up
\* waiting; the earlier call may still run.
SendDelivery(k, r) ==
    /\ call[r] = Away /\ provider[k] # "accepted" /\ sent < MaxTries
    /\ sent' = sent + 1
    /\ tries' = [tries EXCEPT ![k] = @ + 1]
    /\ provider' = [provider EXCEPT ![k] = "waiting"]
    /\ call' = [call EXCEPT ![r] = Serving(k)]
    /\ UNCHANGED <<response, entry, queued, walk, served, torn, hookFaults>>

\* Nobody listens to the answer of a try that was given up.
Tell(r, answer) ==
    provider' = IF call[r].try = tries[call[r].key]
                THEN [provider EXCEPT ![call[r].key] = answer] ELSE provider

-----------------------------------------------------------------------------
(* The claim.                                                              *)

At(r, pc) == call[r].pc = pc
Goto(r, pc) == call' = [call EXCEPT ![r].pc = pc]
AfterClaim(r) == IF response = "sync" THEN "match" ELSE "publish"
Live == {k \in Keys : entry[k] = "live"}

\* The conditional update takes a free key in place.
ClaimDelivery(r) ==
    /\ At(r, "claim") /\ entry[call[r].key] = "none"
    /\ entry' = [entry EXCEPT ![call[r].key] = "live"]
    /\ Goto(r, AfterClaim(r))
    /\ UNCHANGED <<response, queued, walk, outside, served, torn, hookFaults>>

\* A key that is there refuses it, and is read once more: ...
ClaimMisses(r) ==
    /\ At(r, "claim") /\ entry[call[r].key] # "none"
    /\ Goto(r, "reread")
    /\ UNCHANGED <<response, entry, queued, walk, outside, served, torn, hookFaults>>

\* ... a live one is a duplicate, ...
Duplicate(r) ==
    /\ At(r, "reread") /\ entry[call[r].key] = "live"
    /\ Tell(r, "accepted")
    /\ call' = [call EXCEPT ![r] = Away]
    /\ UNCHANGED <<response, entry, queued, walk, tries, sent, served, torn, hookFaults>>

\* ... and one past its ttl, gone by now, or too new for a read that is not
\* consistent, is claimed with a put of the set as it was read.
Reread(r) ==
    /\ At(r, "reread")
    /\ call' = [call EXCEPT ![r].pc = "reclaim", ![r].read = Live \ {call[r].key}]
    /\ UNCHANGED <<response, entry, queued, walk, outside, served, torn, hookFaults>>

\* _store: the row becomes the set its writer read and the key it adds, and
\* brings back what was taken out since.
PutSet(entries, added) ==
    /\ entry' = [k \in Keys |-> IF k \in entries \cup added THEN "live" ELSE "none"]
    /\ torn' = torn \cup {k \in entries : entry[k] = "none"}

Reclaim(r) ==
    /\ At(r, "reclaim")
    /\ PutSet(call[r].read, {call[r].key})
    /\ Goto(r, AfterClaim(r))
    /\ UNCHANGED <<response, queued, walk, outside, served, hookFaults>>

\* A store outage: publish anyway.
ClaimFails(r) ==
    /\ call[r].pc \in {"claim", "reread", "reclaim"} /\ Fault
    /\ Goto(r, AfterClaim(r))
    /\ UNCHANGED <<response, entry, queued, walk, outside, served, torn>>

\* forget, best-effort.  Mutant: the failed publish leaves the claim.
ReleaseNothing(r) ==
    /\ At(r, "release")
    /\ Goto(r, "sorry")
    /\ UNCHANGED <<response, entry, queued, walk, outside, served, torn, hookFaults>>
Release(r) ==
    /\ At(r, "release")
    /\ IF call[r].key \in Live
         THEN call' = [call EXCEPT ![r].pc = "forget", ![r].read = Live \ {call[r].key}]
         ELSE Goto(r, "sorry")
    /\ UNCHANGED <<response, entry, queued, walk, outside, served, torn, hookFaults>>

Forget(r) ==
    /\ At(r, "forget")
    /\ PutSet(call[r].read, {})
    /\ Goto(r, "sorry")
    /\ UNCHANGED <<response, queued, walk, outside, served, hookFaults>>

Apologize(r) ==
    /\ At(r, "sorry")
    /\ Tell(r, "failed")
    /\ call' = [call EXCEPT ![r] = Away]
    /\ UNCHANGED <<response, entry, queued, walk, tries, sent, served, torn, hookFaults>>

-----------------------------------------------------------------------------
(* The publish, and the inline run.                                        *)

Accept(r) ==
    /\ Tell(r, "accepted")
    /\ served' = served \cup {call[r].key}
    /\ call' = [call EXCEPT ![r] = Away]

Publish(r) ==
    /\ At(r, "publish")
    /\ queued' = queued \cup {call[r].key}
    /\ Accept(r)
    /\ UNCHANGED <<response, entry, walk, tries, sent, torn, hookFaults>>

PublishFails(r) ==
    /\ At(r, "publish") /\ Fault
    /\ Goto(r, "release")
    /\ UNCHANGED <<response, entry, queued, walk, outside, served, torn>>

\* Exactly one workflow matches now and the run starts, or it falls back.
Match(r) ==
    /\ At(r, "match")
    /\ \E pc \in {"walk", "publish"} : Goto(r, pc)
    /\ UNCHANGED <<response, entry, queued, walk, outside, served, torn, hookFaults>>

Overrun(r) ==
    /\ r \in Requests /\ At(r, "walk") /\ ~call[r].late
    /\ call' = [call EXCEPT ![r].late = TRUE]
    /\ UNCHANGED <<response, entry, queued, walk, outside, served, torn, hookFaults>>

Key(r) == call[r].key
Rec(r) == record[Key(r)][call[r].step]
Mark(r, s, outcome) == record' = [record EXCEPT ![Key(r)][s] = outcome]
IsBranch(s) == \E t \in HookSteps : WrapperOf[t] = s

\* The step behind s and its body.
Past(s) == CHOOSE t \in s + 1 .. Len(WrapperOf) + 1 :
             /\ t \in HookSteps => WrapperOf[t] # s
             /\ \A u \in s + 1 .. t - 1 : WrapperOf[u] = s

\* The walk meets a step of the chain it is in, or that chain has ended.
ChainEnded(r) ==
    \/ call[r].step \notin HookSteps
    \/ /\ call[r].step \in HookSteps /\ call[r].inside # 0
       /\ WrapperOf[call[r].step] # call[r].inside
Meets(r) == At(r, "walk") /\ ~ChainEnded(r)

\* before_action behind the deadline: no lease, no side effect.
SkipLate(r) ==
    /\ Meets(r) /\ call[r].late
    /\ call' = [call EXCEPT ![r].step = Past(@), ![r].skipped = TRUE]
    /\ UNCHANGED <<response, entry, queued, walk, outside, served, torn, hookFaults>>

\* Mutant: a finished step can be taken again.
FreeUnlessHeld(r) == Rec(r) \notin Runners
FreeStep(r) == Rec(r) \in {"none", "over"}

TakeStep(r) ==
    /\ Meets(r) /\ ~call[r].late /\ FreeStep(r)
    /\ Mark(r, call[r].step, r)
    /\ call' = IF IsBranch(call[r].step)
               THEN [call EXCEPT ![r].inside = call[r].step, ![r].step = @ + 1]
               ELSE [call EXCEPT ![r].pc = "act"]
    /\ UNCHANGED <<response, entry, queued, outside, effects, unrecorded, served, torn, hookFaults>>

PassStep(r) ==
    /\ Meets(r) /\ ~call[r].late /\ Rec(r) = "done"
    /\ call' = [call EXCEPT ![r].step = Past(@)]
    /\ UNCHANGED <<response, entry, queued, walk, outside, served, torn, hookFaults>>

\* The connector call, and the close-out behind it: two calls, the second a
\* write of its own (_mark_completed).
RunAction(r) ==
    /\ At(r, "act")
    /\ effects' = [effects EXCEPT ![Key(r)][call[r].step] = @ + 1]
    /\ Goto(r, "mark")
    /\ UNCHANGED <<response, entry, queued, record, unrecorded, outside, served, torn, hookFaults>>

MarkDone(r) ==
    /\ At(r, "mark")
    /\ Mark(r, call[r].step, "done")
    /\ call' = [call EXCEPT ![r].pc = "walk", ![r].step = @ + 1]
    /\ UNCHANGED <<response, entry, queued, effects, unrecorded, outside, served, torn, hookFaults>>

\* A body that ends closes its branch, whatever was skipped in it.
CloseBranch(r) ==
    /\ At(r, "walk") /\ ChainEnded(r) /\ call[r].inside # 0
    /\ Mark(r, call[r].inside, "done")
    /\ call' = [call EXCEPT ![r].inside = 0]
    /\ UNCHANGED <<response, entry, queued, outside, effects, unrecorded, served, torn, hookFaults>>

\* The leases of a runner that stops: released by a failure, waited out after
\* a death or behind a close-out that could not be written.
Drop(r) ==
    LET mine == record[Key(r)]
    IN  /\ record' = [record EXCEPT ![Key(r)] =
                        [s \in HookSteps |-> IF mine[s] = r THEN "over" ELSE mine[s]]]
        /\ unrecorded' = IF At(r, "mark")
                         THEN [unrecorded EXCEPT ![Key(r)][call[r].step] = @ + 1] ELSE unrecorded

\* An action fails, its close-out cannot be written, or a step is held by
\* another runner: the inline run releases its claim and answers 500, the
\* queue's message comes back.
WalkFails(r) ==
    /\ \/ call[r].pc \in {"act", "mark"} /\ Fault
       \/ Meets(r) /\ ~call[r].late /\ Rec(r) \in Runners /\ UNCHANGED hookFaults
    /\ Drop(r)
    /\ IF r = "worker" THEN call' = [call EXCEPT ![r] = Away] ELSE Goto(r, "release")
    /\ UNCHANGED <<response, entry, queued, outside, effects, served, torn>>

\* Mutant: the tail that was skipped is not handed over.
InlineAnswers(r) == TRUE
InlineCompleted(r) == ~call[r].skipped

InlineEnds(r) ==
    /\ r \in Requests /\ At(r, "walk") /\ ChainEnded(r) /\ call[r].inside = 0
    /\ IF InlineCompleted(r)
         THEN Accept(r)
         ELSE Goto(r, "publish") /\ UNCHANGED <<provider, served>>
    /\ UNCHANGED <<response, entry, queued, walk, tries, sent, torn, hookFaults>>

\* The invocation dies: no answer.
RequestDies(r) ==
    /\ call[r] # Away /\ Fault
    /\ Drop(r)
    /\ torn' = IF r = "worker" THEN torn ELSE torn \cup {Key(r)}
    /\ call' = [call EXCEPT ![r] = Away]
    /\ UNCHANGED <<response, entry, queued, effects, outside, served>>

-----------------------------------------------------------------------------
(* The consumer of the event queue, as far as intake needs it.             *)

Consume(k) ==
    /\ call["worker"] = Away /\ k \in queued
    /\ call' = [call EXCEPT !["worker"] = [Serving(k) EXCEPT !.pc = "walk"]]
    /\ UNCHANGED <<response, entry, queued, walk, outside, served, torn, hookFaults>>

Consumed ==
    /\ At("worker", "walk") /\ ChainEnded("worker") /\ call["worker"].inside = 0
    /\ queued' = queued \ {Key("worker")}
    /\ call' = [call EXCEPT !["worker"] = Away]
    /\ UNCHANGED <<response, entry, walk, outside, served, torn, hookFaults>>

-----------------------------------------------------------------------------

WalkNext(r) ==
    \/ SkipLate(r) \/ TakeStep(r) \/ PassStep(r) \/ RunAction(r) \/ MarkDone(r)
    \/ CloseBranch(r) \/ WalkFails(r)

RequestNext(r) ==
    \/ \E k \in Keys : SendDelivery(k, r)
    \/ ClaimDelivery(r) \/ ClaimMisses(r) \/ Duplicate(r) \/ Reread(r) \/ Reclaim(r) \/ ClaimFails(r)
    \/ Release(r) \/ Forget(r) \/ Apologize(r) \/ Publish(r) \/ PublishFails(r)
    \/ Match(r) \/ Overrun(r) \/ InlineEnds(r)

HookNext ==
    \/ \E r \in Requests : RequestNext(r)
    \/ \E r \in Runners : WalkNext(r) \/ RequestDies(r)
    \/ \E k \in Keys : Consume(k)
    \/ Consumed

HookSpec == HookInit /\ [][HookNext]_hookVars

-----------------------------------------------------------------------------

Walking(r) == call[r].pc \in {"walk", "act", "mark"}

\* What the properties rest on.  The effects of a step are those that were lost
\* to the record and one more, which is recorded or about to be; a runner holds
\* the records of the step it runs and of the branch it is in.
Took(k, s) ==
    \/ record[k][s] = "done" /\ ~IsBranch(s)
    \/ \E r \in Runners : At(r, "mark") /\ Key(r) = k /\ call[r].step = s /\ record[k][s] = r
EffectsRecorded ==
    \A k \in Keys, s \in HookSteps :
        effects[k][s] = unrecorded[k][s] + (IF Took(k, s) THEN 1 ELSE 0)
Leases(r) == Walking(r) =>
    /\ call[r].inside # 0 =>
         IsBranch(call[r].inside) /\ record[Key(r)][call[r].inside] = r
    /\ call[r].pc \in {"act", "mark"} =>
         /\ call[r].step \in HookSteps /\ Rec(r) = r
         /\ call[r].step # call[r].inside /\ ~IsBranch(call[r].step)

\* A walk begins at the first step; one that has skipped nothing has run what
\* is behind it, and the worker's skips nothing.
RanUpTo(k, n) == \A s \in HookSteps :
    s < n /\ WrapperOf[s] = 0 /\ ~IsBranch(s) => effects[k][s] > 0
Ran(r) ==
    /\ call[r].pc \in {"claim", "reread", "reclaim", "match"} => call[r].step = 1 /\ call[r].inside = 0
    /\ Walking(r) /\ ~call[r].skipped => RanUpTo(Key(r), call[r].step)
WorkerWalks ==
    call["worker"] # Away => Walking("worker") /\ ~call["worker"].late /\ ~call["worker"].skipped

\* A live entry is some call's claim, unless it was served or torn; a set that
\* is to be put back holds no expired key, nor the one that is being released.
Owns(r, k) ==
    /\ call[r].pc \in {"match", "walk", "act", "mark", "publish", "release", "forget"}
    /\ Key(r) = k
LiveOwned == \A k \in Live : k \in served \cup torn \/ \E r \in Requests : Owns(r, k)
ReadSet(r) == call[r] # Away =>
    /\ \A k \in call[r].read : entry[k] # "stale"
    /\ call[r].pc = "forget" => Key(r) \notin call[r].read

(* A delivery's step takes effect a second time only behind a runner that  *)
(* broke between the effect and its record, and once for each of those     *)
(* breaks: retries of the provider, two requests that claim one entry, a   *)
(* request that publishes without a claim, an inline run and the worker's  *)
(* replay of its tail all meet in one event id.                            *)
EffectOnce == \A k \in Keys, s \in HookSteps : effects[k][s] <= 1 + unrecorded[k][s]

(* A delivery answered as accepted is on the queue, or every step of the   *)
(* workflow's own chain has run ("hands the un-run tail to the worker"):   *)
(* an inline run that passed its budget anywhere, inside a branch too,     *)
(* leaves nothing behind it undone.  It is not so for the steps of the     *)
(* branch itself (CloseBranch).                                            *)
AcceptedIsServed ==
    \A k \in served :
        k \in queued \/ \A s \in HookSteps : WrapperOf[s] = 0 /\ ~IsBranch(s) => effects[k][s] > 0

(* A delivery that failed for the provider and that nobody took on is free *)
(* to be delivered again once no call serves it ("so a provider retry must *)
(* be able to deliver"): only an invocation that died on it, or a put of   *)
(* an older reading of the set by another call, leaves its claim behind.   *)
FailedIsRetryable ==
    \A k \in Keys :
        provider[k] = "failed" /\ (\A r \in Runners : call[r] # Away => Key(r) # k)
          => k \in served \/ entry[k] # "live" \/ k \in torn

HookInv ==
    /\ HookTypeOK /\ EffectOnce /\ AcceptedIsServed /\ EffectsRecorded
    /\ \A r \in Runners : Leases(r) /\ Ran(r) /\ ReadSet(r)
    /\ WorkerWalks /\ LiveOwned
=============================================================================
