------------------------------ MODULE PollFire ------------------------------
(***************************************************************************)
(* One poll trigger: its cursor and its seen-set, the fires that list the  *)
(* source and run what is new (_fire_enabled), scheduled and manual ones   *)
(* side by side, and the operator who resets or deletes the poll under     *)
(* them (poll_triggers.py, seen.py).                                       *)
(*                                                                         *)
(* The source numbers its items 1, 2, ... in the order they arrive.  A     *)
(* watermark poll lists them all; a next_cursor poll asks for the page     *)
(* behind a position, and the provider repeats a few items before it.      *)
(***************************************************************************)
EXTENDS Naturals, Sequences, Functions

CONSTANTS
    Fires,      \* invocations that can run a fire of this poll at once
    Scheduled,  \* the one of them the EventBridge rule starts
    Items,      \* bound: items that arrive
    PageSize,   \* new items on a page of a next_cursor source
    Recycled,   \* items before the position that a page repeats
    MaxItems,   \* the poll's max_items
    WorkflowOf, \* WorkflowOf[s]: the workflow of step s; steps run in order
    Stopping,   \* the steps that are filters whose rules the items fail
    MaxFaults,  \* bound: failed actions and dead invocations
    MaxOps      \* bound: manual fires, resets, deletes and expiries

ASSUME PollAssumption ==
    /\ Items \in Nat \ {0} /\ PageSize \in Nat \ {0} /\ MaxItems \in Nat \ {0}
    /\ Recycled \in Nat /\ Scheduled \in Fires
    /\ \A f \in Fires : f \notin {"operator", "none", "over", "orphan", "done", "filtered"}
    /\ WorkflowOf \in Seq(Range(WorkflowOf))
    /\ \A s, t, u \in DOMAIN WorkflowOf :
         s <= t /\ t <= u /\ WorkflowOf[s] = WorkflowOf[u] => WorkflowOf[t] = WorkflowOf[s]

VARIABLES
    mode,       \* the poll's cursor_mode
    arrived,    \* how many items the source has
    cursor,     \* the stored position, 0 without one
    seen,       \* the ids of the seen row
    ledger,     \* ledger[i][s]: the record of step s for item i
    fire,       \* fire[f]: the local state of f, "operator" for a reset
    exists,     \* whether the trigger's record is there
    waived,     \* history: items an operator skipped
    leaked,     \* history: items acted on behind a filter that said no
    faults, ops

pollVars == <<mode, arrived, cursor, seen, ledger, fire, exists, waived, leaked, faults, ops>>
source == <<mode, arrived>>
position == <<cursor, seen>>
history == <<waived, leaked>>
counters == <<faults, ops>>

StepIds == DOMAIN WorkflowOf
ItemIds == 1..Items
Callers == Fires \cup {"operator"}
Resting == [pc |-> "idle", todo |-> <<>>, mem |-> {}, next |-> 0, fired |-> 0,
            step |-> 1, fresh |-> FALSE]

PollTypeOK ==
    /\ mode \in {"watermark", "next_cursor"}
    /\ arrived \in 0..Items /\ cursor \in 0..Items
    /\ seen \subseteq ItemIds /\ waived \subseteq ItemIds /\ leaked \subseteq ItemIds
    /\ ledger \in [ItemIds -> [StepIds ->
         {"none", "over", "orphan", "done", "filtered"} \cup Fires]]
    /\ exists \in BOOLEAN
    /\ fire \in [Callers ->
         [pc : {"idle", "fetch", "loop", "act", "store", "drop", "delete", "remove"},
          todo : Seq(ItemIds), mem : SUBSET ItemIds, next : 0..Items, fired : 0..MaxItems,
          step : 1..(Len(WorkflowOf) + 1), fresh : BOOLEAN]]

PollInit ==
    /\ mode \in {"watermark", "next_cursor"}
    /\ arrived = 0 /\ cursor = 0 /\ seen = {}
    /\ ledger = [i \in ItemIds |-> [s \in StepIds |-> "none"]]
    /\ fire = [c \in Callers |-> Resting]
    /\ exists = TRUE /\ waived = {} /\ leaked = {} /\ faults = 0 /\ ops = 0

Arrive ==
    /\ arrived < Items
    /\ arrived' = arrived + 1
    /\ UNCHANGED <<mode, position, ledger, fire, exists, history, counters>>

-----------------------------------------------------------------------------
(* Listing.                                                                *)

Span(from, to) == [k \in 1..(IF to < from THEN 0 ELSE to - from + 1) |-> from + k - 1]
Least(a, b) == IF a < b THEN a ELSE b

\* What a page lists and its continuation, for a caller at position p.
Page(p) ==
    IF mode = "watermark" THEN Span(p + 1, arrived)
    ELSE Span(IF p < Recycled THEN 1 ELSE p - Recycled + 1, Least(arrived, p + PageSize))
NextPosition(p) == Least(arrived, p + PageSize)

\* fire: the trigger is there; its cursor is read ...
BeginFire(f) ==
    /\ fire[f].pc = "idle" /\ exists
    /\ IF f = Scheduled THEN UNCHANGED ops ELSE ops < MaxOps /\ ops' = ops + 1
    /\ fire' = [fire EXCEPT ![f] = [Resting EXCEPT !.pc = "fetch", !.next = cursor]]
    /\ UNCHANGED <<source, position, ledger, exists, history, faults>>

\* ... then the page is fetched, and the seen-set loaded.
Listed(c) ==
    [fire[c] EXCEPT !.pc = "loop", !.todo = Page(fire[c].next),
                    !.next = NextPosition(fire[c].next),
                    !.mem = IF mode = "watermark" THEN {} ELSE seen]
Fetch(f) ==
    /\ fire[f].pc = "fetch"
    /\ fire' = [fire EXCEPT ![f] = Listed(f)]
    /\ UNCHANGED <<source, position, ledger, exists, history, counters>>

Current(c) == Head(fire[c].todo)
Skip(c) == [fire EXCEPT ![c].todo = Tail(@), ![c].step = 1]
AtItem(f) == fire[f].pc = "loop" /\ fire[f].todo # <<>>

\* An item in the running copy of the seen-set is passed, whatever the budget.
SkipSeen(f) ==
    /\ AtItem(f) /\ Current(f) \in fire[f].mem
    /\ fire' = Skip(f)
    /\ UNCHANGED <<source, position, ledger, exists, history, counters>>

\* max_items.  Mutant: one more.
BudgetOneMore(f) == fire[f].fired <= MaxItems
BudgetLeft(f) == fire[f].fired < MaxItems

\* leftover_fresh.
FreshNoted(f) == TRUE

SkipOverBudget(f) ==
    /\ AtItem(f) /\ Current(f) \notin fire[f].mem /\ ~BudgetLeft(f)
    /\ fire' = [Skip(f) EXCEPT ![f].fresh = FreshNoted(f)]
    /\ UNCHANGED <<source, position, ledger, exists, history, counters>>

-----------------------------------------------------------------------------
(* Running one item: execute with _is_pending as the gate itself.          *)

Runs(f) == AtItem(f) /\ Current(f) \notin fire[f].mem /\ BudgetLeft(f)
AtGate(f) == Runs(f) /\ fire[f].step \in StepIds
Record(f) == ledger[Current(f)][fire[f].step]
Close(f, outcome) == ledger' = [ledger EXCEPT ![Current(f)][fire[f].step] = outcome]

GateTakes(f) ==
    /\ AtGate(f) /\ Record(f) \in {"none", "over"}
    /\ Close(f, f)
    /\ fire' = [fire EXCEPT ![f].pc = "act"]
    /\ UNCHANGED <<source, position, exists, history, counters>>

\* A finished step answers a bare False: whatever its outcome was, the chain
\* goes on with the step behind it.
GatePasses(f) ==
    /\ AtGate(f) /\ Record(f) \in {"done", "filtered"}
    /\ fire' = [fire EXCEPT ![f].step = @ + 1]
    /\ UNCHANGED <<source, position, ledger, exists, history, counters>>

\* Any exception breaks the loop: this item and those behind it stay unseen.
Break(f) == fire' = [fire EXCEPT ![f] = Resting]

GateBusy(f) ==
    /\ AtGate(f) /\ Record(f) \in Fires \cup {"orphan"}
    /\ Break(f)
    /\ UNCHANGED <<source, position, ledger, exists, history, counters>>

Chain(s) == {t \in StepIds : WorkflowOf[t] = WorkflowOf[s]}
Last(s) == CHOOSE t \in Chain(s) : \A u \in Chain(s) : u <= t
Behind(s) == {t \in Chain(s) : t < s}

\* A filter that says no ends its own workflow, not the item.
Act(f) ==
    /\ fire[f].pc = "act"
    /\ LET s == fire[f].step
           stops == s \in Stopping
           blocked == \E t \in Behind(s) : ledger[Current(f)][t] = "filtered"
       IN  /\ Close(f, IF stops THEN "filtered" ELSE "done")
           /\ fire' = [fire EXCEPT ![f].pc = "loop",
                         ![f].step = IF stops THEN Last(s) + 1 ELSE s + 1]
           /\ leaked' = IF blocked THEN leaked \cup {Current(f)} ELSE leaked
    /\ UNCHANGED <<source, position, exists, waived, counters>>

\* Mutant: a failed item is treated as emitted.
FailPasses(f) == fire' = [fire EXCEPT ![f].pc = "loop", ![f].step = @ + 1]
FailStops(f) == Break(f)

ActFails(f) ==
    /\ fire[f].pc = "act" /\ fire[f].step \notin Stopping
    /\ faults < MaxFaults /\ faults' = faults + 1
    /\ Close(f, "over")
    /\ FailStops(f)
    /\ UNCHANGED <<source, position, exists, history, ops>>

\* The item ran: its id becomes the watermark, or joins the seen-set.
Emit(f) ==
    /\ Runs(f) /\ fire[f].step \notin StepIds
    /\ IF mode = "watermark"
         THEN /\ cursor' = Current(f)
              /\ fire' = [Skip(f) EXCEPT ![f].fired = @ + 1]
         ELSE /\ fire' = [fire EXCEPT ![f].pc = "store", ![f].mem = @ \cup seen]
              /\ UNCHANGED cursor
    /\ UNCHANGED <<source, seen, ledger, exists, history, counters>>

\* remember: the fresh read merged into the running copy is put back whole.
Remember(f) ==
    /\ fire[f].pc = "store"
    /\ LET entries == fire[f].mem \cup {Current(f)} IN
         /\ seen' = entries
         /\ fire' = [Skip(f) EXCEPT ![f].pc = "loop", ![f].mem = entries, ![f].fired = @ + 1]
    /\ UNCHANGED <<source, cursor, ledger, exists, history, counters>>

\* The page is drained: its continuation is parked, unless a new item is left.
\* Mutant: only behind a page that had something to run.
DrainedByRuns(f) == ~fire[f].fresh /\ fire[f].fired > 0
Drained(f) == ~fire[f].fresh

Finish(f) ==
    /\ fire[f].pc = "loop" /\ fire[f].todo = <<>>
    /\ cursor' = IF mode = "next_cursor" /\ Drained(f) THEN fire[f].next ELSE cursor
    /\ fire' = [fire EXCEPT ![f] = Resting]
    /\ UNCHANGED <<source, seen, ledger, exists, history, counters>>

\* The invocation dies; the lease it holds runs out later.
Die(f) ==
    /\ fire[f].pc # "idle" /\ faults < MaxFaults
    /\ faults' = faults + 1
    /\ ledger' = [i \in ItemIds |-> [s \in StepIds |->
                    IF ledger[i][s] = f THEN "orphan" ELSE ledger[i][s]]]
    /\ Break(f)
    /\ UNCHANGED <<source, position, exists, history, ops>>

LeaseRunsOut(i, s) ==
    /\ ledger[i][s] = "orphan"
    /\ ledger' = [ledger EXCEPT ![i][s] = "over"]
    /\ UNCHANGED <<source, position, fire, exists, history, counters>>

\* An entry outlives dedupe_ttl_days, or falls to the cap of the set.
SeenExpires(i) ==
    /\ i \in seen /\ ops < MaxOps
    /\ seen' = seen \ {i} /\ ops' = ops + 1
    /\ UNCHANGED <<source, cursor, ledger, fire, exists, history, faults>>

-----------------------------------------------------------------------------
(* The operator.                                                           *)

op == "operator"

BeginReset ==
    /\ fire[op].pc = "idle" /\ exists /\ ops < MaxOps
    /\ ops' = ops + 1
    /\ fire' = [fire EXCEPT ![op] = [Resting EXCEPT !.pc = "fetch", !.next = cursor]]
    /\ UNCHANGED <<source, position, ledger, exists, history, faults>>

ResetFetch ==
    /\ fire[op].pc = "fetch"
    /\ fire' = [fire EXCEPT ![op] = Listed(op)]
    /\ UNCHANGED <<source, position, ledger, exists, history, counters>>

\* to: now.  A watermark jumps to the newest id; or every item is remembered,
\* one load and one put each, and the continuation is parked.
ResetJump ==
    /\ fire[op].pc = "loop" /\ mode = "watermark"
    /\ LET page == fire[op].todo IN
         IF page = <<>> THEN UNCHANGED <<cursor, waived>>
         ELSE /\ cursor' = page[Len(page)]
              /\ waived' = waived \cup {page[k] : k \in DOMAIN page}
    /\ fire' = [fire EXCEPT ![op] = Resting]
    /\ UNCHANGED <<source, seen, ledger, exists, leaked, counters>>

ResetLoad ==
    /\ fire[op].pc = "loop" /\ mode = "next_cursor" /\ fire[op].todo # <<>>
    /\ fire' = IF Current(op) \in fire[op].mem THEN Skip(op)
               ELSE [fire EXCEPT ![op].pc = "store", ![op].mem = @ \cup seen]
    /\ UNCHANGED <<source, position, ledger, exists, history, counters>>

ResetStore ==
    /\ fire[op].pc = "store"
    /\ LET entries == fire[op].mem \cup {Current(op)} IN
         /\ seen' = entries
         /\ fire' = [Skip(op) EXCEPT ![op].pc = "loop", ![op].mem = entries]
    /\ waived' = waived \cup {Current(op)}
    /\ UNCHANGED <<source, cursor, ledger, exists, leaked, counters>>

ResetPark ==
    /\ fire[op].pc = "loop" /\ mode = "next_cursor" /\ fire[op].todo = <<>>
    /\ cursor' = fire[op].next
    /\ fire' = [fire EXCEPT ![op] = Resting]
    /\ UNCHANGED <<source, seen, ledger, exists, history, counters>>

\* to: date.  The position moves to any item; then the seen-set is dropped.
ResetDate(p) ==
    /\ fire[op].pc = "idle" /\ exists /\ ops < MaxOps
    /\ ops' = ops + 1 /\ cursor' = p
    /\ waived' = waived \cup (1..p)
    /\ fire' = [fire EXCEPT ![op].pc = IF mode = "watermark" THEN "idle" ELSE "drop"]
    /\ UNCHANGED <<source, seen, ledger, exists, leaked, faults>>

\* api_delete: the cursor, the seen-set, and the record last.
DeleteCursor ==
    /\ fire[op].pc = "idle" /\ exists /\ ops < MaxOps
    /\ ops' = ops + 1 /\ cursor' = 0
    /\ fire' = [fire EXCEPT ![op].pc = "delete"]
    /\ UNCHANGED <<source, seen, ledger, exists, history, faults>>

DropSeen ==
    /\ fire[op].pc \in {"drop", "delete"}
    /\ seen' = {}
    /\ fire' = [fire EXCEPT ![op].pc = IF fire[op].pc = "drop" THEN "idle" ELSE "remove"]
    /\ UNCHANGED <<source, cursor, ledger, exists, history, counters>>

DeleteRecord ==
    /\ fire[op].pc = "remove"
    /\ exists' = FALSE
    /\ fire' = [fire EXCEPT ![op] = Resting]
    /\ UNCHANGED <<source, position, ledger, history, counters>>

\* api_save of the same name: the cursor is whatever is stored under it.
Recreate ==
    /\ ~exists
    /\ exists' = TRUE
    /\ UNCHANGED <<source, position, ledger, fire, history, counters>>

-----------------------------------------------------------------------------

FireStep(f) ==
    \/ Fetch(f) \/ SkipSeen(f) \/ SkipOverBudget(f)
    \/ GateTakes(f) \/ GatePasses(f) \/ GateBusy(f) \/ Act(f)
    \/ Emit(f) \/ Remember(f) \/ Finish(f)

OperatorStep ==
    ResetFetch \/ ResetJump \/ ResetLoad \/ ResetStore \/ ResetPark \/ DropSeen \/ DeleteRecord

PollNext ==
    \/ Arrive \/ BeginReset \/ DeleteCursor \/ Recreate \/ OperatorStep
    \/ \E p \in 0..arrived : ResetDate(p)
    \/ \E f \in Fires : BeginFire(f) \/ FireStep(f) \/ ActFails(f) \/ Die(f)
    \/ \E i \in ItemIds : SeenExpires(i) \/ \E s \in StepIds : LeaseRunsOut(i, s)

(* The rule starts fires for as long as the trigger exists, an invocation  *)
(* that runs goes on until it ends or dies, a lease runs out, and the      *)
(* operator's call returns.                                                *)
PollFair ==
    /\ WF_pollVars(BeginFire(Scheduled))
    /\ \A f \in Fires : WF_pollVars(FireStep(f))
    /\ WF_pollVars(\E i \in ItemIds, s \in StepIds : LeaseRunsOut(i, s))
    /\ WF_pollVars(OperatorStep) /\ WF_pollVars(Recreate)

PollSpec == PollInit /\ [][PollNext]_pollVars /\ PollFair

-----------------------------------------------------------------------------

\* Every workflow of the item came to its end: each step finished, or a filter
\* in front of it said no.
Settled(i, s) ==
    ledger[i][s] \in {"done", "filtered"} \/ \E t \in Behind(s) : ledger[i][t] = "filtered"
Handled(i) == \A s \in StepIds : Settled(i, s)

(* The position never moves over an item that did not run: whatever is     *)
(* behind the cursor or in the seen-set was run to the end by some fire,   *)
(* or an operator skipped it.                                              *)
NothingSkipped ==
    \A i \in ItemIds : i <= cursor \/ i \in seen => Handled(i) \/ i \in waived

(* What NothingSkipped rests on.  An item is passed rightly when it ran to *)
(* the end or was waived.  So are those in a running copy of the seen-set  *)
(* and those up to a position that was read; so is every item in front of  *)
(* a watermark page, which has no gaps, as long as there is budget; so is  *)
(* every item up to the continuation of a page that is not on it any more, *)
(* unless a new one was left.                                              *)
Passed(i) == Handled(i) \/ i \in waived
PassedUpTo(n) == \A i \in ItemIds : i <= n => Passed(i)

Listing(c) == fire[c].pc \in {"loop", "act", "store"}
Gapless(list) == \A k \in DOMAIN list : list[k] = list[1] + k - 1
CallerKnows(c) ==
    /\ \A i \in fire[c].mem : Passed(i)
    /\ fire[c].pc = "fetch" => fire[c].step = 1 /\ ~fire[c].fresh /\ PassedUpTo(fire[c].next)
    /\ Listing(c) /\ mode = "watermark" =>
         /\ Gapless(fire[c].todo)
         /\ BudgetLeft(c) /\ fire[c].todo # <<>> => PassedUpTo(Current(c) - 1)
    /\ Listing(c) /\ mode = "next_cursor" /\ ~fire[c].fresh =>
         \A i \in ItemIds : i <= fire[c].next => Passed(i) \/ i \in Range(fire[c].todo)

\* A fire holds the record of the step it runs; the steps before it are settled.
FireKnows(f) ==
    /\ fire[f].pc \in {"act", "store"} => fire[f].todo # <<>> /\ BudgetLeft(f)
    /\ fire[f].pc = "act" =>
         fire[f].step \in StepIds /\ ledger[Current(f)][fire[f].step] = f
    /\ Listing(f) /\ fire[f].todo # <<>> =>
         \A s \in StepIds : s < fire[f].step => Settled(Current(f), s)
    /\ fire[f].pc = "store" => Handled(Current(f))

OperatorKnows ==
    /\ fire[op].fired = 0 /\ ~fire[op].fresh
    /\ fire[op].pc = "store" => fire[op].todo # <<>>

PollInv ==
    /\ PollTypeOK /\ NothingSkipped /\ OperatorKnows
    /\ \A c \in Callers : CallerKnows(c)
    /\ \A f \in Fires : FireKnows(f)

(* Every item that arrives runs, or the operator skipped it: failures,     *)
(* dead invocations, a page larger than max_items and repeated items in    *)
(* front of it only delay it.                                              *)
EveryItemRuns ==
    \A i \in ItemIds : (arrived >= i) ~> (Handled(i) \/ i \in waived)

(* "Continues on pass; halts chain as filtered on fail": no action runs    *)
(* for an item behind a filter that said no (docs/branching-and-           *)
(* conditions.md, the filter step).                                        *)
FilterHolds == leaked = {}
=============================================================================
