------------------------------ MODULE Schedules ------------------------------
(***************************************************************************)
(* One schedule trigger: the row of the schedules table, the EventBridge   *)
(* rule that fires it, and everybody who writes either: save, pause and    *)
(* resume, delete, and the worker, which notes its fires in the row        *)
(* (triggers/schedule_triggers.py).  The rule is programmed before the row *)
(* is put and removed before the row is deleted; no write is conditional.  *)
(* Of the row the model keeps the switch and the expression.               *)
(***************************************************************************)
EXTENDS Naturals, FiniteSets

CONSTANTS
    Callers,        \* invocations of the API function and of the worker
    Expressions,    \* schedule expressions
    MaxCommands,    \* bound: calls and fires
    MaxOutages      \* bound: calls of EventBridge or the table that fail

VARIABLES
    stored,     \* the row, or NoRow
    rule,       \* the rule and whether the worker is its target, or NoRule
    caller,     \* caller[c]: the call c is in
    meddled,    \* history: calls overlapped, and no call has had its way alone since
    broken,     \* history: the calls that failed half way: "save", "delete"
    commands, outages

schedVars == <<stored, rule, caller, meddled, broken, commands, outages>>

NoRow == [on |-> FALSE, missing |-> TRUE]
NoRule == [on |-> FALSE, target |-> FALSE, missing |-> TRUE]
Waiting == [pc |-> "waiting"]
Busy(c) == caller[c] # Waiting
Row == [on : BOOLEAN, expr : Expressions]

\* What a call holds: the row it will put, or none when it deletes.
SchedCalls ==
    [pc : {"rule", "targets", "put", "note"}, item : Row, alone : BOOLEAN] \cup
    [pc : {"untarget", "unrule", "row"}, item : {NoRow}, alone : BOOLEAN]

SchedTypeOK ==
    /\ stored = NoRow \/ stored \in Row
    /\ rule = NoRule \/ rule \in [on : BOOLEAN, expr : Expressions, target : BOOLEAN]
    /\ caller \in [Callers -> {Waiting} \cup SchedCalls]
    /\ meddled \in BOOLEAN /\ broken \subseteq {"save", "delete"}

SchedInit ==
    /\ stored = NoRow /\ rule = NoRule
    /\ caller = [c \in Callers |-> Waiting]
    /\ meddled = FALSE /\ broken = {}
    /\ commands = 0 /\ outages = 0

\* A call begins with its read of the row.  It is alone as long as no other runs.
Command(c, pc, item) ==
    LET others == {d \in Callers \ {c} : Busy(d)} IN
    /\ ~Busy(c) /\ commands < MaxCommands
    /\ commands' = commands + 1
    /\ meddled' = (meddled \/ others # {})
    /\ caller' = [d \in Callers |->
         IF d = c THEN [pc |-> pc, item |-> item, alone |-> others = {}]
         ELSE IF Busy(d) THEN [caller[d] EXCEPT !.alone = FALSE] ELSE Waiting]

Step(c, pc) == caller' = [caller EXCEPT ![c].pc = pc]
Quit(c) == caller' = [caller EXCEPT ![c] = Waiting]

\* A call has succeeded: row and rule are what it made them.
Succeed(c) ==
    /\ Quit(c)
    /\ meddled' = (meddled /\ ~caller[c].alone)
    /\ broken' = IF caller[c].alone THEN {} ELSE broken

-----------------------------------------------------------------------------
(* api_save and api_set_enabled.                                           *)

BeginSave(c, expr, on) ==
    /\ Command(c, "rule", [on |-> on, expr |-> expr])
    /\ UNCHANGED <<stored, rule, broken, outages>>

BeginSwitch(c, on) ==
    /\ stored # NoRow
    /\ Command(c, "rule", [stored EXCEPT !.on = on])
    /\ UNCHANGED <<stored, rule, broken, outages>>

\* Mutant: put_rule programs a new rule, without a target.
PutRuleAnew(c) ==
    /\ caller[c].pc = "rule"
    /\ rule' = [on |-> caller[c].item.on, expr |-> caller[c].item.expr, target |-> FALSE]
    /\ Step(c, "targets")
    /\ UNCHANGED <<stored, meddled, broken, commands, outages>>

\* sync_rule: put_rule leaves the target alone ...
PutRule(c) ==
    /\ caller[c].pc = "rule"
    /\ rule' = [on |-> caller[c].item.on, expr |-> caller[c].item.expr, target |-> rule.target]
    /\ Step(c, "targets")
    /\ UNCHANGED <<stored, meddled, broken, commands, outages>>

\* ... and put_targets raises when the rule is gone by then (see Outage).
PutTargets(c) ==
    /\ caller[c].pc = "targets" /\ rule # NoRule
    /\ rule' = [rule EXCEPT !.target = TRUE]
    /\ Step(c, "put")
    /\ UNCHANGED <<stored, meddled, broken, commands, outages>>

PutRow(c) ==
    /\ caller[c].pc = "put"
    /\ stored' = caller[c].item
    /\ Succeed(c)
    /\ UNCHANGED <<rule, commands, outages>>

-----------------------------------------------------------------------------
(* api_delete.                                                             *)

BeginRemove(c) ==
    /\ stored # NoRow
    /\ Command(c, "untarget", NoRow)
    /\ UNCHANGED <<stored, rule, broken, outages>>

\* remove_rule: a missing rule is already gone.
RemoveTargets(c) ==
    /\ caller[c].pc = "untarget"
    /\ rule' = [rule EXCEPT !.target = FALSE]
    /\ Step(c, IF rule = NoRule THEN "row" ELSE "unrule")
    /\ UNCHANGED <<stored, meddled, broken, commands, outages>>

\* EventBridge deletes no rule that has targets (see Outage).
DeleteRule(c) ==
    /\ caller[c].pc = "unrule" /\ ~rule.target
    /\ rule' = NoRule
    /\ Step(c, "row")
    /\ UNCHANGED <<stored, meddled, broken, commands, outages>>

DeleteRow(c) ==
    /\ caller[c].pc = "row"
    /\ stored' = NoRow
    /\ Succeed(c)
    /\ UNCHANGED <<rule, commands, outages>>

-----------------------------------------------------------------------------
(* A fire: the worker notes it in the row when the run is over.            *)

\* record_fire reads the row; a schedule that is gone is left alone ...
ReadForFire(c) ==
    /\ stored # NoRow
    /\ Command(c, "note", stored)
    /\ UNCHANGED <<stored, rule, broken, outages>>

\* ... and puts back all it read, with one more entry in the history.
PutFire(c) ==
    /\ caller[c].pc = "note"
    /\ stored' = caller[c].item
    /\ Quit(c)
    /\ UNCHANGED <<rule, meddled, broken, commands, outages>>

-----------------------------------------------------------------------------

\* What a call that fails here leaves half done.
HalfDone(pc) ==
    CASE pc \in {"targets", "put"} -> {"save"}
      [] pc \in {"unrule", "row"} -> {"delete"}
      [] OTHER -> {}

\* A call of EventBridge or of the table fails, or the invocation dies;
\* put_targets of a rule that was deleted meanwhile always does, and
\* delete_rule of one that was targeted again.
Outage(c) ==
    /\ Busy(c)
    /\ \/ outages < MaxOutages /\ outages' = outages + 1
       \/ caller[c].pc = "targets" /\ rule = NoRule /\ UNCHANGED outages
       \/ caller[c].pc = "unrule" /\ rule.target /\ UNCHANGED outages
    /\ broken' = broken \cup HalfDone(caller[c].pc)
    /\ Quit(c)
    /\ UNCHANGED <<stored, rule, meddled, commands>>

SchedNext == \E c \in Callers :
    \/ \E expr \in Expressions, on \in BOOLEAN : BeginSave(c, expr, on)
    \/ \E on \in BOOLEAN : BeginSwitch(c, on)
    \/ PutRule(c) \/ PutTargets(c) \/ PutRow(c)
    \/ BeginRemove(c) \/ RemoveTargets(c) \/ DeleteRule(c) \/ DeleteRow(c)
    \/ ReadForFire(c) \/ PutFire(c) \/ Outage(c)

SchedSpec == SchedInit /\ [][SchedNext]_schedVars

-----------------------------------------------------------------------------

Removing == \E c \in Callers : caller[c].pc \in {"unrule", "row"}
Quiescent == \A c \in Callers : ~Busy(c)

Programmed(row, target) == [on |-> row.on, expr |-> row.expr, target |-> target]
Agree == IF stored = NoRow THEN rule = NoRule ELSE rule = Programmed(stored, TRUE)

(* A stored schedule can fire: whatever call fails half way, the row never *)
(* names a schedule that EventBridge does not have, and the next call that *)
(* succeeds makes the two agree again (api_save's order, and api_delete's, *)
(* the only one that may break it).  Calls that overlap, a note of a fire  *)
(* among them, promise nothing until a call has run alone.                 *)
StoredFires ==
    ~meddled =>
        /\ stored # NoRow /\ ~Removing /\ "delete" \notin broken => rule.target
        /\ Quiescent /\ broken = {} => Agree

\* What StoredFires rests on: while nothing was meddled with every call is
\* alone, the rule and the row are what a lone call has made of them so far,
\* and they agree unless a call is between its two writes.
Lonely(c) == Busy(c) /\ caller[c].alone
Alone ==
    /\ \A c \in Callers : Lonely(c) => \A d \in Callers \ {c} : ~Busy(d)
    /\ ~meddled => \A c \in Callers : Busy(c) => caller[c].alone
SoFar(c) == Lonely(c) =>
    /\ caller[c].pc = "targets" => rule = Programmed(caller[c].item, rule.target)
    /\ caller[c].pc = "put" => rule = Programmed(caller[c].item, TRUE)
    /\ caller[c].pc = "unrule" => ~rule.target
    /\ caller[c].pc = "row" => rule = NoRule
    /\ caller[c].pc = "note" => stored = caller[c].item
Between == \E c \in Callers : caller[c].pc \in {"targets", "put", "unrule", "row"}
SchedInv ==
    /\ SchedTypeOK /\ Alone
    /\ \A c \in Callers : SoFar(c)
    /\ ~meddled =>
        /\ stored # NoRow /\ ~Removing /\ "delete" \notin broken => rule.target
        /\ ~Between /\ broken = {} => Agree
=============================================================================
