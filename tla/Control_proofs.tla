--------------------------- MODULE Control_proofs ---------------------------
(***************************************************************************)
(* The control plane's schedules, webhooks and account listings, and the   *)
(* digests of the flows, for any number of callers, requests, deliveries,  *)
(* steps, resolvers, changes and items, and any number of failed calls and *)
(* dead invocations; and the control plane as a whole, in which each of    *)
(* the nine components behaves as it does alone.                           *)
(***************************************************************************)
EXTENDS MCControl, Credentials_proofs, Notices_proofs, Published_proofs, WellFoundedInduction

-----------------------------------------------------------------------------
(* Schedules.                                                              *)

(* A row is a row, and a missing rule targets nothing.                     *)
LEMMA RowsAndRules ==
    /\ \A r \in Row : r # NoRow
    /\ NoRule.target = FALSE
    /\ \A r \in Row : Programmed(r, TRUE).target
BY DEF Row, NoRow, NoRule, Programmed

LEMMA NothingToUntarget == [NoRule EXCEPT !.target = FALSE] = NoRule
<1> DEFINE R == [on : BOOLEAN, target : BOOLEAN, missing : BOOLEAN]
<1>1. \A r \in R : r.target = FALSE => [r EXCEPT !.target = FALSE] = r
  OBVIOUS
<1>2. NoRule \in R /\ NoRule.target = FALSE
  BY DEF NoRule
<1>3. QED
  BY <1>1, <1>2

(* One call moves: another that thinks itself alone was not there.         *)
LEMMA Meanwhile ==
  ASSUME SchedInv, NEW c \in Callers, Busy(c),
         \A d \in Callers \ {c} : caller'[d] = caller[d]
  PROVE  \A d \in Callers \ {c} : SoFar(d)' /\ ~Lonely(d)' /\ ~Lonely(d)
BY DEF SchedInv, Alone, Lonely, Busy, SoFar

(* A call that goes on.                                                    *)
LEMMA GoesOn ==
  ASSUME SchedInv, NEW c \in Callers, Busy(c), NEW pc,
         Step(c, pc), [caller[c] EXCEPT !.pc = pc] \in SchedCalls,
         stored' = stored, meddled' = meddled, broken' = broken, SchedTypeOK', SoFar(c)',
         ~meddled =>
           /\ stored # NoRow /\ pc \notin {"unrule", "row"} /\ "delete" \notin broken => rule'.target
           /\ pc \notin {"targets", "put", "unrule", "row"} /\ broken = {} => Agree'
  PROVE  SchedInv'
<1>1. /\ caller'[c] = [caller[c] EXCEPT !.pc = pc] /\ caller'[c].pc = pc
      /\ caller'[c].alone = caller[c].alone
      /\ \A d \in Callers \ {c} : caller'[d] = caller[d]
  BY DEF Step, SchedInv, SchedTypeOK, Busy, SchedCalls
<1>2. Busy(c)'
  BY <1>1 DEF Busy, Waiting, SchedCalls
<1>3. Alone'
  BY <1>1, <1>2 DEF SchedInv, Alone, Lonely, Busy
<1>4. \A d \in Callers : SoFar(d)'
  BY <1>1, Meanwhile
<1>5. caller'[c].pc \in {"unrule", "row"} => Removing'
  BY DEF Removing
<1>6. caller'[c].pc \in {"targets", "put", "unrule", "row"} => Between'
  BY DEF Between
<1>7. QED
  BY <1>1, <1>3, <1>4, <1>5, <1>6 DEF SchedInv

(* A call begins: nobody who was there is alone any more.                  *)
LEMMA Begins ==
  ASSUME SchedInv, NEW c \in Callers, NEW pc \in {"rule", "untarget", "note"}, NEW item,
         pc # "untarget" => item \in Row, pc = "untarget" => item = NoRow,
         pc = "note" => item = stored,
         Command(c, pc, item), stored' = stored, rule' = rule, broken' = broken
  PROVE  SchedInv'
<1> DEFINE begun == [pc |-> pc, item |-> item, alone |-> {d \in Callers \ {c} : Busy(d)} = {}]
           less(d) == [caller[d] EXCEPT !.alone = FALSE]
<1>1. begun \in SchedCalls /\ begun.pc = pc /\ begun.item = item /\ begun # Waiting
  BY DEF SchedCalls, Waiting
<1>2. \A d \in Callers : Busy(d) =>
        /\ less(d) \in SchedCalls /\ less(d).pc = caller[d].pc /\ less(d).alone = FALSE
        /\ less(d) # Waiting
  <2> SUFFICES ASSUME NEW d \in Callers, Busy(d)
               PROVE  /\ less(d) \in SchedCalls /\ less(d).pc = caller[d].pc
                      /\ less(d).alone = FALSE /\ less(d) # Waiting
    OBVIOUS
  <2>1. caller[d] \in SchedCalls
    BY DEF SchedInv, SchedTypeOK, Busy
  <2>2. less(d) \in SchedCalls /\ less(d).pc = caller[d].pc /\ less(d).alone = FALSE
    BY <2>1 DEF SchedCalls
  <2>3. less(d).pc # "waiting"
    BY <2>1, <2>2 DEF SchedCalls
  <2>4. QED
    BY <2>2, <2>3 DEF Waiting
<1>3. begun.alone <=> \A d \in Callers \ {c} : ~Busy(d)
  OBVIOUS
<1>4. /\ caller'[c] = begun
      /\ \A d \in Callers \ {c} : caller'[d] = IF Busy(d) THEN less(d) ELSE Waiting
      /\ caller' = [d \in Callers |->
           IF d = c THEN begun ELSE IF Busy(d) THEN less(d) ELSE Waiting]
      /\ meddled' = (meddled \/ ~begun.alone)
  BY DEF Command
<1> HIDE DEF begun, less
<1>5. SchedTypeOK'
  BY <1>1, <1>2, <1>4 DEF SchedInv, SchedTypeOK
<1>6. \A d \in Callers \ {c} : (Busy(d)' <=> Busy(d)) /\ ~Lonely(d)'
  BY <1>2, <1>4 DEF Busy, Lonely
<1>7. Busy(c)' /\ caller'[c].pc = pc /\ caller'[c].item = item /\ caller'[c].alone = begun.alone
  BY <1>1, <1>4 DEF Busy
<1>8. Alone'
  BY <1>3, <1>4, <1>6, <1>7 DEF Alone, Lonely
<1>9. \A d \in Callers : SoFar(d)'
  BY <1>6, <1>7 DEF SoFar
<1>10. ~meddled' => ~meddled /\ \A d \in Callers : ~Busy(d) \/ d = c
  BY <1>3, <1>4
<1>11. ~meddled' => ~Removing /\ ~Between
  <2>1. ~Busy(c)
    BY DEF Command
  <2>2. QED
    BY <1>10, <2>1 DEF Removing, Between, Busy, Waiting
<1>12. QED
  BY <1>5, <1>8, <1>9, <1>10, <1>11 DEF SchedInv, Agree

(* A call is over.                                                         *)
LEMMA IsOver ==
  ASSUME SchedInv, NEW c \in Callers, Busy(c), Quit(c), SchedTypeOK',
         meddled' \in {meddled, meddled /\ ~caller[c].alone},
         ~meddled' /\ caller[c].alone =>
           /\ stored' # NoRow /\ "delete" \notin broken' => rule'.target
           /\ broken' = {} => Agree'
  PROVE  SchedInv'
<1>1. /\ caller'[c] = Waiting
      /\ \A d \in Callers \ {c} : caller'[d] = caller[d]
      /\ ~Busy(c)' /\ ~Lonely(c)'
  BY DEF Quit, SchedInv, SchedTypeOK, Busy, Lonely
<1>2. ~meddled' => caller[c].alone /\ \A d \in Callers : ~Busy(d)'
  <2> SUFFICES ASSUME ~meddled' PROVE caller[c].alone /\ \A d \in Callers : ~Busy(d)'
    OBVIOUS
  <2>1. caller[c].alone
    BY DEF SchedInv, Alone, Busy, SchedTypeOK
  <2>2. QED
    BY <1>1, <2>1 DEF SchedInv, Alone, Lonely, Busy
<1>3. Alone'
  BY <1>1, <1>2 DEF SchedInv, Alone, Lonely, Busy
<1>4. \A d \in Callers : SoFar(d)'
  BY <1>1, Meanwhile DEF SoFar
<1>5. QED
  BY <1>2, <1>3, <1>4 DEF SchedInv

(* It succeeds.                                                            *)
LEMMA Succeeds ==
  ASSUME SchedInv, NEW c \in Callers, Busy(c), Succeed(c), rule' = rule,
         stored' \in Row \cup {NoRow},
         caller[c].alone => Agree'
  PROVE  SchedInv'
<1>1. Quit(c) /\ SchedTypeOK'
  BY DEF Succeed, Quit, SchedInv, SchedTypeOK
<1>2. meddled' = (meddled /\ ~caller[c].alone) /\ (caller[c].alone => broken' = {})
  BY DEF Succeed
<1>3. caller[c].alone /\ stored' # NoRow => rule'.target
  BY RowsAndRules DEF Agree
<1>4. QED
  BY <1>1, <1>2, <1>3, IsOver

(* The steps of a call.                                                    *)
LEMMA SaveKeeps ==
  ASSUME SchedInv, NEW c \in Callers, PutRule(c) \/ PutTargets(c) \/ PutRow(c)
  PROVE  SchedInv'
<1> DEFINE item == caller[c].item
<1>1. Busy(c) /\ caller[c] \in SchedCalls /\ item \in Row /\ item # NoRow
  BY RowsAndRules DEF SchedInv, SchedTypeOK, Busy, Waiting, SchedCalls, PutRule, PutTargets, PutRow
<1>2. /\ item = [on |-> item.on, expr |-> item.expr] /\ item.on \in BOOLEAN
      /\ item.expr \in Expressions
  BY <1>1 DEF Row
<1>3. CASE PutRule(c)
  <2>1. /\ rule' = Programmed(item, rule.target) /\ Step(c, "targets")
        /\ stored' = stored /\ meddled' = meddled /\ broken' = broken
    BY <1>3 DEF PutRule, Programmed
  <2>2. [caller[c] EXCEPT !.pc = "targets"] \in SchedCalls
    BY <1>1, <1>3 DEF PutRule, SchedCalls
  <2>3. rule.target \in BOOLEAN
    BY RowsAndRules DEF SchedInv, SchedTypeOK
  <2>4. rule'.target = rule.target
    BY <2>1 DEF Programmed
  <2>5. SchedTypeOK'
    BY <1>2, <2>1, <2>2, <2>3 DEF Step, SchedInv, SchedTypeOK, Programmed
  <2>6. caller'[c].pc = "targets" /\ caller'[c].item = item
    BY <1>1, <2>1 DEF Step, SchedInv, SchedTypeOK, SchedCalls
  <2>7. SoFar(c)'
    BY <2>1, <2>4, <2>6 DEF SoFar
  <2>8. ~meddled => ~Removing
    <3>1. caller[c].pc = "rule"
      BY <1>3 DEF PutRule
    <3>2. QED
      BY <1>1, <3>1 DEF SchedInv, Alone, Lonely, Removing, Busy, Waiting
  <2>9. ~meddled /\ stored # NoRow /\ "delete" \notin broken => rule'.target
    BY <2>4, <2>8 DEF SchedInv
  <2>10. QED
    BY <1>1, <2>1, <2>2, <2>5, <2>7, <2>9, GoesOn
<1>4. CASE PutTargets(c)
  <2>1. /\ rule' = [rule EXCEPT !.target = TRUE] /\ Step(c, "put")
        /\ stored' = stored /\ meddled' = meddled /\ broken' = broken /\ rule # NoRule
    BY <1>4 DEF PutTargets
  <2>2. [caller[c] EXCEPT !.pc = "put"] \in SchedCalls
    BY <1>1, <1>4 DEF PutTargets, SchedCalls
  <2>3. rule'.target
    BY <2>1 DEF SchedInv, SchedTypeOK
  <2>4. SchedTypeOK'
    BY <2>1, <2>2 DEF Step, SchedInv, SchedTypeOK
  <2>5. /\ caller'[c].pc = "put" /\ caller'[c].item = item
        /\ caller'[c].alone = caller[c].alone /\ Busy(c)'
    BY <1>1, <2>1 DEF Step, SchedInv, SchedTypeOK, SchedCalls, Busy, Waiting
  <2>6. caller[c].alone => rule = Programmed(item, rule.target)
    BY <1>1, <1>4 DEF SchedInv, SoFar, Lonely, PutTargets
  <2>7. caller[c].alone => rule' = Programmed(item, TRUE)
    <3>1. ASSUME NEW target, rule = Programmed(item, target)
          PROVE  rule' = Programmed(item, TRUE)
      BY <2>1, <3>1 DEF Programmed
    <3>2. QED
      BY <2>6, <3>1
  <2>9. SoFar(c)'
    BY <2>5, <2>7 DEF SoFar, Lonely
  <2>8. QED
    BY <1>1, <2>1, <2>2, <2>3, <2>4, <2>9, GoesOn
<1>5. CASE PutRow(c)
  <2>1. stored' = item /\ Succeed(c) /\ rule' = rule
    BY <1>5 DEF PutRow
  <2>2. caller[c].alone => rule = Programmed(item, TRUE)
    BY <1>1, <1>5 DEF SchedInv, SoFar, Lonely, PutRow
  <2>3. caller[c].alone => Agree'
    BY <1>1, <2>1, <2>2 DEF Agree
  <2>4. QED
    BY <1>1, <2>1, <2>3, Succeeds
<1>6. QED
  BY <1>3, <1>4, <1>5

LEMMA RemoveKeeps ==
  ASSUME SchedInv, NEW c \in Callers, RemoveTargets(c) \/ DeleteRule(c) \/ DeleteRow(c)
  PROVE  SchedInv'
<1>1. Busy(c) /\ caller[c] \in SchedCalls /\ caller[c].item = NoRow
  BY DEF SchedInv, SchedTypeOK, Busy, Waiting, SchedCalls, RemoveTargets, DeleteRule, DeleteRow
<1>2. rule.target \in BOOLEAN
  BY RowsAndRules DEF SchedInv, SchedTypeOK
<1>3. CASE RemoveTargets(c)
  <2>1. PICK pc \in {"row", "unrule"} : Step(c, pc) /\ (pc = "row" <=> rule = NoRule)
    BY <1>3 DEF RemoveTargets
  <2>2. /\ rule' = [rule EXCEPT !.target = FALSE]
        /\ stored' = stored /\ meddled' = meddled /\ broken' = broken
    BY <1>3 DEF RemoveTargets
  <2>3. [caller[c] EXCEPT !.pc = pc] \in SchedCalls
    BY <1>1, <1>3 DEF RemoveTargets, SchedCalls
  <2>4. rule = NoRule => rule' = NoRule
    BY <2>2, NothingToUntarget
  <2>5. rule # NoRule =>
          /\ rule' \in [on : BOOLEAN, expr : Expressions, target : BOOLEAN]
          /\ rule'.target = FALSE
    BY <2>2 DEF SchedInv, SchedTypeOK
  <2>6. SchedTypeOK'
    BY <2>1, <2>2, <2>3, <2>4, <2>5 DEF Step, SchedInv, SchedTypeOK
  <2>7. caller'[c].pc = pc
    BY <1>1, <2>1 DEF Step, SchedInv, SchedTypeOK, SchedCalls
  <2>8. SoFar(c)'
    BY <2>1, <2>4, <2>5, <2>7 DEF SoFar
  <2>9. pc \in {"targets", "put", "unrule", "row"}
    OBVIOUS
  <2>10. ~meddled => (stored # NoRow /\ pc \notin {"unrule", "row"} => rule'.target)
    OBVIOUS
  <2>11. QED
    BY <1>1, <2>1, <2>2, <2>3, <2>6, <2>8, <2>9, <2>10, GoesOn
<1>4. CASE DeleteRule(c)
  <2>1. /\ rule' = NoRule /\ Step(c, "row")
        /\ stored' = stored /\ meddled' = meddled /\ broken' = broken
    BY <1>4 DEF DeleteRule
  <2>2. [caller[c] EXCEPT !.pc = "row"] \in SchedCalls
    BY <1>1, <1>4 DEF DeleteRule, SchedCalls
  <2>3. SchedTypeOK'
    BY <2>1, <2>2 DEF Step, SchedInv, SchedTypeOK
  <2>4. caller'[c].pc = "row"
    BY <1>1, <2>1 DEF Step, SchedInv, SchedTypeOK, SchedCalls
  <2>5. SoFar(c)'
    BY <2>1, <2>4 DEF SoFar
  <2>6. QED
    BY <1>1, <2>1, <2>2, <2>3, <2>5, GoesOn
<1>5. CASE DeleteRow(c)
  <2>1. stored' = NoRow /\ Succeed(c) /\ rule' = rule
    BY <1>5 DEF DeleteRow
  <2>2. caller[c].alone => rule = NoRule
    BY <1>1, <1>5 DEF SchedInv, SoFar, Lonely, DeleteRow
  <2>3. caller[c].alone => Agree'
    BY <2>1, <2>2 DEF Agree
  <2>4. QED
    BY <1>1, <2>1, <2>3, Succeeds
<1>6. QED
  BY <1>3, <1>4, <1>5

LEMMA PutFireKeeps ==
  ASSUME SchedInv, NEW c \in Callers, PutFire(c)
  PROVE  SchedInv'
<1>1. /\ caller[c].pc = "note" /\ stored' = caller[c].item /\ Quit(c)
      /\ rule' = rule /\ meddled' = meddled /\ broken' = broken
  BY DEF PutFire
<1>2. Busy(c) /\ caller[c] \in SchedCalls /\ caller[c].item \in Row
  BY <1>1 DEF SchedInv, SchedTypeOK, Busy, Waiting, SchedCalls
<1>3. SchedTypeOK'
  BY <1>1, <1>2 DEF Quit, SchedInv, SchedTypeOK
<1>4. caller[c].alone => stored' = stored /\ ~Between /\ ~Removing
  <2> SUFFICES ASSUME caller[c].alone PROVE stored' = stored /\ ~Between /\ ~Removing
    OBVIOUS
  <2>1. \A d \in Callers \ {c} : caller[d].pc = "waiting"
    BY <1>2 DEF SchedInv, Alone, Lonely, Busy, Waiting
  <2>2. stored = caller[c].item
    BY <1>1, <1>2 DEF SchedInv, SoFar, Lonely
  <2>3. QED
    BY <1>1, <2>1, <2>2 DEF Between, Removing
<1>5. QED
  BY <1>1, <1>2, <1>3, <1>4, IsOver DEF SchedInv, Agree

LEMMA OutageKeeps ==
  ASSUME SchedInv, NEW c \in Callers, Outage(c)
  PROVE  SchedInv'
<1>1. /\ Busy(c) /\ Quit(c) /\ broken' = broken \cup HalfDone(caller[c].pc)
      /\ stored' = stored /\ rule' = rule /\ meddled' = meddled
  BY DEF Outage
<1>2. caller[c] \in SchedCalls
  BY <1>1 DEF SchedInv, SchedTypeOK, Busy
<1>3. /\ HalfDone(caller[c].pc) \subseteq {"save", "delete"}
      /\ caller[c].pc \in {"unrule", "row"} => "delete" \in broken'
      /\ caller[c].pc \in {"targets", "put"} => "save" \in broken'
  BY <1>1 DEF HalfDone
<1>4. SchedTypeOK'
  BY <1>1, <1>3 DEF Quit, SchedInv, SchedTypeOK
<1>5. caller[c].alone => \A d \in Callers \ {c} : caller[d].pc = "waiting"
  BY <1>1 DEF SchedInv, Alone, Lonely, Busy, Waiting
<1>6. caller[c].alone =>
        /\ "delete" \notin broken' => ~Removing /\ "delete" \notin broken
        /\ broken' = {} => ~Between /\ broken = {}
  BY <1>1, <1>3, <1>5 DEF Removing, Between
<1>7. QED
  BY <1>1, <1>4, <1>6, IsOver DEF SchedInv, Agree

LEMMA SchedInitInv == SchedInit => SchedInv
<1> SUFFICES ASSUME SchedInit PROVE SchedInv
  OBVIOUS
<1>1. \A c \in Callers : ~Busy(c) /\ caller[c].pc = "waiting"
  BY DEF SchedInit, Busy, Waiting
<1>2. SchedTypeOK
  BY DEF SchedInit, SchedTypeOK
<1>3. Agree /\ stored = NoRow
  BY DEF Agree, SchedInit
<1>4. QED
  BY <1>1, <1>2, <1>3 DEF SchedInv, Alone, Lonely, SoFar

LEMMA SchedInvKept == SchedInv /\ [SchedNext]_schedVars => SchedInv'
<1> SUFFICES ASSUME SchedInv, [SchedNext]_schedVars PROVE SchedInv'
  OBVIOUS
<1>1. CASE UNCHANGED schedVars
  BY <1>1 DEF schedVars, SchedInv, SchedTypeOK, Alone, SoFar, Lonely, Busy, Agree, Between, Removing
<1>2. ASSUME NEW c \in Callers, NEW expr \in Expressions, NEW on \in BOOLEAN, BeginSave(c, expr, on)
      PROVE  SchedInv'
  <2>1. [on |-> on, expr |-> expr] \in Row
    BY DEF Row
  <2>2. QED
    BY <1>2, <2>1, Begins DEF BeginSave
<1>3. ASSUME NEW c \in Callers, NEW on \in BOOLEAN, BeginSwitch(c, on) PROVE SchedInv'
  <2>1. [stored EXCEPT !.on = on] \in Row
    BY <1>3 DEF BeginSwitch, SchedInv, SchedTypeOK, Row
  <2>2. QED
    BY <1>3, <2>1, Begins DEF BeginSwitch
<1>4. ASSUME NEW c \in Callers, BeginRemove(c) PROVE SchedInv'
  BY <1>4, Begins DEF BeginRemove
<1>5. ASSUME NEW c \in Callers, ReadForFire(c) PROVE SchedInv'
  <2>1. stored \in Row
    BY <1>5 DEF ReadForFire, SchedInv, SchedTypeOK
  <2>2. QED
    BY <1>5, <2>1, Begins DEF ReadForFire
<1>6. CASE SchedNext
  BY <1>2, <1>3, <1>4, <1>5, <1>6, SaveKeeps, RemoveKeeps, PutFireKeeps, OutageKeeps DEF SchedNext
<1>7. QED
  BY <1>1, <1>6

THEOREM ScheduleInvariant == SchedSpec => []SchedInv
<1>1. QED
  BY SchedInitInv, SchedInvKept, PTL DEF SchedSpec

(* Between calls that do not overlap, a stored schedule can fire: its rule *)
(* has the worker as its target, and once nobody is at it and the last     *)
(* call succeeded, rule and row agree.                                     *)
THEOREM StoredSchedulesFire == SchedSpec => []StoredFires
<1>1. SchedInv => StoredFires
  <2> SUFFICES ASSUME SchedInv, Quiescent PROVE ~Between
    BY DEF SchedInv, StoredFires
  <2>1. QED
    BY DEF Between, Quiescent, Busy, Waiting
<1>2. QED
  BY <1>1, ScheduleInvariant, PTL

-----------------------------------------------------------------------------
(* The webhook: its constants.                                             *)

LEMMA StepsOfHook ==
    /\ Len(WrapperOf) \in Nat /\ HookSteps = 1..Len(WrapperOf)
    /\ \A s \in HookSteps : WrapperOf[s] \in Nat
    /\ \A r \in Requests : r \notin {"worker", "none", "over", "done"}
    /\ \A r \in Runners : r \notin {"none", "over", "done"}
BY HookAssumption DEF HookSteps, Runners

(* There is a step behind a step and its body, or the chain's end.         *)
LEMMA PastIsPast ==
  ASSUME NEW s \in HookSteps
  PROVE  /\ Past(s) \in s + 1 .. Len(WrapperOf) + 1
         /\ \A u \in s + 1 .. Past(s) - 1 : u \in HookSteps /\ WrapperOf[u] = s
<1> DEFINE n == Len(WrapperOf)
           T == {t \in s + 1 .. n + 1 : t \in HookSteps => WrapperOf[t] # s}
           Below == OpToRel(<, Nat)
<1>1. n \in Nat /\ s \in 1..n /\ HookSteps = 1..n
  BY StepsOfHook
<1>2. T \subseteq Nat /\ n + 1 \in T
  BY <1>1
<1>3. PICK m \in T : \A t \in T : ~(<<t, m>> \in Below)
  <2> HIDE DEF T
  <2>1. IsWellFoundedOn(Below, Nat)
    BY NatLessThanWellFounded
  <2> HIDE DEF Below
  <2>2. QED
    BY <1>2, <2>1, WFMin, Zenon
<1>4. \A t \in T : ~(t < m)
  BY <1>2, <1>3 DEF OpToRel
<1>5. \A u \in s + 1 .. m - 1 : u \in HookSteps /\ WrapperOf[u] = s
  <2> SUFFICES ASSUME NEW u \in s + 1 .. m - 1 PROVE u \in HookSteps /\ WrapperOf[u] = s
    OBVIOUS
  <2>1. u \in s + 1 .. n + 1 /\ u < m /\ u # n + 1
    <3>1. m \in s + 1 .. n + 1
      BY <1>3
    <3> HIDE DEF T, n
    <3>2. QED
      BY <1>1, <3>1
  <2>2. u \notin T
    BY <1>4, <2>1
  <2>3. QED
    BY <2>1, <2>2
<1>6. \E t \in s + 1 .. Len(WrapperOf) + 1 :
        /\ t \in HookSteps => WrapperOf[t] # s
        /\ \A u \in s + 1 .. t - 1 : WrapperOf[u] = s
  BY <1>3, <1>5
<1>7. /\ Past(s) \in s + 1 .. n + 1
      /\ \A u \in s + 1 .. Past(s) - 1 : WrapperOf[u] = s
  BY <1>6 DEF Past
<1>8. \A u \in s + 1 .. Past(s) - 1 : u \in HookSteps
  BY <1>1, <1>7
<1>9. QED
  BY <1>7, <1>8

-----------------------------------------------------------------------------
(* The webhook: one call moves.                                            *)

HookCalls == {Away} \cup Calls
Pcs == {"claim", "reread", "reclaim", "match", "walk", "act", "mark", "publish", "release",
        "forget", "sorry"}
Claimed == {"match", "walk", "act", "mark", "publish", "release", "forget"}

(* A call that is not away is a call.                                      *)
LEMMA Called ==
  ASSUME HookTypeOK, NEW r \in Runners
  PROVE  /\ call[r] = Away => call[r].pc = "idle"
         /\ call[r].pc # "idle" => call[r] # Away
         /\ call[r] # Away =>
              /\ call[r] \in Calls /\ call[r].pc \in Pcs /\ Key(r) \in Keys
              /\ call[r].step \in 1..(Len(WrapperOf) + 1) /\ call[r].step \in Nat
              /\ call[r].inside \in HookSteps \cup {0} /\ call[r].read \subseteq Keys
<1>1. call[r] \in {Away} \cup Calls /\ Away.pc = "idle"
  BY DEF HookTypeOK, Away
<1>2. ASSUME NEW x \in Calls
      PROVE  /\ x.pc \in Pcs /\ x.key \in Keys /\ x.inside \in HookSteps \cup {0}
             /\ x.step \in 1..(Len(WrapperOf) + 1) /\ x.read \subseteq Keys
  BY DEF Calls, Pcs
<1>3. \A x \in 1..(Len(WrapperOf) + 1) : x \in Nat
  BY StepsOfHook
<1>4. QED
  BY <1>1, <1>2, <1>3 DEF Key

\* One call moves.
Moved(r) == call' \in [Runners -> HookCalls] /\ \A d \in Runners \ {r} : call'[d] = call[d]

LEMMA RunnerMoves ==
  ASSUME HookTypeOK, NEW r \in Runners, NEW state \in HookCalls, call' = [call EXCEPT ![r] = state]
  PROVE  Moved(r) /\ call'[r] = state
BY DEF HookTypeOK, Moved, HookCalls

(* What the others know stands while no effect is undone, nobody writes    *)
(* their leases and no entry expires.                                      *)
OthersHold(r) ==
    /\ \A k \in Keys, s \in HookSteps : effects[k][s] > 0 => effects'[k][s] > 0
    /\ \A d \in Runners \ {r}, k \in Keys, s \in HookSteps : record[k][s] = d => record'[k][s] = d
    /\ \A k \in Keys : entry'[k] = "stale" => entry[k] = "stale"

LEMMA OneCallMoves ==
  ASSUME HookInv, NEW r \in Runners, Moved(r), OthersHold(r),
         HookTypeOK', EffectOnce', AcceptedIsServed', EffectsRecorded', LiveOwned',
         Leases(r)', Ran(r)', ReadSet(r)', r = "worker" => WorkerWalks'
  PROVE  HookInv'
<1>1. ASSUME NEW d \in Runners, d # r
      PROVE  Leases(d)' /\ Ran(d)' /\ ReadSet(d)'
  <2>1. call'[d] = call[d] /\ Leases(d) /\ Ran(d) /\ ReadSet(d) /\ HookTypeOK
    BY <1>1 DEF Moved, HookInv
  <2>2. call[d] # Away =>
          /\ Key(d) \in Keys /\ call[d].read \subseteq Keys
          /\ call[d].inside \in HookSteps \cup {0}
    BY <2>1, Called
  <2>3. Walking(d) => call[d] # Away
    BY <2>1, Called DEF Walking
  <2>4. Leases(d)'
    <3> SUFFICES ASSUME Walking(d)' PROVE Leases(d)'
      BY DEF Leases
    <3>1. Walking(d) /\ call[d] # Away
      BY <2>1, <2>3 DEF Walking
    <3>2. call[d].inside # 0 => record'[Key(d)][call[d].inside] = d
      BY <1>1, <2>1, <2>2, <3>1 DEF Leases, OthersHold
    <3>3. call[d].pc \in {"act", "mark"} => record'[Key(d)][call[d].step] = d
      BY <1>1, <2>1, <2>2, <3>1 DEF Leases, OthersHold, Rec
    <3>4. QED
      BY <2>1, <3>1, <3>2, <3>3 DEF Leases, Key, Rec
  <2>5. Ran(d)'
    <3>1. Walking(d) /\ ~call[d].skipped => RanUpTo(Key(d), call[d].step)'
      BY <2>1, <2>2, <2>3 DEF Ran, RanUpTo, OthersHold, Key
    <3>2. QED
      BY <2>1, <3>1 DEF Ran, Walking, Key
  <2>6. ReadSet(d)'
    BY <2>1, <2>2 DEF ReadSet, OthersHold, Key
  <2>7. QED
    BY <2>4, <2>5, <2>6
<1>2. WorkerWalks'
  <2>1. CASE r # "worker"
    <3>1. call'["worker"] = call["worker"]
      BY <2>1 DEF Moved, Runners
    <3>2. QED
      BY <3>1 DEF HookInv, WorkerWalks, Walking
  <2>2. QED
    BY <2>1
<1>3. QED
  BY <1>1, <1>2 DEF HookInv

(* The mover has run the step and not recorded it.                         *)
Unmarked(r, k, s) == At(r, "mark") /\ Key(r) = k /\ call[r].step = s

(* Whether a step is taken changes with its record, or with a mover that   *)
(* has run it.                                                             *)
LEMMA TookStays ==
  ASSUME NEW r \in Runners, Moved(r), NEW k \in Keys, NEW s \in HookSteps,
         record'[k][s] = record[k][s] \/ {record[k][s], record'[k][s]} \subseteq {"none", "over", r},
         ~Unmarked(r, k, s), ~Unmarked(r, k, s)'
  PROVE  Took(k, s)' <=> Took(k, s)
<1>1. \A d \in Runners \ {r} : call'[d] = call[d] /\ d \notin {"none", "over", "done", r}
  BY StepsOfHook DEF Moved
<1>2. r \notin {"none", "over", "done"}
  BY StepsOfHook
<1>3. record'[k][s] = "done" <=> record[k][s] = "done"
  BY <1>2
<1>4. \A d \in Runners \ {r} : record'[k][s] = d <=> record[k][s] = d
  BY <1>1
<1>5. \A d \in Runners :
         (At(d, "mark") /\ Key(d) = k /\ call[d].step = s /\ record[k][s] = d)
           <=> (At(d, "mark") /\ Key(d) = k /\ call[d].step = s /\ record[k][s] = d)'
  <2> SUFFICES ASSUME NEW d \in Runners
               PROVE  (At(d, "mark") /\ Key(d) = k /\ call[d].step = s /\ record[k][s] = d)
                        <=> (At(d, "mark") /\ Key(d) = k /\ call[d].step = s /\ record[k][s] = d)'
    OBVIOUS
  <2>1. CASE d = r
    BY <2>1 DEF Unmarked
  <2>2. CASE d # r
    BY <1>1, <1>4, <2>2 DEF At, Key
  <2>3. QED
    BY <2>1, <2>2
<1>6. IsBranch(s)' <=> IsBranch(s)
  BY DEF IsBranch
<1>7. QED
  BY <1>3, <1>5, <1>6 DEF Took

(* A step that takes and records no effect.                                *)
LEMMA StillRecorded ==
  ASSUME HookInv, NEW r \in Runners, Moved(r), UNCHANGED <<effects, unrecorded>>,
         ~At(r, "mark"), ~At(r, "mark")',
         \A k \in Keys, s \in HookSteps :
            \/ record'[k][s] = record[k][s]
            \/ {record[k][s], record'[k][s]} \subseteq {"none", "over", r}
  PROVE  EffectOnce' /\ EffectsRecorded'
<1>1. \A k \in Keys, s \in HookSteps : ~Unmarked(r, k, s) /\ ~Unmarked(r, k, s)'
  BY DEF Unmarked
<1>2. \A k \in Keys, s \in HookSteps : Took(k, s)' <=> Took(k, s)
  BY <1>1, TookStays
<1>3. QED
  BY <1>2 DEF HookInv, EffectOnce, EffectsRecorded

(* A step that runs nothing, and serves only what is queued or done.       *)
LEMMA NothingRuns ==
  ASSUME HookInv, UNCHANGED walk, NEW r \in Runners, Moved(r), ~At(r, "mark"), ~At(r, "mark")',
         \A k \in served' :
            \/ k \in served /\ (k \in queued => k \in queued')
            \/ k \in queued'
            \/ RanUpTo(k, Len(WrapperOf) + 1)
  PROVE  /\ EffectOnce' /\ EffectsRecorded' /\ AcceptedIsServed'
         /\ \A k : \A n : RanUpTo(k, n)' <=> RanUpTo(k, n)
<1>1. record' = record /\ effects' = effects /\ unrecorded' = unrecorded
  BY DEF walk
<1>2. AcceptedIsServed'
  <2> SUFFICES ASSUME NEW k \in served', k \notin queued',
                      NEW s \in HookSteps, WrapperOf[s] = 0, ~IsBranch(s)
               PROVE  effects'[k][s] > 0
    BY DEF AcceptedIsServed, IsBranch
  <2>1. CASE k \in served /\ k \notin queued
    BY <1>1, <2>1 DEF HookInv, AcceptedIsServed
  <2>2. CASE RanUpTo(k, Len(WrapperOf) + 1)
    <3>1. s < Len(WrapperOf) + 1
      BY StepsOfHook
    <3>2. QED
      BY <1>1, <2>2, <3>1 DEF RanUpTo
  <2>3. QED
    BY <2>1, <2>2
<1>3. EffectOnce' /\ EffectsRecorded'
  BY <1>1, StillRecorded
<1>4. QED
  BY <1>1, <1>2, <1>3 DEF RanUpTo, IsBranch

(* One that is away knows nothing.                                         *)
LEMMA AwayKnows ==
  ASSUME NEW r, call'[r] = Away
  PROVE  Leases(r)' /\ Ran(r)' /\ ReadSet(r)' /\ (r = "worker" => WorkerWalks')
<1>1. call'[r].pc = "idle"
  BY DEF Away
<1>2. QED
  BY <1>1 DEF Leases, Ran, ReadSet, WorkerWalks, Walking

(* A call outside its walk only holds a set.                               *)
LEMMA OutsideKnows ==
  ASSUME NEW r \in Requests,
            \/ call'[r].pc \in {"publish", "release", "forget", "sorry"}
            \/ call'[r].pc \in {"claim", "reread", "reclaim", "match"} /\ call'[r].step = 1 /\ call'[r].inside = 0
  PROVE  Leases(r)' /\ Ran(r)' /\ (r = "worker" => WorkerWalks')
<1>1. ~Walking(r)' /\ r # "worker"
  BY StepsOfHook DEF Walking
<1>2. QED
  BY <1>1 DEF Leases, Ran

(* The claims of the others stand.                                         *)
LEMMA ClaimsStand ==
  ASSUME HookInv, NEW r \in Runners, Moved(r), served \subseteq served', torn \subseteq torn',
         NEW k \in Live, k \in served \cup torn \/ \E d \in Requests : Owns(d, k),
         r \in Requests /\ Owns(r, k) => k \in served' \cup torn' \/ Owns(r, k)'
  PROVE  k \in served' \cup torn' \/ \E d \in Requests : Owns(d, k)'
<1>1. CASE k \in served \cup torn
  BY <1>1
<1>2. CASE \E d \in Requests : Owns(d, k)
  <2>1. PICK d \in Requests : Owns(d, k)
    BY <1>2
  <2>2. CASE d = r
    BY <2>1, <2>2
  <2>3. CASE d # r
    <3>1. call'[d] = call[d]
      BY <2>3 DEF Moved, Runners
    <3>2. Owns(d, k)'
      BY <2>1, <3>1 DEF Owns, Key
    <3>3. QED
      BY <3>2
  <2>4. QED
    BY <2>2, <2>3
<1>3. QED
  BY <1>1, <1>2

(* Entries that stand, or that the mover claims, are owned.                *)
LEMMA EntriesStand ==
  ASSUME HookInv, NEW r \in Runners, Moved(r), served \subseteq served', torn \subseteq torn',
         \A k \in Keys : entry'[k] = "live" => entry[k] = "live" \/ (r \in Requests /\ Owns(r, k)'),
         \A k \in Live : r \in Requests /\ Owns(r, k) =>
            k \in served' \cup torn' \/ Owns(r, k)' \/ entry'[k] # "live"
  PROVE  LiveOwned'
<1> SUFFICES ASSUME NEW k \in Keys, entry'[k] = "live"
             PROVE  k \in served' \cup torn' \/ \E d \in Requests : Owns(d, k)'
  BY DEF LiveOwned, Live
<1>1. CASE r \in Requests /\ Owns(r, k)'
  BY <1>1
<1>2. CASE entry[k] = "live"
  <2>1. k \in Live
    BY <1>2 DEF Live
  <2>2. k \in served \cup torn \/ \E d \in Requests : Owns(d, k)
    BY <2>1 DEF HookInv, LiveOwned
  <2>3. r \in Requests /\ Owns(r, k) => k \in served' \cup torn' \/ Owns(r, k)'
    BY <2>1
  <2>4. QED
    BY <2>1, <2>2, <2>3, ClaimsStand
<1>3. QED
  BY <1>1, <1>2

(* The answer to the provider is one of its words.                         *)
LEMMA OutcomeTold ==
  ASSUME HookTypeOK, NEW r \in Runners, call[r] # Away, NEW answer \in {"failed", "accepted"},
         Tell(r, answer)
  PROVE  provider' \in [Keys -> {"unsent", "waiting", "failed", "accepted"}]
<1>1. call[r].key \in Keys
  BY Called DEF Key
<1>2. QED
  BY <1>1 DEF Tell, HookTypeOK

(* A call that only goes on.                                               *)
LEMMA GoesAhead ==
  ASSUME HookTypeOK, NEW r \in Runners, call[r] # Away, NEW pc \in Pcs, Goto(r, pc)
  PROVE  /\ Moved(r) /\ call'[r] \in Calls /\ call'[r] = [call[r] EXCEPT !.pc = pc]
         /\ call'[r].pc = pc /\ Key(r)' = Key(r) /\ call'[r].read = call[r].read
         /\ call'[r].step = call[r].step /\ call'[r].inside = call[r].inside
         /\ call'[r].late = call[r].late /\ call'[r].skipped = call[r].skipped
<1>1. call[r] \in Calls
  BY Called
<1> DEFINE state == [call[r] EXCEPT !.pc = pc]
<1>2. /\ state \in Calls /\ state.pc = pc /\ state.key = call[r].key /\ state.read = call[r].read
      /\ state.step = call[r].step /\ state.inside = call[r].inside
      /\ state.late = call[r].late /\ state.skipped = call[r].skipped
  BY <1>1 DEF Calls, Pcs
<1>3. call' = [call EXCEPT ![r] = state]
  BY DEF Goto
<1> HIDE DEF state
<1>4. Moved(r) /\ call'[r] = state
  BY <1>2, <1>3, RunnerMoves DEF HookCalls
<1>5. QED
  BY <1>2, <1>4 DEF Key, state

(* A set that is put back holds what its writer read.                      *)
LEMMA PutSetDoes ==
  ASSUME HookTypeOK, NEW entries \in SUBSET Keys, NEW added \in SUBSET Keys, PutSet(entries, added)
  PROVE  /\ entry' \in [Keys -> {"none", "live", "stale"}] /\ torn' \subseteq Keys
         /\ torn \subseteq torn'
         /\ \A k \in Keys : entry'[k] # "stale"
         /\ \A k \in Keys : entry'[k] = "live" <=> k \in entries \cup added
         /\ \A k \in entries : entry[k] \in {"live", "stale"} \/ k \in torn'
BY DEF PutSet, HookTypeOK

-----------------------------------------------------------------------------
(* The webhook: the claim.                                                 *)

LEMMA SendKeeps ==
  ASSUME HookInv, NEW r \in Requests, NEW k \in Keys, SendDelivery(k, r)
  PROVE  HookInv'
<1> DEFINE state == Serving(k)
<1>1. r \in Runners /\ HookTypeOK
  BY DEF HookInv, Runners
<1>2. sent' = sent + 1 /\ sent < MaxTries /\ sent \in Nat /\ MaxTries \in Nat /\ tries[k] \in 0..sent
  BY <1>1, HookAssumption DEF SendDelivery, HookTypeOK
<1>3. /\ state \in Calls /\ state.pc = "claim" /\ state.step = 1 /\ state.inside = 0
      /\ state.read = {}
  BY <1>2, StepsOfHook DEF Serving, Calls
<1>4. call' = [call EXCEPT ![r] = state]
  BY DEF SendDelivery
<1> HIDE DEF state
<1>5. Moved(r) /\ call'[r] = state
  BY <1>1, <1>3, <1>4, RunnerMoves DEF HookCalls
<1>6. /\ UNCHANGED walk /\ served' = served /\ queued' = queued /\ torn' = torn /\ entry' = entry
      /\ response' = response
  BY DEF SendDelivery
<1>7. tries' \in [Keys -> 0..sent'] /\ sent' \in 0..MaxTries
  BY <1>1, <1>2 DEF SendDelivery, HookTypeOK
<1>8. provider' \in [Keys -> {"unsent", "waiting", "failed", "accepted"}]
  BY <1>1 DEF SendDelivery, HookTypeOK
<1>9. HookTypeOK'
  BY <1>1, <1>5, <1>6, <1>7, <1>8 DEF HookTypeOK, Moved, HookCalls, walk
<1>10. call[r].pc = "idle"
  BY <1>1, Called DEF SendDelivery
<1>11. OthersHold(r)
  BY <1>6 DEF OthersHold, walk
<1>12. EffectOnce' /\ EffectsRecorded' /\ AcceptedIsServed'
  BY <1>1, <1>3, <1>5, <1>6, <1>10, NothingRuns DEF At
<1>13. LiveOwned'
  BY <1>1, <1>5, <1>6, <1>10, EntriesStand DEF Owns
<1>14. ReadSet(r)'
  BY <1>3, <1>5 DEF ReadSet
<1>15. Leases(r)' /\ Ran(r)' /\ (r = "worker" => WorkerWalks')
  BY <1>3, <1>5, OutsideKnows
<1>16. QED
  BY <1>1, <1>5, <1>9, <1>11, <1>12, <1>13, <1>14, <1>15, OneCallMoves

(* A request that is under way, and runs no step.                          *)
LEMMA RequestKeeps ==
  ASSUME HookInv, NEW r \in Requests, call[r] # Away, Moved(r), ~At(r, "mark"), ~At(r, "mark")',
         UNCHANGED <<response, walk, tries, sent>>,
         provider' \in [Keys -> {"unsent", "waiting", "failed", "accepted"}],
         entry' \in [Keys -> {"none", "live", "stale"}],
         torn' \subseteq Keys, torn \subseteq torn', served' \subseteq Keys, served \subseteq served',
         queued' \subseteq Keys, queued \subseteq queued',
         \A k \in served' : k \in served \/ k \in queued' \/ RanUpTo(k, Len(WrapperOf) + 1),
         \A k \in Keys : entry'[k] = "stale" => entry[k] = "stale",
         LiveOwned', Leases(r)', Ran(r)', ReadSet(r)'
  PROVE  HookInv'
<1>1. r \in Runners /\ HookTypeOK /\ r # "worker"
  BY StepsOfHook DEF HookInv, Runners
<1>2. HookTypeOK'
  BY <1>1 DEF HookTypeOK, Moved, HookCalls, walk
<1>3. EffectOnce' /\ EffectsRecorded' /\ AcceptedIsServed'
  BY <1>1, NothingRuns
<1>4. OthersHold(r)
  BY DEF OthersHold, walk
<1>5. QED
  BY <1>1, <1>2, <1>3, <1>4, OneCallMoves

(* One that goes on outside its walk and leaves the entries alone.         *)
LEMMA GoesKeeps ==
  ASSUME HookInv, NEW r \in Requests, call[r] # Away, NEW pc \in Pcs, Goto(r, pc),
         call[r].pc # "mark",
         UNCHANGED <<response, walk, tries, sent, entry, queued, served, torn, provider>>,
         \/ pc \in {"publish", "release", "sorry"}
         \/ pc = "reread" /\ call[r].pc = "claim"
         \/ pc \in {"match", "walk"} /\ call[r].pc \in {"claim", "reread", "reclaim", "match"},
         call[r].pc \in Claimed => pc \in Claimed \/ entry[Key(r)] # "live"
  PROVE  HookInv'
<1>1. r \in Runners /\ HookTypeOK
  BY DEF HookInv, Runners
<1>2. /\ Moved(r) /\ call'[r] \in Calls /\ call'[r].pc = pc /\ Key(r)' = Key(r)
      /\ call'[r].read = call[r].read /\ call'[r].step = call[r].step
      /\ call'[r].inside = call[r].inside
  BY <1>1, GoesAhead
<1>3. ReadSet(r)'
  BY <1>1, <1>2 DEF ReadSet, HookInv
<1>4. Leases(r)' /\ Ran(r)'
  <2>1. CASE pc \in {"publish", "release", "sorry"}
    BY <1>2, <2>1, OutsideKnows
  <2>2. CASE pc = "reread" /\ call[r].pc = "claim"
    <3>1. call[r].step = 1 /\ call[r].inside = 0
      BY <1>1, <2>2 DEF HookInv, Ran
    <3>2. QED
      BY <1>2, <2>2, <3>1, OutsideKnows
  <2>3. CASE pc \in {"match", "walk"} /\ call[r].pc \in {"claim", "reread", "reclaim", "match"}
    <3>1. call[r].step = 1 /\ call[r].inside = 0
      BY <1>1, <2>3 DEF HookInv, Ran
    <3>2. \A k : RanUpTo(k, 1)'
      BY StepsOfHook DEF RanUpTo
    <3>3. call'[r].step = 1 /\ call'[r].inside = 0 /\ call'[r].pc \in {"match", "walk"}
      BY <1>2, <2>3, <3>1
    <3>4. RanUpTo(Key(r), call[r].step)'
      BY <3>2, <3>3
    <3>5. Leases(r)'
      BY <3>3 DEF Leases
    <3>6. Ran(r)'
      BY <3>3, <3>4 DEF Ran
    <3>7. QED
      BY <3>5, <3>6
  <2>4. QED
    BY <2>1, <2>2, <2>3
<1>5. LiveOwned'
  <2>1. \A k \in Live : Owns(r, k) => Owns(r, k)'
    BY <1>2 DEF Owns, Claimed, Live
  <2>2. QED
    BY <1>1, <1>2, <2>1, EntriesStand
<1>6. provider \in [Keys -> {"unsent", "waiting", "failed", "accepted"}]
  BY <1>1 DEF HookTypeOK
<1>7. QED
  BY <1>1, <1>2, <1>3, <1>4, <1>5, <1>6, RequestKeeps DEF HookTypeOK, At

(* One that answers and leaves.                                            *)
LEMMA LeavesKeeps ==
  ASSUME HookInv, NEW r \in Requests, call[r] # Away, call' = [call EXCEPT ![r] = Away],
         NEW answer \in {"failed", "accepted"}, Tell(r, answer), call[r].pc # "mark",
         UNCHANGED <<response, walk, tries, sent, entry, torn>>,
         served' \subseteq Keys, served \subseteq served', queued' \subseteq Keys, queued \subseteq queued',
         \A k \in served' : k \in served \/ k \in queued' \/ RanUpTo(k, Len(WrapperOf) + 1),
         call[r].pc \in Claimed => Key(r) \in served'
  PROVE  HookInv'
<1>1. r \in Runners /\ HookTypeOK
  BY DEF HookInv, Runners
<1>2. Moved(r) /\ call'[r] = Away
  BY <1>1, RunnerMoves DEF HookCalls
<1>3. provider' \in [Keys -> {"unsent", "waiting", "failed", "accepted"}]
  BY <1>1, OutcomeTold
<1>4. LiveOwned'
  <2>1. \A k \in Live : Owns(r, k) => k \in served'
    BY DEF Owns, Claimed
  <2>2. QED
    BY <1>1, <1>2, <2>1, EntriesStand
<1>5. Leases(r)' /\ Ran(r)' /\ ReadSet(r)'
  BY <1>2, AwayKnows
<1>6. ~At(r, "mark") /\ ~At(r, "mark")'
  BY <1>2 DEF At, Away
<1>7. QED
  BY <1>1, <1>2, <1>3, <1>4, <1>5, <1>6, RequestKeeps DEF HookTypeOK

(* One that has written the entries, and goes on.                          *)
LEMMA ClaimingKeeps ==
  ASSUME HookInv, NEW r \in Requests,
         \/ ClaimDelivery(r) \/ ClaimMisses(r) \/ Duplicate(r)
         \/ Reread(r) \/ Reclaim(r) \/ ClaimFails(r)
  PROVE  HookInv'
<1>1. r \in Runners /\ HookTypeOK /\ call[r].pc \in {"claim", "reread", "reclaim"}
  BY DEF HookInv, Runners, ClaimDelivery, ClaimMisses, Duplicate, Reread, Reclaim, ClaimFails, At
<1>2. /\ call[r] # Away /\ call[r] \in Calls /\ Key(r) \in Keys /\ call[r].read \subseteq Keys
      /\ call[r].step = 1 /\ call[r].inside = 0
      /\ ReadSet(r)
  BY <1>1, Called DEF HookInv, Ran
<1>3. AfterClaim(r) \in {"match", "publish"}
  BY DEF AfterClaim
<1>4. \A k : ~Owns(r, k)
  BY <1>1 DEF Owns
<1>5. provider \in [Keys -> {"unsent", "waiting", "failed", "accepted"}]
  BY <1>1 DEF HookTypeOK
<1>6. \A pc \in {"match", "publish"} : Goto(r, pc) =>
        /\ Moved(r) /\ call'[r].pc = pc /\ Owns(r, Key(r))' /\ Key(r)' = Key(r)
        /\ call'[r].read = call[r].read /\ Leases(r)' /\ Ran(r)'
  <2> SUFFICES ASSUME NEW pc \in {"match", "publish"}, Goto(r, pc)
               PROVE  /\ Moved(r) /\ call'[r].pc = pc /\ Owns(r, Key(r))' /\ Key(r)' = Key(r)
                      /\ call'[r].read = call[r].read /\ Leases(r)' /\ Ran(r)'
    OBVIOUS
  <2>1. pc \in Pcs
    BY DEF Pcs
  <2>2. /\ Moved(r) /\ call'[r].pc = pc /\ Key(r)' = Key(r)
        /\ call'[r].read = call[r].read /\ call'[r].step = 1 /\ call'[r].inside = 0
    BY <1>1, <1>2, <2>1, GoesAhead
  <2>3. Owns(r, Key(r))'
    BY <2>2 DEF Owns
  <2>4. Leases(r)' /\ Ran(r)'
    BY <2>2, OutsideKnows
  <2>5. QED
    BY <2>2, <2>3, <2>4
<1>7. CASE ClaimDelivery(r)
  <2>1. /\ entry' = [entry EXCEPT ![Key(r)] = "live"] /\ Goto(r, AfterClaim(r))
        /\ UNCHANGED <<response, queued, walk, provider, tries, sent, served, torn>>
    BY <1>7 DEF ClaimDelivery, outside, Key
  <2>2. /\ entry' \in [Keys -> {"none", "live", "stale"}]
        /\ \A k \in Keys : entry'[k] = "stale" => entry[k] = "stale"
        /\ \A k \in Keys : entry'[k] = "live" => entry[k] = "live" \/ k = Key(r)
    BY <1>1, <1>2, <2>1 DEF HookTypeOK
  <2>3. LiveOwned'
    BY <1>1, <1>3, <1>4, <1>6, <2>1, <2>2, EntriesStand
  <2>4. ReadSet(r)'
    BY <1>2, <1>3, <1>6, <2>1, <2>2 DEF ReadSet
  <2>5. QED
    BY <1>1, <1>2, <1>3, <1>5, <1>6, <2>1, <2>2, <2>3, <2>4, RequestKeeps DEF HookTypeOK, At
<1>8. CASE Duplicate(r)
  <2>1. /\ call' = [call EXCEPT ![r] = Away] /\ Tell(r, "accepted")
        /\ UNCHANGED <<response, walk, tries, sent, entry, torn, served, queued>>
    BY <1>8 DEF Duplicate
  <2>2. QED
    BY <1>1, <1>2, <2>1, LeavesKeeps DEF HookTypeOK, Claimed
<1>9. CASE Reread(r)
  <2> DEFINE state == [call[r] EXCEPT !.pc = "reclaim", !.read = Live \ {Key(r)}]
  <2>1. /\ call' = [call EXCEPT ![r] = state]
        /\ UNCHANGED <<response, entry, queued, walk, provider, tries, sent, served, torn>>
    BY <1>9 DEF Reread, outside, Key
  <2>2. /\ state \in Calls /\ state.pc = "reclaim" /\ state.read = Live \ {Key(r)}
        /\ state.step = 1 /\ state.inside = 0
    BY <1>2 DEF Calls, Live
  <2> HIDE DEF state
  <2>3. Moved(r) /\ call'[r] = state
    BY <1>1, <2>1, <2>2, RunnerMoves DEF HookCalls
  <2>4. LiveOwned'
    BY <1>1, <1>4, <2>1, <2>3, EntriesStand
  <2>5. ReadSet(r)'
    BY <2>1, <2>2, <2>3 DEF ReadSet, Live
  <2>6. Leases(r)' /\ Ran(r)'
    BY <2>2, <2>3, OutsideKnows
  <2>7. QED
    BY <1>1, <1>2, <1>5, <2>1, <2>2, <2>3, <2>4, <2>5, <2>6, RequestKeeps DEF HookTypeOK, At
<1>10. CASE Reclaim(r)
  <2>1. /\ PutSet(call[r].read, {Key(r)}) /\ Goto(r, AfterClaim(r))
        /\ UNCHANGED <<response, queued, walk, provider, tries, sent, served>>
    BY <1>10 DEF Reclaim, outside, Key
  <2>2. /\ entry' \in [Keys -> {"none", "live", "stale"}] /\ torn' \subseteq Keys
        /\ torn \subseteq torn' /\ \A k \in Keys : entry'[k] # "stale"
        /\ \A k \in Keys : entry'[k] = "live" <=> k \in call[r].read \cup {Key(r)}
        /\ \A k \in call[r].read : entry[k] \in {"live", "stale"} \/ k \in torn'
    <3>1. PICK entries \in SUBSET Keys : entries = call[r].read
      BY <1>2
    <3>2. PICK added \in SUBSET Keys : added = {Key(r)}
      BY <1>2
    <3>3. PutSet(entries, added)
      BY <2>1, <3>1, <3>2
    <3>4. /\ entry' \in [Keys -> {"none", "live", "stale"}] /\ torn' \subseteq Keys
          /\ torn \subseteq torn' /\ \A k \in Keys : entry'[k] # "stale"
          /\ \A k \in Keys : entry'[k] = "live" <=> k \in entries \cup added
          /\ \A k \in entries : entry[k] \in {"live", "stale"} \/ k \in torn'
      BY <1>1, <3>3, PutSetDoes
    <3>5. QED
      BY <3>1, <3>2, <3>4
  <2>3. \A k \in call[r].read : entry[k] # "stale"
    BY <1>2 DEF ReadSet
  <2>4. \A k \in Keys : entry'[k] = "live" => k = Key(r) \/ k \in torn' \/ k \in Live
    BY <2>2, <2>3 DEF Live
  <2>5. LiveOwned'
    <3> SUFFICES ASSUME NEW k \in Keys, entry'[k] = "live"
                 PROVE  k \in served' \cup torn' \/ \E d \in Requests : Owns(d, k)'
      BY DEF LiveOwned, Live
    <3>1. CASE k = Key(r)
      BY <1>3, <1>6, <2>1, <3>1
    <3>2. CASE k \in Live
      <4>1. k \in served \cup torn \/ \E d \in Requests : Owns(d, k)
        BY <3>2 DEF HookInv, LiveOwned
      <4>2. QED
        BY <1>1, <1>3, <1>4, <1>6, <2>1, <2>2, <3>2, <4>1, ClaimsStand
    <3>3. QED
      BY <2>4, <3>1, <3>2
  <2>6. ReadSet(r)'
    BY <1>2, <1>3, <1>6, <2>1, <2>2 DEF ReadSet
  <2>7. QED
    BY <1>1, <1>2, <1>3, <1>5, <1>6, <2>1, <2>2, <2>5, <2>6, RequestKeeps DEF HookTypeOK, At
<1>11. CASE ClaimFails(r)
  <2>1. /\ Goto(r, AfterClaim(r)) /\ AfterClaim(r) \in Pcs
        /\ UNCHANGED <<response, walk, tries, sent, entry, queued, served, torn, provider>>
    BY <1>3, <1>11 DEF ClaimFails, outside, Pcs
  <2>2. QED
    BY <1>1, <1>2, <1>3, <2>1, GoesKeeps DEF Claimed
<1>12. CASE ClaimMisses(r)
  <2>1. /\ Goto(r, "reread") /\ "reread" \in Pcs /\ call[r].pc = "claim"
        /\ UNCHANGED <<response, walk, tries, sent, entry, queued, served, torn, provider>>
    BY <1>12 DEF ClaimMisses, outside, Pcs, At
  <2>2. QED
    BY <1>1, <1>2, <2>1, GoesKeeps DEF Claimed
<1>13. QED
  BY <1>7, <1>8, <1>9, <1>10, <1>11, <1>12

LEMMA ReleasingKeeps ==
  ASSUME HookInv, NEW r \in Requests, Release(r) \/ Forget(r) \/ Apologize(r)
  PROVE  HookInv'
<1>1. r \in Runners /\ HookTypeOK /\ call[r].pc \in {"release", "forget", "sorry"}
  BY DEF HookInv, Runners, Release, Forget, Apologize, At
<1>2. /\ call[r] # Away /\ call[r] \in Calls /\ Key(r) \in Keys /\ call[r].read \subseteq Keys
      /\ ReadSet(r)
  BY <1>1, Called DEF HookInv
<1>3. provider \in [Keys -> {"unsent", "waiting", "failed", "accepted"}]
  BY <1>1 DEF HookTypeOK
<1>4. CASE Release(r) /\ Key(r) \notin Live
  <2>1. /\ Goto(r, "sorry") /\ entry[Key(r)] # "live"
        /\ UNCHANGED <<response, walk, tries, sent, entry, queued, served, torn, provider>>
    BY <1>2, <1>4 DEF Release, outside, Key, Live
  <2>2. QED
    BY <1>1, <1>2, <2>1, GoesKeeps DEF Pcs
<1>5. CASE Release(r) /\ Key(r) \in Live
  <2> DEFINE state == [call[r] EXCEPT !.pc = "forget", !.read = Live \ {Key(r)}]
  <2>1. /\ call' = [call EXCEPT ![r] = state]
        /\ UNCHANGED <<response, entry, queued, walk, provider, tries, sent, served, torn>>
    BY <1>5 DEF Release, outside, Key
  <2>2. /\ state \in Calls /\ state.pc = "forget" /\ state.read = Live \ {Key(r)}
        /\ state.key = call[r].key
    BY <1>2 DEF Calls, Live
  <2> HIDE DEF state
  <2>3. Moved(r) /\ call'[r] = state /\ Key(r)' = Key(r)
    BY <1>1, <2>1, <2>2, RunnerMoves DEF HookCalls, Key
  <2>4. \A k \in Live : Owns(r, k) => Owns(r, k)'
    BY <2>2, <2>3 DEF Owns
  <2>5. LiveOwned'
    BY <1>1, <2>1, <2>3, <2>4, EntriesStand
  <2>6. ReadSet(r)'
    BY <2>1, <2>2, <2>3 DEF ReadSet, Live
  <2>7. Leases(r)' /\ Ran(r)'
    BY <2>2, <2>3, OutsideKnows
  <2>8. QED
    BY <1>1, <1>2, <1>3, <2>1, <2>2, <2>3, <2>5, <2>6, <2>7, RequestKeeps DEF HookTypeOK, At
<1>6. CASE Forget(r)
  <2>1. /\ PutSet(call[r].read, {}) /\ Goto(r, "sorry") /\ call[r].pc = "forget"
        /\ UNCHANGED <<response, queued, walk, provider, tries, sent, served>>
    BY <1>6 DEF Forget, outside, Key, At
  <2>2. /\ entry' \in [Keys -> {"none", "live", "stale"}] /\ torn' \subseteq Keys
        /\ torn \subseteq torn' /\ \A k \in Keys : entry'[k] # "stale"
        /\ \A k \in Keys : entry'[k] = "live" <=> k \in call[r].read
        /\ \A k \in call[r].read : entry[k] \in {"live", "stale"} \/ k \in torn'
    <3>1. call[r].read \in SUBSET Keys /\ {} \in SUBSET Keys /\ call[r].read \cup {} = call[r].read
      BY <1>2
    <3>2. QED
      BY <1>1, <2>1, <3>1, PutSetDoes
  <2>3. Key(r) \notin call[r].read /\ \A k \in call[r].read : entry[k] # "stale"
    BY <1>2, <2>1 DEF ReadSet
  <2>4. /\ Moved(r) /\ call'[r].pc = "sorry" /\ call'[r].read = call[r].read
        /\ Key(r)' = Key(r)
    BY <1>1, <1>2, <2>1, GoesAhead DEF Pcs
  <2>5. LiveOwned'
    <3> SUFFICES ASSUME NEW k \in Keys, entry'[k] = "live"
                 PROVE  k \in served' \cup torn' \/ \E d \in Requests : Owns(d, k)'
      BY DEF LiveOwned, Live
    <3>1. k # Key(r) /\ (k \in torn' \/ k \in Live)
      BY <2>2, <2>3 DEF Live
    <3>2. CASE k \in Live
      <4>1. k \in served \cup torn \/ \E d \in Requests : Owns(d, k)
        BY <3>2 DEF HookInv, LiveOwned
      <4>2. ~Owns(r, k)
        BY <3>1 DEF Owns
      <4>3. QED
        BY <1>1, <2>1, <2>2, <2>4, <3>2, <4>1, <4>2, ClaimsStand
    <3>3. QED
      BY <3>1, <3>2
  <2>6. ReadSet(r)'
    BY <1>2, <2>2, <2>4 DEF ReadSet
  <2>7. Leases(r)' /\ Ran(r)'
    BY <2>4, OutsideKnows
  <2>8. QED
    BY <1>1, <1>2, <1>3, <2>1, <2>2, <2>4, <2>5, <2>6, <2>7, RequestKeeps DEF HookTypeOK, At
<1>7. CASE Apologize(r)
  <2>1. /\ call' = [call EXCEPT ![r] = Away] /\ Tell(r, "failed") /\ call[r].pc = "sorry"
        /\ UNCHANGED <<response, walk, tries, sent, entry, torn, served, queued>>
    BY <1>7 DEF Apologize, At
  <2>2. QED
    BY <1>1, <1>2, <2>1, LeavesKeeps DEF HookTypeOK, Claimed
<1>8. QED
  BY <1>4, <1>5, <1>6, <1>7

-----------------------------------------------------------------------------
(* The webhook: the publish, and the start and the end of the inline run.  *)

(* At its end a walk that skipped nothing has run every step.              *)
LEMMA WalkedThrough ==
  ASSUME HookInv, NEW r \in Runners, At(r, "walk"), ChainEnded(r), call[r].inside = 0,
         ~call[r].skipped
  PROVE  RanUpTo(Key(r), Len(WrapperOf) + 1)
<1>1. call[r].step = Len(WrapperOf) + 1
  <2>1. call[r].step \in 1..(Len(WrapperOf) + 1) /\ call[r].step \notin HookSteps
    BY Called DEF HookInv, At, ChainEnded
  <2>2. QED
    BY <2>1, StepsOfHook
<1>2. QED
  BY <1>1 DEF HookInv, Ran, Walking, At

LEMMA PublishingKeeps ==
  ASSUME HookInv, NEW r \in Requests,
         Publish(r) \/ PublishFails(r) \/ Match(r) \/ Overrun(r) \/ InlineEnds(r)
  PROVE  HookInv'
<1>1. r \in Runners /\ HookTypeOK /\ call[r].pc \in {"publish", "match", "walk"}
  BY DEF HookInv, Runners, Publish, PublishFails, Match, Overrun, InlineEnds, At
<1>2. /\ call[r] # Away /\ call[r] \in Calls /\ Key(r) \in Keys
      /\ ReadSet(r) /\ Leases(r) /\ Ran(r)
  BY <1>1, Called DEF HookInv
<1>3. CASE Publish(r)
  <2>1. /\ call' = [call EXCEPT ![r] = Away] /\ Tell(r, "accepted")
        /\ UNCHANGED <<response, walk, tries, sent, entry, torn>>
        /\ served' = served \cup {Key(r)} /\ queued' = queued \cup {Key(r)}
    BY <1>3 DEF Publish, Accept, Key
  <2>2. QED
    BY <1>1, <1>2, <2>1, LeavesKeeps DEF HookTypeOK
<1>4. CASE PublishFails(r)
  <2>1. /\ Goto(r, "release")
        /\ UNCHANGED <<response, walk, tries, sent, entry, queued, served, torn, provider>>
    BY <1>4 DEF PublishFails, outside
  <2>2. QED
    BY <1>1, <1>2, <2>1, GoesKeeps DEF Pcs, Claimed
<1>5. CASE Match(r)
  <2>1. PICK pc \in {"walk", "publish"} : Goto(r, pc)
    BY <1>5 DEF Match
  <2>2. /\ call[r].pc = "match"
        /\ UNCHANGED <<response, walk, tries, sent, entry, queued, served, torn, provider>>
    BY <1>5 DEF Match, outside, At
  <2>3. QED
    BY <1>2, <2>1, <2>2, GoesKeeps DEF Pcs, Claimed
<1>6. CASE Overrun(r)
  <2> DEFINE state == [call[r] EXCEPT !.late = TRUE]
  <2>1. /\ call' = [call EXCEPT ![r] = state] /\ call[r].pc = "walk"
        /\ UNCHANGED <<response, entry, queued, walk, provider, tries, sent, served, torn>>
    BY <1>6 DEF Overrun, outside, At
  <2>2. /\ state \in Calls /\ state.pc = call[r].pc /\ state.read = call[r].read
        /\ state.key = call[r].key /\ state.step = call[r].step /\ state.inside = call[r].inside
        /\ state.skipped = call[r].skipped
    BY <1>2 DEF Calls
  <2> HIDE DEF state
  <2>3. Moved(r) /\ call'[r] = state /\ Key(r)' = Key(r)
    BY <1>1, <2>1, <2>2, RunnerMoves DEF HookCalls, Key
  <2>4. \A k \in Live : Owns(r, k) => Owns(r, k)'
    BY <2>2, <2>3 DEF Owns
  <2>5. LiveOwned'
    BY <1>1, <2>1, <2>3, <2>4, EntriesStand
  <2>6. ReadSet(r)'
    BY <1>2, <2>1, <2>2, <2>3 DEF ReadSet
  <2>7. Leases(r)'
    BY <1>2, <2>1, <2>2, <2>3 DEF Leases, Walking, Rec, walk
  <2>8. Ran(r)'
    BY <1>2, <2>1, <2>2, <2>3 DEF Ran, Walking, RanUpTo, walk
  <2>9. provider \in [Keys -> {"unsent", "waiting", "failed", "accepted"}]
    BY <1>1 DEF HookTypeOK
  <2>10. QED
    BY <1>1, <1>2, <2>1, <2>2, <2>3, <2>5, <2>6, <2>7, <2>8, <2>9, RequestKeeps DEF HookTypeOK, At
<1>7. CASE InlineEnds(r) /\ call[r].skipped
  <2>1. /\ Goto(r, "publish")
        /\ UNCHANGED <<response, walk, tries, sent, entry, queued, served, torn, provider>>
    BY <1>7 DEF InlineEnds, InlineCompleted
  <2>2. QED
    BY <1>1, <1>2, <2>1, GoesKeeps DEF Pcs, Claimed
<1>8. CASE InlineEnds(r) /\ ~call[r].skipped
  <2>1. /\ call' = [call EXCEPT ![r] = Away] /\ Tell(r, "accepted")
        /\ UNCHANGED <<response, walk, tries, sent, entry, torn, queued>>
        /\ served' = served \cup {Key(r)}
    BY <1>8 DEF InlineEnds, InlineCompleted, Accept, Key
  <2>2. RanUpTo(Key(r), Len(WrapperOf) + 1)
    BY <1>1, <1>8, WalkedThrough DEF InlineEnds
  <2>3. QED
    BY <1>1, <1>2, <2>1, <2>2, LeavesKeeps DEF HookTypeOK
<1>9. QED
  BY <1>3, <1>4, <1>5, <1>6, <1>7, <1>8

-----------------------------------------------------------------------------
(* The webhook: the walk.                                                  *)

(* One that walks on.                                                      *)
LEMMA WalkerKeeps ==
  ASSUME HookInv, NEW r \in Runners, Walking(r), NEW state \in Calls,
         call' = [call EXCEPT ![r] = state], state.pc \in {"walk", "act", "mark", "release"},
         state.key = call[r].key, state.read = call[r].read,
         r = "worker" => state.pc # "release" /\ ~state.late /\ ~state.skipped,
         UNCHANGED <<response, entry, queued, served, torn, tries, sent, provider>>,
         record' \in [Keys -> [HookSteps -> {"none", "over", "done"} \cup Runners]],
         effects' \in [Keys -> [HookSteps -> Nat]],
         unrecorded' \in [Keys -> [HookSteps -> Nat]],
         OthersHold(r), EffectsRecorded', Leases(r)', Ran(r)'
  PROVE  HookInv'
<1>1. HookTypeOK /\ Moved(r) /\ call'[r] = state /\ Key(r)' = Key(r) /\ call[r] # Away
  BY RunnerMoves, Called DEF HookInv, HookCalls, Key, Walking
<1>2. HookTypeOK'
  BY <1>1 DEF HookTypeOK, Moved, HookCalls
<1>3. AcceptedIsServed'
  BY <1>1 DEF AcceptedIsServed, HookInv, OthersHold, HookTypeOK, IsBranch
<1>4. LiveOwned'
  <2>1. \A k \in Live : Owns(r, k) => Owns(r, k)'
    BY <1>1 DEF Owns
  <2>2. QED
    BY <1>1, <2>1, EntriesStand
<1>5. ReadSet(r)'
  BY <1>1 DEF ReadSet, HookInv
<1>6. r = "worker" => WorkerWalks'
  BY <1>1 DEF WorkerWalks, Walking
<1>7. EffectOnce'
  BY DEF EffectOnce, EffectsRecorded
<1>8. QED
  BY <1>1, <1>2, <1>3, <1>4, <1>5, <1>6, <1>7, OneCallMoves

(* A record is written by the one that may.                                *)
LEMMA Marks ==
  ASSUME HookTypeOK, NEW r \in Runners, NEW k \in Keys, k = Key(r), NEW s \in HookSteps,
         NEW outcome \in {"done"} \cup Runners, Mark(r, s, outcome),
         record[k][s] \in {"none", "over", r}
  PROVE  /\ record' \in [Keys -> [HookSteps -> {"none", "over", "done"} \cup Runners]]
         /\ record'[k][s] = outcome
         /\ \A j \in Keys, t \in HookSteps : j # k \/ t # s => record'[j][t] = record[j][t]
         /\ \A d \in Runners \ {r}, j \in Keys, t \in HookSteps :
              record[j][t] = d => record'[j][t] = d
<1>1. /\ record' = [record EXCEPT ![k][s] = outcome]
      /\ record \in [Keys -> [HookSteps -> {"none", "over", "done"} \cup Runners]]
  BY DEF Mark, HookTypeOK
<1>2. \A j \in Keys, t \in HookSteps :
        record'[j][t] = IF j = k /\ t = s THEN outcome ELSE record[j][t]
  BY <1>1
<1>3. record' \in [Keys -> [HookSteps -> {"none", "over", "done"} \cup Runners]]
  BY <1>1
<1>4. \A d \in Runners \ {r} : d \notin {"none", "over", r}
  BY StepsOfHook
<1>5. QED
  BY <1>2, <1>3, <1>4

(* One number of a table is counted up.                                    *)
LEMMA OneCounts ==
  ASSUME NEW counts \in [Keys -> [HookSteps -> Nat]], NEW k \in Keys, NEW s \in HookSteps,
         NEW next, next = [counts EXCEPT ![k][s] = @ + 1]
  PROVE  /\ next \in [Keys -> [HookSteps -> Nat]]
         /\ \A j \in Keys, t \in HookSteps :
              next[j][t] = IF j = k /\ t = s THEN counts[k][s] + 1 ELSE counts[j][t]
<1>1. PICK line \in [HookSteps -> Nat] : line = [counts[k] EXCEPT ![s] = counts[k][s] + 1]
  <2>1. counts[k] \in [HookSteps -> Nat] /\ counts[k][s] + 1 \in Nat
    OBVIOUS
  <2>2. QED
    BY <2>1
<1>2. next = [counts EXCEPT ![k] = line]
  BY <1>1
<1>3. \A t \in HookSteps : line[t] = IF t = s THEN counts[k][s] + 1 ELSE counts[k][t]
  BY <1>1
<1>4. QED
  BY <1>1, <1>2, <1>3

(* The leases that are dropped are the mover's own, and the effect that    *)
(* one of them had not recorded is lost to the record.                     *)
LEMMA Drops ==
  ASSUME HookInv, NEW r \in Runners, Drop(r), Moved(r), effects' = effects, entry' = entry,
         call[r] # Away, ~At(r, "mark")'
  PROVE  /\ record' \in [Keys -> [HookSteps -> {"none", "over", "done"} \cup Runners]]
         /\ unrecorded' \in [Keys -> [HookSteps -> Nat]]
         /\ OthersHold(r) /\ EffectsRecorded'
<1>1. HookTypeOK /\ Key(r) \in Keys
  BY Called DEF HookInv
<1>2. PICK k \in Keys : k = Key(r)
  BY <1>1
<1>3. PICK mine \in [HookSteps -> {"none", "over", "done"} \cup Runners] : mine = record[k]
  BY <1>1 DEF HookTypeOK
<1>4. record' = [record EXCEPT ![k] = [s \in HookSteps |-> IF mine[s] = r THEN "over" ELSE mine[s]]]
  BY <1>2, <1>3 DEF Drop
<1>5. record' \in [Keys -> [HookSteps -> {"none", "over", "done"} \cup Runners]]
  BY <1>1, <1>3, <1>4 DEF HookTypeOK
<1>6. \A j \in Keys, s \in HookSteps :
        record'[j][s] = record[j][s] \/ (record[j][s] = r /\ record'[j][s] = "over")
  BY <1>1, <1>3, <1>4 DEF HookTypeOK
<1>7. r \notin {"none", "over", "done"}
  BY StepsOfHook
<1>8. OthersHold(r)
  BY <1>6 DEF OthersHold
<1>9. CASE ~At(r, "mark")
  <2>1. unrecorded' = unrecorded
    BY <1>9 DEF Drop
  <2>2. EffectsRecorded'
    BY <1>6, <1>9, <2>1, StillRecorded
  <2>3. QED
    BY <1>1, <1>5, <1>8, <2>1, <2>2 DEF HookTypeOK
<1>10. CASE At(r, "mark")
  <2>1. Leases(r) /\ Walking(r)
    BY <1>10 DEF HookInv, Walking, At
  <2>2. call[r].step \in HookSteps /\ record[k][call[r].step] = r
    BY <1>2, <1>10, <2>1 DEF Leases, Rec, At
  <2>3. PICK s \in HookSteps : s = call[r].step
    BY <2>2
  <2>4. record[k][s] = r /\ record'[k][s] = "over"
    BY <1>1, <1>3, <1>4, <2>2, <2>3 DEF HookTypeOK
  <2>5. Took(k, s)
    BY <1>2, <1>10, <2>3, <2>4 DEF Took
  <2>6. ~Took(k, s)'
    <3>1. \A d \in Runners : d # "over"
      BY StepsOfHook
    <3>2. QED
      BY <2>4, <3>1 DEF Took
  <2>7. \A j \in Keys, u \in HookSteps : j # k \/ u # s => (Took(j, u)' <=> Took(j, u))
    <3> SUFFICES ASSUME NEW j \in Keys, NEW u \in HookSteps, j # k \/ u # s
                 PROVE  Took(j, u)' <=> Took(j, u)
      OBVIOUS
    <3>1. ~Unmarked(r, j, u) /\ ~Unmarked(r, j, u)'
      BY <1>2, <2>3 DEF Unmarked
    <3>2. record'[j][u] = record[j][u] \/ {record[j][u], record'[j][u]} \subseteq {"none", "over", r}
      BY <1>6
    <3>3. QED
      BY <3>1, <3>2, TookStays
  <2>8. /\ unrecorded' \in [Keys -> [HookSteps -> Nat]]
        /\ \A j \in Keys, u \in HookSteps :
             unrecorded'[j][u] = IF j = k /\ u = s THEN unrecorded[k][s] + 1 ELSE unrecorded[j][u]
    <3>1. unrecorded \in [Keys -> [HookSteps -> Nat]]
      BY <1>1 DEF HookTypeOK
    <3>2. unrecorded' = [unrecorded EXCEPT ![k][s] = @ + 1]
      BY <1>2, <1>10, <2>3 DEF Drop
    <3>3. QED
      BY <3>1, <3>2, OneCounts
  <2>9. EffectsRecorded'
    <3> SUFFICES ASSUME NEW j \in Keys, NEW u \in HookSteps
                 PROVE  effects'[j][u] = unrecorded'[j][u] + (IF Took(j, u)' THEN 1 ELSE 0)
      BY DEF EffectsRecorded
    <3>1. effects[j][u] = unrecorded[j][u] + (IF Took(j, u) THEN 1 ELSE 0)
      BY DEF HookInv, EffectsRecorded
    <3>2. unrecorded[j][u] \in Nat
      BY <1>1 DEF HookTypeOK
    <3>3. CASE j = k /\ u = s
      BY <2>5, <2>6, <2>8, <3>1, <3>2, <3>3
    <3>4. CASE j # k \/ u # s
      BY <2>7, <2>8, <3>1, <3>2, <3>4
    <3>5. QED
      BY <3>3, <3>4
  <2>10. QED
    BY <1>5, <1>8, <2>8, <2>9
<1>11. QED
  BY <1>9, <1>10

(* What a walker that meets a step stands at.                              *)
LEMMA Met ==
  ASSUME HookInv, NEW r \in Runners, Meets(r) \/ At(r, "act") \/ At(r, "mark")
  PROVE  /\ Walking(r) /\ call[r] \in Calls /\ call[r] # Away /\ Key(r) \in Keys
         /\ call[r].step \in HookSteps /\ Past(call[r].step) \in 1..(Len(WrapperOf) + 1)
         /\ call[r].step + 1 \in 1..(Len(WrapperOf) + 1)
         /\ Leases(r) /\ Ran(r) /\ HookTypeOK
         /\ r = "worker" => ~call[r].late /\ ~call[r].skipped
<1>1. Walking(r) /\ call[r] # Away /\ HookTypeOK
  BY Called DEF HookInv, Meets, At, Walking
<1>2. call[r].step \in HookSteps
  <2>1. CASE Meets(r)
    BY <2>1 DEF Meets, ChainEnded
  <2>2. CASE At(r, "act") \/ At(r, "mark")
    BY <1>1, <2>2 DEF At, HookInv, Leases
  <2>3. QED
    BY <2>1, <2>2
<1>3. /\ Past(call[r].step) \in 1..(Len(WrapperOf) + 1)
      /\ call[r].step + 1 \in 1..(Len(WrapperOf) + 1)
  <2> DEFINE s == call[r].step
  <2>1. s \in HookSteps
    BY <1>2
  <2> HIDE DEF s
  <2>2. Past(s) \in s + 1 .. Len(WrapperOf) + 1 /\ s \in 1..Len(WrapperOf) /\ Len(WrapperOf) \in Nat
    BY <2>1, StepsOfHook, PastIsPast
  <2> HIDE DEF Past
  <2>3. Past(s) \in 1..(Len(WrapperOf) + 1) /\ s + 1 \in 1..(Len(WrapperOf) + 1)
    BY <2>2
  <2>4. QED
    BY <2>3 DEF s
<1>4. QED
  BY <1>1, <1>2, <1>3, Called DEF HookInv, WorkerWalks

LEMMA SkipLateKeeps ==
  ASSUME HookInv, NEW r \in Runners, SkipLate(r)
  PROVE  HookInv'
<1>1. /\ Walking(r) /\ call[r] \in Calls /\ HookTypeOK /\ Leases(r)
      /\ Past(call[r].step) \in 1..(Len(WrapperOf) + 1)
      /\ r # "worker" /\ call[r].pc = "walk"
  BY Met DEF SkipLate, Meets, At
<1> DEFINE state == [call[r] EXCEPT !.step = Past(call[r].step), !.skipped = TRUE]
<1>2. /\ call' = [call EXCEPT ![r] = state] /\ UNCHANGED walk
      /\ UNCHANGED <<response, entry, queued, served, torn, tries, sent, provider>>
  BY DEF SkipLate, outside
<1>3. /\ state \in Calls /\ state.pc = "walk" /\ state.key = call[r].key /\ state.read = call[r].read
      /\ state.inside = call[r].inside /\ state.skipped
  BY <1>1 DEF Calls
<1> HIDE DEF state
<1>4. call'[r] = state
  BY <1>1, <1>2, <1>3, RunnerMoves DEF HookCalls
<1>5. Leases(r)' /\ Ran(r)'
  BY <1>1, <1>2, <1>3, <1>4 DEF Leases, Ran, Key, walk
<1>6. EffectsRecorded' /\ OthersHold(r)
  <2>1. Moved(r)
    BY <1>1, <1>2, <1>3, RunnerMoves DEF HookCalls
  <2>2. EffectsRecorded'
    BY <1>1, <1>2, <1>3, <1>4, <2>1, StillRecorded DEF walk, At
  <2>3. QED
    BY <1>2, <2>2 DEF OthersHold, walk
<1>7. QED
  BY <1>1, <1>2, <1>3, <1>5, <1>6, WalkerKeeps DEF walk, HookTypeOK

LEMMA PassStepKeeps ==
  ASSUME HookInv, NEW r \in Runners, PassStep(r)
  PROVE  HookInv'
<1> DEFINE s == call[r].step
           k == Key(r)
<1>1. /\ Walking(r) /\ call[r] \in Calls /\ HookTypeOK /\ Leases(r) /\ Ran(r)
      /\ s \in HookSteps /\ k \in Keys /\ Past(s) \in 1..(Len(WrapperOf) + 1)
      /\ call[r].pc = "walk" /\ record[k][s] = "done"
      /\ r = "worker" => ~call[r].late /\ ~call[r].skipped
  BY Met DEF PassStep, Meets, At, Rec
<1> DEFINE state == [call[r] EXCEPT !.step = Past(call[r].step)]
<1>2. /\ call' = [call EXCEPT ![r] = state] /\ UNCHANGED walk
      /\ UNCHANGED <<response, entry, queued, served, torn, tries, sent, provider>>
  BY DEF PassStep, outside
<1>3. /\ state \in Calls /\ state.pc = "walk" /\ state.key = call[r].key /\ state.read = call[r].read
      /\ state.inside = call[r].inside /\ state.skipped = call[r].skipped
      /\ state.late = call[r].late /\ state.step = Past(s)
  BY <1>1 DEF Calls
<1> HIDE DEF state
<1>4. call'[r] = state
  BY <1>1, <1>2, <1>3, RunnerMoves DEF HookCalls
<1>5. Leases(r)'
  BY <1>1, <1>2, <1>3, <1>4 DEF Leases, Key, walk
<1>6. RanUpTo(k, s) => RanUpTo(k, Past(s))
  <2> SUFFICES ASSUME RanUpTo(k, s), NEW t \in HookSteps, t < Past(s), WrapperOf[t] = 0, ~IsBranch(t)
               PROVE  effects[k][t] > 0
    BY DEF RanUpTo
  <2> HIDE DEF s, k
  <2>1. s \in Nat \ {0} /\ t \in Nat /\ Past(s) \in Nat
    BY <1>1, StepsOfHook
  <2>2. CASE t < s
    BY <2>2 DEF RanUpTo
  <2>3. CASE t = s
    <3>1. Took(k, s)
      BY <1>1, <2>3 DEF Took
    <3>2. effects[k][s] = unrecorded[k][s] + 1 /\ unrecorded[k][s] \in Nat
      BY <1>1, <3>1 DEF HookInv, EffectsRecorded, HookTypeOK
    <3>3. QED
      BY <2>3, <3>2
  <2>4. CASE s < t
    <3>1. t \in s + 1 .. Past(s) - 1
      BY <2>1, <2>4
    <3>2. WrapperOf[t] = s
      BY <1>1, <3>1, PastIsPast
    <3>3. QED
      BY <2>1, <3>2
  <2>5. QED
    BY <2>1, <2>2, <2>3, <2>4
<1>7. Ran(r)'
  <2>1. ~call[r].skipped => RanUpTo(k, Past(s))
    BY <1>1, <1>6 DEF Ran
  <2>2. PICK j \in Keys : j = k
    BY <1>1
  <2>3. PICK n \in 1..(Len(WrapperOf) + 1) : n = Past(s)
    BY <1>1
  <2>4. call'[r].pc = "walk" /\ call'[r].key = j /\ call'[r].step = n
        /\ call'[r].skipped = call[r].skipped
    BY <1>3, <1>4, <2>2, <2>3 DEF Key
  <2>5. ~call[r].skipped => RanUpTo(j, n)'
    BY <1>2, <2>1, <2>2, <2>3 DEF RanUpTo, walk
  <2>6. QED
    BY <2>4, <2>5 DEF Ran, Key, RanUpTo
<1>8. EffectsRecorded' /\ OthersHold(r)
  <2>1. Moved(r)
    BY <1>1, <1>2, <1>3, RunnerMoves DEF HookCalls
  <2>2. EffectsRecorded'
    BY <1>1, <1>2, <1>3, <1>4, <2>1, StillRecorded DEF walk, At
  <2>3. QED
    BY <1>2, <2>2 DEF OthersHold, walk
<1>9. QED
  BY <1>1, <1>2, <1>3, <1>5, <1>7, <1>8, WalkerKeeps DEF walk, HookTypeOK

LEMMA TakeStepKeeps ==
  ASSUME HookInv, NEW r \in Runners, TakeStep(r)
  PROVE  HookInv'
<1>1. /\ Walking(r) /\ call[r] \in Calls /\ HookTypeOK /\ Leases(r) /\ Ran(r)
      /\ call[r].step \in HookSteps /\ Key(r) \in Keys
      /\ call[r].step + 1 \in 1..(Len(WrapperOf) + 1)
      /\ call[r].pc = "walk" /\ Rec(r) \in {"none", "over"}
      /\ r = "worker" => ~call[r].late /\ ~call[r].skipped
  BY Met DEF TakeStep, Meets, At, FreeStep
<1>2. PICK k \in Keys : k = Key(r)
  BY <1>1
<1>3. PICK s \in HookSteps : s = call[r].step
  BY <1>1
<1>4. /\ Mark(r, s, r) /\ record[k][s] \in {"none", "over"} /\ effects' = effects
      /\ unrecorded' = unrecorded
      /\ UNCHANGED <<response, entry, queued, served, torn, tries, sent, provider>>
  BY <1>1, <1>2, <1>3 DEF TakeStep, Rec, outside
<1>5. /\ record' \in [Keys -> [HookSteps -> {"none", "over", "done"} \cup Runners]]
      /\ record'[k][s] = r
      /\ \A j \in Keys, t \in HookSteps : j # k \/ t # s => record'[j][t] = record[j][t]
      /\ \A d \in Runners \ {r}, j \in Keys, t \in HookSteps :
              record[j][t] = d => record'[j][t] = d
  <2>1. /\ HookTypeOK /\ k = Key(r) /\ Mark(r, s, r)
        /\ r \in {"done"} \cup Runners /\ record[k][s] \in {"none", "over", r}
    BY <1>1, <1>2, <1>4, Zenon
  <2>2. PICK own \in {"done"} \cup Runners : own = r
    BY <2>1
  <2>3. Mark(r, s, own)
    BY <2>1, <2>2, Zenon
  <2>4. /\ record' \in [Keys -> [HookSteps -> {"none", "over", "done"} \cup Runners]]
        /\ record'[k][s] = own
        /\ \A j \in Keys, t \in HookSteps : j # k \/ t # s => record'[j][t] = record[j][t]
        /\ \A d \in Runners \ {r}, j \in Keys, t \in HookSteps :
                record[j][t] = d => record'[j][t] = d
    BY <2>1, <2>3, Marks
  <2>5. QED
    BY <2>2, <2>4
<1>6. OthersHold(r)
  BY <1>4, <1>5 DEF OthersHold
<1>7. Moved(r) /\ ~At(r, "mark")' => EffectsRecorded'
  <2>1. \A j \in Keys, t \in HookSteps :
          \/ record'[j][t] = record[j][t]
          \/ {record[j][t], record'[j][t]} \subseteq {"none", "over", r}
    BY <1>4, <1>5
  <2>2. ~At(r, "mark")
    BY <1>1 DEF At
  <2>3. QED
    BY <1>4, <2>1, <2>2, StillRecorded
<1>8. effects' \in [Keys -> [HookSteps -> Nat]] /\ unrecorded' \in [Keys -> [HookSteps -> Nat]]
  BY <1>1, <1>4 DEF HookTypeOK
<1>9. CASE IsBranch(s)
  <2> DEFINE state == [call[r] EXCEPT !.inside = call[r].step, !.step = call[r].step + 1]
  <2>1. call' = [call EXCEPT ![r] = state]
    BY <1>3, <1>9 DEF TakeStep
  <2>2. /\ state \in Calls /\ state.pc = "walk" /\ state.key = call[r].key
        /\ state.read = call[r].read /\ state.inside = s /\ state.step = s + 1
        /\ state.skipped = call[r].skipped /\ state.late = call[r].late
    BY <1>1, <1>3 DEF Calls
  <2> HIDE DEF state
  <2>3. call'[r] = state /\ state.key = k /\ Moved(r) /\ ~At(r, "mark")'
    BY <1>1, <1>2, <2>1, <2>2, RunnerMoves DEF HookCalls, Key, At
  <2>4. Leases(r)'
    BY <1>5, <1>9, <2>2, <2>3 DEF Leases, Key, IsBranch
  <2>5. RanUpTo(k, s) => RanUpTo(k, s + 1)
    <3>1. \A t \in HookSteps : t < s + 1 => t < s \/ t = s
      BY StepsOfHook
    <3>2. QED
      BY <1>9, <3>1 DEF RanUpTo
  <2>6. ~call[r].skipped => RanUpTo(k, s + 1)'
    BY <1>1, <1>2, <1>3, <1>4, <2>5 DEF Ran, RanUpTo
  <2>7. Ran(r)'
    BY <2>2, <2>3, <2>6 DEF Ran, Key, RanUpTo
  <2>8. QED
    BY <1>1, <1>4, <1>5, <1>6, <1>7, <1>8, <2>1, <2>2, <2>3, <2>4, <2>7, WalkerKeeps
<1>10. CASE ~IsBranch(s)
  <2> DEFINE state == [call[r] EXCEPT !.pc = "act"]
  <2>1. call' = [call EXCEPT ![r] = state]
    BY <1>3, <1>10 DEF TakeStep
  <2>2. /\ state \in Calls /\ state.pc = "act" /\ state.key = call[r].key
        /\ state.read = call[r].read /\ state.inside = call[r].inside /\ state.step = s
        /\ state.skipped = call[r].skipped /\ state.late = call[r].late
    BY <1>1, <1>3 DEF Calls
  <2> HIDE DEF state
  <2>3. call'[r] = state /\ state.key = k /\ Moved(r) /\ ~At(r, "mark")'
    BY <1>1, <1>2, <2>1, <2>2, RunnerMoves DEF HookCalls, Key, At
  <2>4. call[r].inside # 0 =>
          IsBranch(call[r].inside) /\ record[k][call[r].inside] = r /\ call[r].inside # s
    BY <1>1, <1>2, <1>10 DEF Leases
  <2>5. call[r].inside \in HookSteps \cup {0}
    BY <1>1 DEF Calls
  <2>6. Leases(r)'
    <3>1. s # call[r].inside
      BY <2>4, StepsOfHook
    <3>2. call[r].inside # 0 => record'[k][call[r].inside] = r
      BY <1>5, <2>4, <2>5
    <3>3. QED
      BY <1>5, <1>10, <2>2, <2>3, <2>4, <3>1, <3>2 DEF Leases, Key, Rec, IsBranch
  <2>7. ~call[r].skipped => RanUpTo(k, s)'
    BY <1>1, <1>2, <1>3, <1>4 DEF Ran, RanUpTo
  <2>8. Ran(r)'
    BY <2>2, <2>3, <2>7 DEF Ran, Key, RanUpTo
  <2>9. QED
    BY <1>1, <1>4, <1>5, <1>6, <1>7, <1>8, <2>1, <2>2, <2>3, <2>6, <2>8, WalkerKeeps
<1>11. QED
  BY <1>9, <1>10

LEMMA RunActionKeeps ==
  ASSUME HookInv, NEW r \in Runners, RunAction(r)
  PROVE  HookInv'
<1>1. /\ Walking(r) /\ call[r] \in Calls /\ HookTypeOK /\ Leases(r) /\ Ran(r)
      /\ call[r].step \in HookSteps /\ Key(r) \in Keys
      /\ call[r].pc = "act"
      /\ r = "worker" => ~call[r].late /\ ~call[r].skipped
  BY Met DEF RunAction, At
<1>2. PICK k \in Keys : k = Key(r)
  BY <1>1
<1>3. PICK s \in HookSteps : s = call[r].step
  BY <1>1
<1>4. /\ effects' = [effects EXCEPT ![k][s] = @ + 1] /\ record' = record
      /\ unrecorded' = unrecorded
      /\ UNCHANGED <<response, entry, queued, served, torn, tries, sent, provider>>
  BY <1>2, <1>3 DEF RunAction, outside
<1>5. /\ record[k][s] = r /\ ~IsBranch(s) /\ s # call[r].inside
      /\ call[r].inside # 0 => IsBranch(call[r].inside) /\ record[k][call[r].inside] = r
  BY <1>1, <1>2, <1>3 DEF Leases, Rec
<1>6. /\ effects' \in [Keys -> [HookSteps -> Nat]]
      /\ \A j \in Keys, t \in HookSteps :
           effects'[j][t] = IF j = k /\ t = s THEN effects[k][s] + 1 ELSE effects[j][t]
  <2>1. effects \in [Keys -> [HookSteps -> Nat]]
    BY <1>1 DEF HookTypeOK
  <2>2. QED
    BY <1>4, <2>1, OneCounts
<1> DEFINE state == [call[r] EXCEPT !.pc = "mark"]
<1>7. call' = [call EXCEPT ![r] = state]
  BY DEF RunAction, Goto
<1>8. /\ state \in Calls /\ state.pc = "mark" /\ state.key = call[r].key
      /\ state.read = call[r].read /\ state.inside = call[r].inside /\ state.step = s
      /\ state.skipped = call[r].skipped /\ state.late = call[r].late
  BY <1>1, <1>3 DEF Calls
<1> HIDE DEF state
<1>9. call'[r] = state /\ state.key = k /\ Moved(r)
  BY <1>1, <1>2, <1>7, <1>8, RunnerMoves DEF HookCalls, Key
<1>10. ~Took(k, s) /\ Took(k, s)'
  <2>1. r # "done"
    BY StepsOfHook
  <2>2. ~Took(k, s)
    BY <1>1, <1>5, <2>1 DEF Took, At
  <2>3. Took(k, s)'
    BY <1>4, <1>5, <1>8, <1>9 DEF Took, At, Key
  <2>4. QED
    BY <2>2, <2>3
<1>11. \A j \in Keys, t \in HookSteps : j # k \/ t # s => (Took(j, t)' <=> Took(j, t))
  <2> SUFFICES ASSUME NEW j \in Keys, NEW t \in HookSteps, j # k \/ t # s
               PROVE  Took(j, t)' <=> Took(j, t)
    OBVIOUS
  <2>1. ~Unmarked(r, j, t) /\ ~Unmarked(r, j, t)'
    BY <1>1, <1>8, <1>9 DEF Unmarked, At, Key
  <2>2. QED
    BY <1>4, <1>9, <2>1, TookStays
<1>12. EffectsRecorded'
  <2> SUFFICES ASSUME NEW j \in Keys, NEW t \in HookSteps
               PROVE  effects'[j][t] = unrecorded'[j][t] + (IF Took(j, t)' THEN 1 ELSE 0)
    BY DEF EffectsRecorded
  <2>1. /\ effects[j][t] = unrecorded[j][t] + (IF Took(j, t) THEN 1 ELSE 0)
        /\ unrecorded[j][t] \in Nat /\ unrecorded'[j][t] = unrecorded[j][t]
    BY <1>1, <1>4 DEF HookInv, EffectsRecorded, HookTypeOK
  <2>2. CASE j = k /\ t = s
    BY <1>6, <1>10, <2>1, <2>2
  <2>3. CASE j # k \/ t # s
    BY <1>6, <1>11, <2>1, <2>3
  <2>4. QED
    BY <2>2, <2>3
<1>13. \A j \in Keys, t \in HookSteps : effects[j][t] > 0 => effects'[j][t] > 0
  <2>1. \A j \in Keys, t \in HookSteps : effects[j][t] \in Nat
    BY <1>1 DEF HookTypeOK
  <2>2. QED
    BY <1>6, <2>1
<1>14. OthersHold(r)
  BY <1>4, <1>13 DEF OthersHold
<1>15. Leases(r)'
  BY <1>3, <1>4, <1>5, <1>8, <1>9 DEF Leases, Key, Rec, IsBranch
<1>16. Ran(r)'
  <2>1. ~call[r].skipped => RanUpTo(k, s)
    BY <1>1, <1>2, <1>3 DEF Ran
  <2>2. ~call[r].skipped => RanUpTo(k, s)'
    BY <1>13, <2>1 DEF RanUpTo, IsBranch
  <2>3. QED
    BY <1>8, <1>9, <2>2 DEF Ran, Key, RanUpTo
<1>17. unrecorded' \in [Keys -> [HookSteps -> Nat]]
       /\ record' \in [Keys -> [HookSteps -> {"none", "over", "done"} \cup Runners]]
  BY <1>1, <1>4 DEF HookTypeOK
<1>18. QED
  BY <1>1, <1>4, <1>6, <1>7, <1>8, <1>12, <1>14, <1>15, <1>16, <1>17, WalkerKeeps

LEMMA MarkDoneKeeps ==
  ASSUME HookInv, NEW r \in Runners, MarkDone(r)
  PROVE  HookInv'
<1>1. /\ Walking(r) /\ call[r] \in Calls /\ HookTypeOK /\ Leases(r) /\ Ran(r)
      /\ call[r].step \in HookSteps /\ Key(r) \in Keys
      /\ call[r].step + 1 \in 1..(Len(WrapperOf) + 1)
      /\ call[r].pc = "mark"
      /\ r = "worker" => ~call[r].late /\ ~call[r].skipped
  BY Met DEF MarkDone, At
<1>2. PICK k \in Keys : k = Key(r)
  BY <1>1
<1>3. PICK s \in HookSteps : s = call[r].step
  BY <1>1
<1>4. /\ Mark(r, s, "done") /\ effects' = effects /\ unrecorded' = unrecorded
      /\ UNCHANGED <<response, entry, queued, served, torn, tries, sent, provider>>
  BY <1>2, <1>3 DEF MarkDone, outside
<1>5. /\ record[k][s] = r /\ ~IsBranch(s) /\ s # call[r].inside
      /\ call[r].inside # 0 => IsBranch(call[r].inside) /\ record[k][call[r].inside] = r
  BY <1>1, <1>2, <1>3 DEF Leases, Rec
<1>6. /\ record' \in [Keys -> [HookSteps -> {"none", "over", "done"} \cup Runners]]
      /\ record'[k][s] = "done"
      /\ \A j \in Keys, t \in HookSteps : j # k \/ t # s => record'[j][t] = record[j][t]
      /\ \A d \in Runners \ {r}, j \in Keys, t \in HookSteps :
              record[j][t] = d => record'[j][t] = d
  <2>1. /\ HookTypeOK /\ k = Key(r) /\ Mark(r, s, "done")
        /\ record[k][s] \in {"none", "over", r}
    BY <1>1, <1>2, <1>4, <1>5, Zenon
  <2>2. PICK own \in {"done"} \cup Runners : own = "done"
    OBVIOUS
  <2>3. Mark(r, s, own)
    BY <2>1, <2>2, Zenon
  <2>4. /\ record' \in [Keys -> [HookSteps -> {"none", "over", "done"} \cup Runners]]
        /\ record'[k][s] = own
        /\ \A j \in Keys, t \in HookSteps : j # k \/ t # s => record'[j][t] = record[j][t]
        /\ \A d \in Runners \ {r}, j \in Keys, t \in HookSteps :
                record[j][t] = d => record'[j][t] = d
    BY <2>1, <2>3, Marks
  <2>5. QED
    BY <2>2, <2>4
<1>7. OthersHold(r)
  BY <1>4, <1>6 DEF OthersHold
<1> DEFINE state == [call[r] EXCEPT !.pc = "walk", !.step = call[r].step + 1]
<1>8. call' = [call EXCEPT ![r] = state]
  BY DEF MarkDone
<1>9. /\ state \in Calls /\ state.pc = "walk" /\ state.key = call[r].key
      /\ state.read = call[r].read /\ state.inside = call[r].inside /\ state.step = s + 1
      /\ state.skipped = call[r].skipped /\ state.late = call[r].late
  BY <1>1, <1>3 DEF Calls
<1> HIDE DEF state
<1>10. call'[r] = state /\ state.key = k /\ Moved(r)
  BY <1>1, <1>2, <1>8, <1>9, RunnerMoves DEF HookCalls, Key
<1>11. Took(k, s) /\ Took(k, s)'
  <2>1. Took(k, s)
    BY <1>1, <1>2, <1>3, <1>5 DEF Took, At
  <2>2. Took(k, s)'
    BY <1>5, <1>6 DEF Took, IsBranch
  <2>3. QED
    BY <2>1, <2>2
<1>12. \A j \in Keys, t \in HookSteps : j # k \/ t # s => (Took(j, t)' <=> Took(j, t))
  <2> SUFFICES ASSUME NEW j \in Keys, NEW t \in HookSteps, j # k \/ t # s
               PROVE  Took(j, t)' <=> Took(j, t)
    OBVIOUS
  <2>1. ~Unmarked(r, j, t) /\ ~Unmarked(r, j, t)'
    BY <1>2, <1>3, <1>9, <1>10 DEF Unmarked, At
  <2>2. QED
    BY <1>6, <1>10, <2>1, TookStays
<1>13. EffectsRecorded'
  <2> SUFFICES ASSUME NEW j \in Keys, NEW t \in HookSteps
               PROVE  effects'[j][t] = unrecorded'[j][t] + (IF Took(j, t)' THEN 1 ELSE 0)
    BY DEF EffectsRecorded
  <2>1. Took(j, t)' <=> Took(j, t)
    BY <1>11, <1>12
  <2>2. QED
    BY <1>4, <2>1 DEF HookInv, EffectsRecorded
<1>14. Leases(r)'
  <2>1. call[r].inside \in HookSteps \cup {0}
    BY <1>1 DEF Calls
  <2>2. call[r].inside # 0 => record'[k][call[r].inside] = r
    BY <1>5, <1>6, <2>1
  <2>3. QED
    BY <1>5, <1>9, <1>10, <2>2 DEF Leases, Key, IsBranch
<1>15. ~call[r].skipped => RanUpTo(k, s + 1)'
  <2>1. \A t \in HookSteps : t < s + 1 => t < s \/ t = s
    BY StepsOfHook
  <2>2. ~call[r].skipped => RanUpTo(k, s)
    BY <1>1, <1>2, <1>3 DEF Ran
  <2>3. effects[k][s] > 0
    <3>1. effects[k][s] = unrecorded[k][s] + 1 /\ unrecorded[k][s] \in Nat
      BY <1>1, <1>11 DEF HookInv, EffectsRecorded, HookTypeOK
    <3>2. QED
      BY <3>1
  <2>4. QED
    BY <1>4, <2>1, <2>2, <2>3 DEF RanUpTo, IsBranch
<1>16. Ran(r)'
  BY <1>9, <1>10, <1>15 DEF Ran, Key, RanUpTo
<1>17. effects' \in [Keys -> [HookSteps -> Nat]] /\ unrecorded' \in [Keys -> [HookSteps -> Nat]]
  BY <1>1, <1>4 DEF HookTypeOK
<1>18. QED
  BY <1>1, <1>4, <1>6, <1>7, <1>8, <1>9, <1>13, <1>14, <1>16, <1>17, WalkerKeeps

LEMMA CloseBranchKeeps ==
  ASSUME HookInv, NEW r \in Runners, CloseBranch(r)
  PROVE  HookInv'
<1>1. /\ HookTypeOK /\ Leases(r) /\ Ran(r) /\ call[r].pc = "walk" /\ Walking(r)
      /\ call[r].inside # 0
  BY DEF HookInv, CloseBranch, At, Walking
<1>2. /\ call[r] \in Calls /\ call[r] # Away /\ Key(r) \in Keys /\ call[r].inside \in HookSteps
      /\ r = "worker" => ~call[r].late /\ ~call[r].skipped
  BY <1>1, Called DEF HookInv, WorkerWalks
<1>3. PICK k \in Keys : k = Key(r)
  BY <1>2
<1>4. PICK s \in HookSteps : s = call[r].inside
  BY <1>2
<1>5. /\ Mark(r, s, "done") /\ effects' = effects /\ unrecorded' = unrecorded
      /\ UNCHANGED <<response, entry, queued, served, torn, tries, sent, provider>>
  BY <1>4 DEF CloseBranch, outside
<1>6. record[k][s] = r /\ IsBranch(s)
  BY <1>1, <1>3, <1>4 DEF Leases
<1>7. /\ record' \in [Keys -> [HookSteps -> {"none", "over", "done"} \cup Runners]]
      /\ record'[k][s] = "done"
      /\ \A j \in Keys, t \in HookSteps : j # k \/ t # s => record'[j][t] = record[j][t]
      /\ \A d \in Runners \ {r}, j \in Keys, t \in HookSteps :
              record[j][t] = d => record'[j][t] = d
  <2>1. /\ HookTypeOK /\ k = Key(r) /\ Mark(r, s, "done")
        /\ record[k][s] \in {"none", "over", r}
    BY <1>1, <1>3, <1>5, <1>6, Zenon
  <2>2. "done" \in {"done"} \cup Runners
    OBVIOUS
  <2>3. QED
    BY <2>1, <2>2, Marks
<1>8. OthersHold(r)
  BY <1>5, <1>7 DEF OthersHold
<1>9. Moved(r) /\ ~At(r, "mark")' => EffectsRecorded'
  <2> SUFFICES ASSUME Moved(r), ~At(r, "mark")' PROVE EffectsRecorded'
    OBVIOUS
  <2>1. \A j \in Keys, t \in HookSteps : ~Unmarked(r, j, t) /\ ~Unmarked(r, j, t)'
    BY <1>1 DEF Unmarked, At
  <2>2. \A j \in Keys, t \in HookSteps : j # k \/ t # s => (Took(j, t)' <=> Took(j, t))
    BY <1>7, <2>1, TookStays
  <2>3. ~Took(k, s) /\ ~Took(k, s)'
    <3>1. r # "done" /\ "done" \notin Runners
      BY StepsOfHook
    <3>2. QED
      BY <1>1, <1>6, <1>7, <3>1 DEF Took, At, IsBranch
  <2>4. \A j \in Keys, t \in HookSteps : Took(j, t)' <=> Took(j, t)
    BY <2>2, <2>3
  <2>5. QED
    BY <1>5, <2>4 DEF HookInv, EffectsRecorded
<1>10. effects' \in [Keys -> [HookSteps -> Nat]] /\ unrecorded' \in [Keys -> [HookSteps -> Nat]]
  BY <1>1, <1>5 DEF HookTypeOK
<1> DEFINE state == [call[r] EXCEPT !.inside = 0]
<1>11. call' = [call EXCEPT ![r] = state]
  BY DEF CloseBranch
<1>12. /\ state \in Calls /\ state.pc = "walk" /\ state.key = call[r].key
       /\ state.read = call[r].read /\ state.inside = 0 /\ state.step = call[r].step
       /\ state.skipped = call[r].skipped /\ state.late = call[r].late
  BY <1>1, <1>2 DEF Calls
<1> HIDE DEF state
<1>13. call'[r] = state /\ Moved(r) /\ ~At(r, "mark")'
  BY <1>1, <1>11, <1>12, RunnerMoves DEF HookCalls, At
<1>14. Leases(r)'
  BY <1>12, <1>13 DEF Leases
<1>15. Ran(r)'
  BY <1>1, <1>5, <1>12, <1>13 DEF Ran, Key, RanUpTo, Walking
<1>16. QED
  BY <1>1, <1>2, <1>5, <1>7, <1>8, <1>9, <1>10, <1>11, <1>12, <1>13, <1>14, <1>15, WalkerKeeps

(* A runner that stops and drops its leases.                               *)
LEMMA StopKeeps ==
  ASSUME HookInv, NEW r \in Runners, call[r] # Away, call' = [call EXCEPT ![r] = Away], Drop(r),
         UNCHANGED <<response, entry, queued, effects, tries, sent, provider, served>>,
         torn \subseteq torn', torn' \subseteq Keys, r \in Requests => Key(r) \in torn'
  PROVE  HookInv'
<1>1. HookTypeOK /\ Moved(r) /\ call'[r] = Away /\ ~At(r, "mark")'
  <2>1. HookTypeOK /\ Moved(r) /\ call'[r] = Away
    BY RunnerMoves DEF HookInv, HookCalls
  <2>2. QED
    BY <2>1 DEF At, Away
<1>2. /\ record' \in [Keys -> [HookSteps -> {"none", "over", "done"} \cup Runners]]
      /\ unrecorded' \in [Keys -> [HookSteps -> Nat]]
      /\ OthersHold(r) /\ EffectsRecorded'
  BY <1>1, Drops
<1>3. HookTypeOK' /\ EffectOnce'
  <2>1. HookTypeOK'
    BY <1>1, <1>2 DEF HookTypeOK, Moved, HookCalls
  <2>2. ASSUME NEW k \in Keys, NEW s \in HookSteps
        PROVE  effects'[k][s] <= 1 + unrecorded'[k][s]
    <3>1. unrecorded'[k][s] \in Nat
      BY <1>2
    <3>2. \/ effects'[k][s] = unrecorded'[k][s] + 0
          \/ effects'[k][s] = unrecorded'[k][s] + 1
      BY <1>2 DEF EffectsRecorded
    <3>3. QED
      BY <3>1, <3>2
  <2>3. EffectOnce'
    BY <2>2 DEF EffectOnce
  <2>4. QED
    BY <2>1, <2>3
<1>4. AcceptedIsServed'
  BY DEF HookInv, AcceptedIsServed, IsBranch
<1>5. LiveOwned'
  <2>1. \A k \in Live : r \in Requests /\ Owns(r, k) => k \in torn'
    BY DEF Owns
  <2>2. QED
    BY <1>1, <2>1, EntriesStand
<1>6. Leases(r)' /\ Ran(r)' /\ ReadSet(r)' /\ (r = "worker" => WorkerWalks')
  BY <1>1, AwayKnows
<1>7. QED
  BY <1>1, <1>2, <1>3, <1>4, <1>5, <1>6, OneCallMoves

LEMMA WalkFailsKeeps ==
  ASSUME HookInv, NEW r \in Runners, WalkFails(r)
  PROVE  HookInv'
<1>1. /\ Walking(r) /\ call[r] \in Calls /\ HookTypeOK /\ call[r] # Away /\ Key(r) \in Keys
  BY Met DEF WalkFails, At
<1>2. /\ Drop(r) /\ effects' = effects
      /\ UNCHANGED <<response, entry, queued, served, torn, tries, sent, provider>>
  BY DEF WalkFails, outside
<1>3. CASE r = "worker"
  <2>1. call' = [call EXCEPT ![r] = Away]
    BY <1>3 DEF WalkFails
  <2>2. r \notin Requests /\ torn \subseteq Keys
    BY <1>1, <1>3, StepsOfHook DEF HookTypeOK
  <2>3. QED
    BY <1>1, <1>2, <2>1, <2>2, StopKeeps
<1>4. CASE r # "worker"
  <2> DEFINE state == [call[r] EXCEPT !.pc = "release"]
  <2>1. call' = [call EXCEPT ![r] = state]
    BY <1>4 DEF WalkFails, Goto
  <2>2. /\ state \in Calls /\ state.pc = "release" /\ state.key = call[r].key
        /\ state.read = call[r].read
    BY <1>1 DEF Calls
  <2> HIDE DEF state
  <2>3. call'[r] = state /\ Moved(r) /\ ~At(r, "mark")'
    BY <1>1, <2>1, <2>2, RunnerMoves DEF HookCalls, At
  <2>4. r \in Requests
    BY <1>4 DEF Runners
  <2>5. Leases(r)' /\ Ran(r)'
    BY <2>2, <2>3, <2>4, OutsideKnows
  <2>6. /\ record' \in [Keys -> [HookSteps -> {"none", "over", "done"} \cup Runners]]
        /\ unrecorded' \in [Keys -> [HookSteps -> Nat]]
        /\ OthersHold(r) /\ EffectsRecorded'
    BY <1>1, <1>2, <2>3, Drops
  <2>7. effects' \in [Keys -> [HookSteps -> Nat]]
    BY <1>1, <1>2 DEF HookTypeOK
  <2>8. QED
    BY <1>1, <1>2, <1>4, <2>1, <2>2, <2>5, <2>6, <2>7, WalkerKeeps
<1>5. QED
  BY <1>3, <1>4

LEMMA RequestDiesKeeps ==
  ASSUME HookInv, NEW r \in Runners, RequestDies(r)
  PROVE  HookInv'
<1>1. HookTypeOK /\ call[r] # Away
  BY DEF HookInv, RequestDies
<1>2. Key(r) \in Keys
  BY <1>1, Called
<1>3. /\ Drop(r) /\ call' = [call EXCEPT ![r] = Away]
      /\ UNCHANGED <<response, entry, queued, effects, tries, sent, provider, served>>
      /\ torn' = IF r = "worker" THEN torn ELSE torn \cup {Key(r)}
  BY DEF RequestDies, outside
<1>4. torn \subseteq torn' /\ torn' \subseteq Keys /\ (r \in Requests => Key(r) \in torn')
  BY <1>1, <1>2, <1>3, StepsOfHook DEF HookTypeOK
<1>5. QED
  BY <1>1, <1>3, <1>4, StopKeeps

(* What the worker does with the queue leaves the rest alone.              *)
LEMMA WorkerKeeps ==
  ASSUME HookInv, NEW state \in HookCalls, call' = [call EXCEPT !["worker"] = state],
         UNCHANGED <<response, entry, walk, outside, served, torn>>,
         queued' \subseteq Keys, call["worker"].pc # "mark",
         \A k \in served : k \in queued => k \in queued' \/ RanUpTo(k, Len(WrapperOf) + 1),
         \/ state = Away
         \/ /\ state # Away /\ state.pc = "walk" /\ state.inside = 0 /\ state.step = 1
            /\ state.read = {} /\ ~state.late /\ ~state.skipped
  PROVE  HookInv'
<1> DEFINE w == "worker"
<1>1. w \in Runners /\ w \notin Requests /\ HookTypeOK
  BY StepsOfHook DEF HookInv, Runners
<1>2. Moved(w) /\ call'[w] = state
  BY <1>1, RunnerMoves
<1>3. /\ UNCHANGED walk /\ record' = record /\ effects' = effects
      /\ unrecorded' = unrecorded /\ entry' = entry
      /\ served' = served /\ torn' = torn /\ response' = response
      /\ provider' = provider /\ tries' = tries /\ sent' = sent
  BY DEF walk, outside
<1>4. HookTypeOK'
  BY <1>1, <1>2, <1>3 DEF HookTypeOK, Moved, HookCalls
<1>5. EffectOnce' /\ EffectsRecorded' /\ AcceptedIsServed'
  <2>1. ~At(w, "mark") /\ ~At(w, "mark")'
    BY <1>2 DEF At, Away
  <2>2. QED
    BY <1>1, <1>2, <1>3, <2>1, NothingRuns
<1>6. OthersHold(w)
  BY <1>3 DEF OthersHold
<1>7. LiveOwned'
  BY <1>1, <1>2, <1>3, EntriesStand
<1>8. Leases(w)' /\ Ran(w)' /\ ReadSet(w)' /\ WorkerWalks'
  <2>1. CASE state = Away
    BY <1>2, <2>1, AwayKnows
  <2>2. CASE state # Away /\ state.pc = "walk" /\ state.inside = 0 /\ state.step = 1
             /\ state.read = {} /\ ~state.late /\ ~state.skipped
    <3>1. \A k : RanUpTo(k, 1)'
      BY StepsOfHook DEF RanUpTo
    <3>2. RanUpTo(Key(w), call[w].step)'
      BY <1>2, <2>2, <3>1 DEF Key, RanUpTo
    <3>3. Ran(w)'
      BY <1>2, <2>2, <3>2 DEF Ran
    <3>4. Leases(w)' /\ ReadSet(w)' /\ WorkerWalks'
      BY <1>2, <2>2 DEF Leases, ReadSet, WorkerWalks, Walking
    <3>5. QED
      BY <3>3, <3>4
  <2>3. QED
    BY <2>1, <2>2
<1>9. QED
  BY <1>1, <1>2, <1>4, <1>5, <1>6, <1>7, <1>8, OneCallMoves

LEMMA ConsumeKeeps ==
  ASSUME HookInv, NEW k \in Keys, Consume(k)
  PROVE  HookInv'
<1> DEFINE state == [Serving(k) EXCEPT !.pc = "walk"]
<1>1. call' = [call EXCEPT !["worker"] = state]
  BY DEF Consume
<1>2. tries[k] + 1 \in Nat
  BY DEF HookInv, HookTypeOK
<1>3. Serving(k) \in Calls
  BY <1>2, StepsOfHook DEF Serving, Calls
<1>4. /\ state \in Calls /\ state.pc = "walk" /\ state.inside = 0 /\ state.step = 1
      /\ state.read = {} /\ ~state.late /\ ~state.skipped
  <2>1. \A x \in Calls :
          /\ [x EXCEPT !.pc = "walk"] \in Calls /\ [x EXCEPT !.pc = "walk"].pc = "walk"
          /\ [x EXCEPT !.pc = "walk"].inside = x.inside /\ [x EXCEPT !.pc = "walk"].step = x.step
          /\ [x EXCEPT !.pc = "walk"].read = x.read /\ [x EXCEPT !.pc = "walk"].late = x.late
          /\ [x EXCEPT !.pc = "walk"].skipped = x.skipped
    BY DEF Calls
  <2>2. /\ Serving(k).inside = 0 /\ Serving(k).step = 1 /\ Serving(k).read = {}
        /\ Serving(k).late = FALSE /\ Serving(k).skipped = FALSE
    BY DEF Serving
  <2>3. QED
    BY <1>3, <2>1, <2>2
<1> HIDE DEF state
<1>5. state # Away /\ state \in HookCalls
  BY <1>4 DEF Away, HookCalls
<1>6. /\ UNCHANGED <<response, entry, walk, outside, served, torn>> /\ queued' = queued
      /\ queued \subseteq Keys /\ call["worker"].pc = "idle"
  BY DEF Consume, HookInv, HookTypeOK, Away
<1>7. QED
  BY <1>1, <1>4, <1>5, <1>6, WorkerKeeps

LEMMA ConsumedKeeps ==
  ASSUME HookInv, Consumed
  PROVE  HookInv'
<1> DEFINE w == "worker"
<1>1. w \in Runners /\ call[w] # Away
  BY Called DEF Runners, Consumed, At, HookInv
<1>2. ~call[w].skipped /\ call[w].inside = 0 /\ At(w, "walk") /\ ChainEnded(w)
  BY <1>1 DEF Consumed, HookInv, WorkerWalks
<1>3. RanUpTo(Key(w), Len(WrapperOf) + 1)
  BY <1>1, <1>2, WalkedThrough
<1>4. /\ queued' = queued \ {Key(w)} /\ call' = [call EXCEPT ![w] = Away]
      /\ UNCHANGED <<response, entry, walk, outside, served, torn>> /\ queued \subseteq Keys
      /\ call[w].pc = "walk"
  BY DEF Consumed, HookInv, HookTypeOK, At
<1>5. QED
  BY <1>3, <1>4, WorkerKeeps DEF HookCalls

-----------------------------------------------------------------------------
(* The webhook: its theorems.                                              *)

LEMMA HookInitInv == HookInit => HookInv
<1> SUFFICES ASSUME HookInit PROVE HookInv
  OBVIOUS
<1>1. \A r \in Runners : call[r] = Away /\ call[r].pc = "idle"
  BY DEF HookInit, Away
<1>2. HookTypeOK
  BY HookAssumption DEF HookInit, HookTypeOK
<1>3. "worker" \in Runners
  BY DEF Runners
<1>4. \A r \in Runners : Leases(r) /\ Ran(r) /\ ReadSet(r)
  BY <1>1 DEF Leases, Ran, ReadSet, Walking
<1>5. WorkerWalks /\ LiveOwned
  BY <1>1, <1>3 DEF WorkerWalks, LiveOwned, Live, HookInit
<1>6. EffectOnce /\ AcceptedIsServed /\ EffectsRecorded
  <2>1. \A k \in Keys, s \in HookSteps : ~Took(k, s)
    BY <1>1 DEF Took, At, HookInit
  <2>2. QED
    BY <2>1 DEF HookInit, EffectOnce, AcceptedIsServed, EffectsRecorded
<1>7. QED
  BY <1>2, <1>4, <1>5, <1>6 DEF HookInv

LEMMA HookInvKept == HookInv /\ [HookNext]_hookVars => HookInv'
<1> SUFFICES ASSUME HookInv, [HookNext]_hookVars PROVE HookInv'
  OBVIOUS
<1>1. CASE UNCHANGED hookVars
  BY <1>1 DEF hookVars, HookInv, HookTypeOK, EffectOnce, AcceptedIsServed, EffectsRecorded,
              Leases, Ran, ReadSet, WorkerWalks, LiveOwned, Owns, Live, Walking, Key, Rec,
              RanUpTo, IsBranch, Took, At
<1>2. ASSUME NEW r \in Requests, RequestNext(r) PROVE HookInv'
  BY <1>2, SendKeeps, ClaimingKeeps, ReleasingKeeps, PublishingKeeps DEF RequestNext
<1>3. ASSUME NEW r \in Runners, WalkNext(r) PROVE HookInv'
  BY <1>3, SkipLateKeeps, TakeStepKeeps, PassStepKeeps, RunActionKeeps, MarkDoneKeeps,
     CloseBranchKeeps, WalkFailsKeeps DEF WalkNext
<1>4. CASE HookNext
  BY <1>2, <1>3, <1>4, RequestDiesKeeps, ConsumeKeeps, ConsumedKeeps DEF HookNext
<1>5. QED
  BY <1>1, <1>4

THEOREM HookInvariant == HookSpec => []HookInv
<1>1. QED
  BY HookInitInv, HookInvKept, PTL DEF HookSpec

(* A step of a delivery takes effect once, and once more for every runner  *)
(* that broke between the effect and its record (_mark_completed is a      *)
(* write behind the connector call): no retry of the provider, claim,      *)
(* release or replay of the tail adds an effect of its own.                *)
THEOREM HookEffectsOnce == HookSpec => []EffectOnce
<1>1. HookInv => EffectOnce
  BY DEF HookInv
<1>2. QED
  BY <1>1, HookInvariant, PTL

(* What was answered as accepted is queued, or has run.                    *)
THEOREM HookServesAccepted == HookSpec => []AcceptedIsServed
<1>1. HookInv => AcceptedIsServed
  BY DEF HookInv
<1>2. QED
  BY <1>1, HookInvariant, PTL

(* A delivery that failed for the provider can be delivered again.         *)
THEOREM HookRetriesFailed == HookSpec => []FailedIsRetryable
<1>1. HookInv => FailedIsRetryable
  <2> SUFFICES ASSUME HookInv, NEW k \in Keys, \A r \in Runners : call[r] # Away => Key(r) # k,
                      k \in Live
               PROVE  k \in served \cup torn
    BY DEF FailedIsRetryable, Live
  <2>1. \A r \in Requests : ~Owns(r, k)
    BY Called DEF Owns, Runners, HookInv
  <2>2. QED
    BY <2>1 DEF HookInv, LiveOwned
<1>2. QED
  BY <1>1, HookInvariant, PTL

-----------------------------------------------------------------------------
(* The account's listing.                                                  *)

(* Of some numbers, one is the least.                                      *)
LEMMA LeastOf ==
  ASSUME NEW S, S \subseteq Nat, S # {}
  PROVE  \E m \in S : \A j \in S : m <= j
<1> DEFINE Less == OpToRel(<, Nat)
<1>1. PICK m \in S : \A j \in S : ~(<<j, m>> \in Less)
  <2>1. IsWellFoundedOn(Less, Nat)
    BY NatLessThanWellFounded
  <2> HIDE DEF Less
  <2>2. QED
    BY <2>1, WFMin, Zenon
<1>2. \A j \in S : m <= j
  <2> SUFFICES ASSUME NEW j \in S PROVE m <= j
    OBVIOUS
  <2>1. ~(j < m)
    BY <1>1 DEF OpToRel
  <2>2. QED
    BY <2>1
<1>3. QED
  BY <1>2

(* The entry an invocation is at is one of its page.                       *)
LEMMA EntryIsListed ==
  ASSUME NEW r \in Resolvers, resolver[r].entries \subseteq Nat, resolver[r].entries # {}
  PROVE  Entry(r) \in resolver[r].entries
<1>1. PICK m \in resolver[r].entries : \A j \in resolver[r].entries : m <= j
  BY LeastOf
<1>2. QED
  BY <1>1, Zenon DEF Entry

(* What an invocation holds, by where it is.                               *)
LEMMA AccountHolds ==
  ASSUME DropInv, NEW r \in Resolvers
  PROVE  /\ resolver[r].pc \in {"resting", "list", "entries", "publish"}
         /\ resolver[r].pc = "resting" <=> resolver[r] = Resting
         /\ resolver[r].pc # "resting" =>
              resolver[r].at \in 0 .. Len(account) /\ resolver[r].fresh \in BOOLEAN
         /\ resolver[r].pc \in {"entries", "publish"} =>
              /\ resolver[r] \in [pc : {"entries", "publish"}, at : Nat, fresh : BOOLEAN,
                                  entries : SUBSET Nat, more : BOOLEAN]
              /\ resolver[r].entries \subseteq 1 .. resolver[r].at
              /\ resolver[r].entries # {} =>
                   Entry(r) \in resolver[r].entries /\ Entry(r) \in 1 .. Len(account)
         /\ resolver[r].pc = "publish" => resolver[r].entries # {}
         /\ Len(account) \in Nat
<1>1. resolver[r] \in Invocations /\ Walked(r) /\ Len(account) \in Nat
  BY DEF DropInv, DropTypeOK
<1>2. /\ resolver[r].pc \in {"resting", "list", "entries", "publish"}
      /\ resolver[r].pc = "resting" <=> resolver[r] = Resting
      /\ resolver[r].pc # "resting" =>
           /\ resolver[r].at \in Nat /\ resolver[r].fresh \in BOOLEAN
           /\ resolver[r] # Resting
      /\ resolver[r].pc \in {"entries", "publish"} =>
           /\ resolver[r] \in [pc : {"entries", "publish"}, at : Nat, fresh : BOOLEAN,
                               entries : SUBSET Nat, more : BOOLEAN]
  BY <1>1 DEF Invocations, Resting
<1>3. resolver[r].pc # "resting" => resolver[r].at \in 0 .. Len(account)
  BY <1>1, <1>2 DEF Walked
<1>4. /\ resolver[r].pc \in {"entries", "publish"} =>
           resolver[r].entries \subseteq 1 .. resolver[r].at
      /\ resolver[r].pc = "publish" => resolver[r].entries # {}
  BY <1>1, <1>2 DEF Walked
<1>5. ASSUME resolver[r].pc \in {"entries", "publish"}, resolver[r].entries # {}
      PROVE  Entry(r) \in resolver[r].entries /\ Entry(r) \in 1 .. Len(account)
  <2>1. resolver[r].entries \subseteq Nat
    BY <1>2, <1>5
  <2>2. Entry(r) \in resolver[r].entries
    BY <1>5, <2>1, EntryIsListed
  <2>3. resolver[r].at \in 0 .. Len(account) /\ Entry(r) \in 1 .. resolver[r].at
    BY <1>2, <1>3, <1>4, <1>5, <2>2
  <2>4. QED
    BY <1>1, <2>2, <2>3
<1>6. QED
  BY <1>1, <1>2, <1>3, <1>4, <1>5

(* The account only grows: what was listed by then stays what it was.      *)
AccountGrows ==
    /\ Len(account') \in Nat /\ Len(account) <= Len(account')
    /\ \A i \in 1 .. Len(account) : account'[i] = account[i]

LEMMA CurrentBefore ==
  ASSUME DropInv, AccountGrows, NEW i \in 1 .. Len(account), Current(i)'
  PROVE  Current(i)
<1>1. Len(account) \in Nat
  BY DEF DropInv, DropTypeOK
<1> SUFFICES ASSUME NEW j \in i + 1 .. Len(account) PROVE account[j].file # account[i].file
  BY DEF Current
<1>2. j \in i + 1 .. Len(account') /\ j \in 1 .. Len(account)
  BY <1>1 DEF AccountGrows
<1>3. account'[j].file # account'[i].file
  BY <1>2 DEF Current
<1>4. QED
  BY <1>2, <1>3 DEF AccountGrows

(* What is settled stays settled, unless an event in hand is let go.       *)
LEMMA StaysSettled ==
  ASSUME DropInv, AccountGrows, NEW r \in Resolvers, \A s \in Resolvers \ {r} : resolver'[s] = resolver[s],
         published \subseteq published', swallowed \subseteq swallowed', hidden \subseteq hidden',
         resolver[r].pc = "publish" /\ ~Gone(Entry(r)) =>
           \/ resolver'[r] = resolver[r]
           \/ EventId(Entry(r)) \in published' \/ Entry(r) \in swallowed',
         NEW i \in 1 .. Len(account), Settled(i)
  PROVE  Settled(i)'
<1>1. account'[i] = account[i]
  BY DEF AccountGrows
<1>2. Gone(i)' = Gone(i) /\ EventId(i)' = EventId(i)
  BY <1>1 DEF Gone, EventId
<1>3. CASE EventId(i) \in published \/ i \in swallowed \cup hidden
  BY <1>2, <1>3 DEF Settled
<1>4. CASE ~Gone(i) /\ InHand(i)
  <2>1. PICK s \in Resolvers : resolver[s].pc = "publish" /\ Entry(s) = i
    BY <1>4 DEF InHand
  <2>2. CASE resolver'[s] = resolver[s]
    <3>1. resolver'[s].pc = "publish" /\ Entry(s)' = i
      BY <2>1, <2>2 DEF Entry
    <3>2. QED
      BY <1>2, <1>4, <3>1 DEF Settled, InHand
  <2>3. CASE resolver'[s] # resolver[s]
    <3>1. s = r
      BY <2>3
    <3>2. EventId(i) \in published' \/ i \in swallowed'
      BY <1>4, <2>1, <2>3, <3>1
    <3>3. QED
      BY <1>2, <3>2 DEF Settled
  <2>4. QED
    BY <2>2, <2>3
<1>5. QED
  BY <1>3, <1>4 DEF Settled

(* A step that settles nothing anew keeps what the others know.            *)
LEMMA StillKnown ==
  ASSUME DropInv, AccountGrows, \A i \in 1 .. Len(account) : Settled(i) => Settled(i)'
  PROVE  /\ \A i \in 1 .. Len(account) : (Current(i) => Settled(i)) => (Current(i)' => Settled(i)')
         /\ \A r \in Resolvers : resolver'[r] = resolver[r] => Walked(r)'
         /\ \A f \in Files : rev'[f] = rev[f] => RowKnows(f)'
         /\ cursor' \in {0, cursor} => CursorKnows'
<1>1. Len(account) \in Nat /\ cursor \in 0 .. Len(account)
  BY DEF DropInv, DropTypeOK
<1>2. \A i \in 1 .. Len(account) : (Current(i) => Settled(i)) => (Current(i)' => Settled(i)')
  BY CurrentBefore
<1>3. ASSUME NEW r \in Resolvers, resolver'[r] = resolver[r] PROVE Walked(r)'
  <2> SUFFICES ASSUME resolver[r] # Resting PROVE Walked(r)'
    BY <1>3 DEF Walked
  <2>1. resolver[r].pc # "resting" /\ Walked(r)
    BY AccountHolds DEF DropInv
  <2>2. resolver[r].at \in 0 .. Len(account) /\ resolver'[r].at <= Len(account')
    BY <1>1, <1>3, <2>1, AccountHolds DEF AccountGrows
  <2>3. \A i \in 1 .. resolver[r].at : i \in 1 .. Len(account)
    BY <1>1, <2>2
  <2>4. resolver[r].pc # "list" =>
          /\ resolver[r].entries \subseteq 1 .. resolver[r].at
          /\ \A i \in 1 .. resolver[r].at \ resolver[r].entries : Current(i)' => Settled(i)'
    BY <1>2, <2>1, <2>3 DEF Walked
  <2>5. resolver[r].pc = "list" =>
          \A i \in 1 .. resolver[r].at : Current(i)' => Settled(i)'
    BY <1>2, <2>1, <2>3 DEF Walked
  <2>6. resolver[r].pc = "publish" => resolver[r].entries # {}
    BY <2>1 DEF Walked
  <2>7. QED
    BY <1>3, <2>2, <2>4, <2>5, <2>6 DEF Walked
<1>4. ASSUME NEW f \in Files, rev'[f] = rev[f] PROVE RowKnows(f)'
  <2> SUFFICES ASSUME rev[f] # 0 PROVE RowKnows(f)'
    BY <1>4 DEF RowKnows
  <2>1. /\ rev[f] \in 1 .. Len(account) /\ account[rev[f]].file = f
        /\ ~Gone(rev[f]) /\ Settled(rev[f])
    BY <1>1 DEF DropInv, DropTypeOK, RowKnows
  <2>2. PICK i \in 1 .. Len(account) : i = rev[f]
    BY <2>1
  <2>3. account'[i] = account[i] /\ Settled(i)' /\ i <= Len(account')
    BY <1>1, <2>1, <2>2 DEF AccountGrows
  <2>4. rev'[f] = i /\ account'[i].file = f /\ account'[i].what # "deleted"
    BY <1>4, <2>1, <2>2, <2>3 DEF Gone
  <2>5. Settled(rev[f])'
    BY <2>3, <2>4 DEF Settled, Gone, EventId, InHand
  <2>6. QED
    BY <2>3, <2>4, <2>5 DEF RowKnows, Gone
<1>5. ASSUME cursor' \in {0, cursor} PROVE CursorKnows'
  <2>1. \A i \in 1 .. cursor' : i \in 1 .. cursor /\ i \in 1 .. Len(account)
    BY <1>1, <1>5
  <2>2. QED
    BY <1>2, <2>1 DEF DropInv, CursorKnows
<1>6. QED
  BY <1>2, <1>3, <1>4, <1>5

(* An invocation moves, and the queue keeps a notification for everyone    *)
(* at work.                                                                *)
LEMMA OneMoves ==
  ASSUME DropInv, NEW r \in Resolvers, resolver[r] # Resting, NEW state \in Invocations,
         state # Resting, Moves(r, state)
  PROVE  /\ resolver' \in [Resolvers -> Invocations]
         /\ resolver'[r] = state
         /\ \A s \in Resolvers \ {r} : resolver'[s] = resolver[s]
         /\ notified' = notified => InFlight'
<1>1. /\ resolver' \in [Resolvers -> Invocations] /\ resolver'[r] = state
      /\ \A s \in Resolvers \ {r} : resolver'[s] = resolver[s]
  BY DEF DropInv, DropTypeOK, Moves
<1>2. {s \in Resolvers : resolver'[s] # Resting} = {s \in Resolvers : resolver[s] # Resting}
  BY <1>1
<1>3. QED
  BY <1>1, <1>2 DEF DropInv, InFlight

(* A step of one invocation that leaves the account alone.                 *)
LEMMA OneStep ==
  ASSUME DropInv, account' = account, NEW r \in Resolvers,
         \A s \in Resolvers \ {r} : resolver'[s] = resolver[s],
         \A i \in 1 .. Len(account) : Settled(i) => Settled(i)',
         DropTypeOK', InFlight', Walked(r)', cursor' \in {0, cursor} \/ CursorKnows',
         \A f \in Files : rev'[f] = rev[f] \/ RowKnows(f)'
  PROVE  DropInv'
<1>1. AccountGrows
  BY DEF AccountGrows, DropInv, DropTypeOK
<1>2. \A s \in Resolvers : Walked(s)'
  BY <1>1, StillKnown
<1>3. CursorKnows' /\ \A f \in Files : RowKnows(f)'
  BY <1>1, StillKnown
<1>4. QED
  BY <1>2, <1>3 DEF DropInv

(* As the account stands, the same is current.                             *)
LEMMA SameAccount ==
  ASSUME DropInv, account' = account
  PROVE  AccountGrows /\ \A i \in 1 .. Len(account) : Current(i)' = Current(i)
BY DEF AccountGrows, DropInv, DropTypeOK, Current

LEMMA ChangeFileKeeps ==
  ASSUME DropInv, NEW f \in Files, NEW what \in {"put", "deleted"}, ChangeFile(f, what)
  PROVE  DropInv'
<1> DEFINE change == [file |-> f, what |-> what]
<1>1. /\ account' = Append(account, change) /\ notified' = notified + 1
      /\ UNCHANGED <<cursor, rev, resolver, published, swallowed, hidden>>
  BY DEF ChangeFile, faultNotes
<1>2. account \in Seq(Changes) /\ change \in Changes /\ notified \in Nat /\ Len(account) \in Nat
  BY DEF DropInv, DropTypeOK, Changes
<1> HIDE DEF change
<1>3. account' \in Seq(Changes) /\ Len(account') = Len(account) + 1
      /\ \A i \in 1 .. Len(account) : account'[i] = account[i]
  BY <1>1, <1>2
<1>4. AccountGrows
  BY <1>2, <1>3 DEF AccountGrows
<1>5. DropTypeOK'
  <2>1. cursor' \in 0 .. Len(account')
    BY <1>1, <1>2, <1>3 DEF DropInv, DropTypeOK
  <2>2. swallowed' \cup hidden' \subseteq 1 .. Len(account')
    BY <1>1, <1>2, <1>3 DEF DropInv, DropTypeOK
  <2>3. QED
    BY <1>1, <1>2, <1>3, <2>1, <2>2 DEF DropInv, DropTypeOK
<1>6. InFlight'
  <2> DEFINE AtWork == {s \in Resolvers : resolver[s] # Resting}
  <2>1. IsFiniteSet(AtWork)
    BY DeltaAssumption, FS_Subset
  <2>2. Cardinality(AtWork) <= notified
    BY DEF DropInv, InFlight
  <2>3. {s \in Resolvers : resolver'[s] # Resting} = AtWork
    BY <1>1
  <2> HIDE DEF AtWork
  <2>4. Cardinality(AtWork) \in Nat
    BY <2>1, FS_CardinalityType
  <2>5. Cardinality(AtWork) <= notified'
    BY <1>1, <1>2, <2>2, <2>4
  <2>6. QED
    BY <2>3, <2>5 DEF InFlight
<1>7. \A i \in 1 .. Len(account) : Settled(i) => Settled(i)'
  <2> SUFFICES ASSUME NEW i \in 1 .. Len(account), Settled(i) PROVE Settled(i)'
    OBVIOUS
  <2>1. account'[i] = account[i]
    BY <1>3
  <2>2. InHand(i)' = InHand(i)
    BY <1>1 DEF InHand, Entry
  <2>3. Gone(i)' = Gone(i) /\ EventId(i)' = EventId(i)
    BY <2>1 DEF Gone, EventId
  <2>4. QED
    BY <1>1, <2>2, <2>3 DEF Settled
<1>8. QED
  BY <1>1, <1>4, <1>5, <1>6, <1>7, StillKnown DEF DropInv

LEMMA LoseCursorKeeps ==
  ASSUME DropInv, LoseCursor
  PROVE  DropInv'
<1>1. /\ cursor' = 0
      /\ UNCHANGED <<account, notified, rev, resolver, published, swallowed, hidden>>
  BY DEF LoseCursor
<1>2. AccountGrows
  BY <1>1, SameAccount
<1>3. DropTypeOK' /\ InFlight'
  BY <1>1 DEF DropInv, DropTypeOK, InFlight
<1>4. \A i \in 1 .. Len(account) : Settled(i) => Settled(i)'
  BY <1>1 DEF Settled, Gone, EventId, InHand, Entry
<1>5. QED
  BY <1>1, <1>2, <1>3, <1>4, StillKnown DEF DropInv

LEMMA NotifyKeeps ==
  ASSUME DropInv, NEW r \in Resolvers, Notify(r)
  PROVE  DropInv'
<1> DEFINE state == [pc |-> "list", at |-> cursor, fresh |-> cursor = 0]
           AtWork == {s \in Resolvers : resolver[s] # Resting}
<1>1. /\ resolver[r] = Resting /\ Moves(r, state) /\ notified > Cardinality(AtWork)
      /\ UNCHANGED <<account, notified, cursor, rev, published, swallowed, hidden>>
  BY DEF Notify, faultNotes
<1>2. cursor \in 0 .. Len(account) /\ notified \in Nat /\ Len(account) \in Nat
  BY DEF DropInv, DropTypeOK
<1>3. state \in Invocations /\ state # Resting
  BY <1>2 DEF Invocations, Resting
<1>4. /\ resolver' \in [Resolvers -> Invocations] /\ resolver'[r] = state
      /\ \A s \in Resolvers \ {r} : resolver'[s] = resolver[s]
  BY <1>1, <1>3 DEF DropInv, DropTypeOK, Moves
<1>5. InFlight'
  <2>1. IsFiniteSet(AtWork)
    BY DeltaAssumption, FS_Subset
  <2>2. {s \in Resolvers : resolver'[s] # Resting} = AtWork \cup {r}
    BY <1>1, <1>3, <1>4
  <2>3. r \notin AtWork
    BY <1>1
  <2> HIDE DEF AtWork
  <2>4. Cardinality(AtWork \cup {r}) = Cardinality(AtWork) + 1 /\ Cardinality(AtWork) \in Nat
    BY <2>1, <2>3, FS_AddElement, FS_CardinalityType
  <2>5. Cardinality(AtWork \cup {r}) <= notified'
    BY <1>1, <1>2, <2>4
  <2>6. QED
    BY <2>2, <2>5 DEF InFlight
<1>6. DropTypeOK'
  BY <1>1, <1>4 DEF DropInv, DropTypeOK
<1>7. \A i \in 1 .. Len(account) : Settled(i) => Settled(i)'
  BY <1>1, <1>4, SameAccount, StaysSettled DEF Resting
<1>8. Walked(r)'
  <2>1. \A i \in 1 .. cursor : Current(i)' => Settled(i)'
    BY <1>1, <1>2, <1>7, SameAccount DEF DropInv, CursorKnows
  <2>2. resolver'[r].at = cursor /\ resolver'[r].pc = "list"
    BY <1>4
  <2>3. QED
    BY <1>1, <1>2, <2>1, <2>2 DEF Walked
<1>9. QED
  BY <1>1, <1>4, <1>5, <1>6, <1>7, <1>8, OneStep

LEMMA ListKeeps ==
  ASSUME DropInv, NEW r \in Resolvers, List(r)
  PROVE  DropInv'
<1> DEFINE at == resolver[r].at
           next == IF at + DeltaSize < Len(account) THEN at + DeltaSize ELSE Len(account)
           listed == {i \in at + 1 .. next : Current(i)}
           page == {i \in listed : resolver[r].fresh => ~Gone(i)}
           state == [pc |-> "entries", at |-> next, fresh |-> resolver[r].fresh,
                     entries |-> page, more |-> next < Len(account)]
<1>1. /\ resolver[r].pc = "list" /\ hidden' = hidden \cup (listed \ page) /\ Moves(r, state)
      /\ UNCHANGED <<account, notified, cursor, rev, published, swallowed>>
  BY DEF List
<1>2. at \in 0 .. Len(account) /\ resolver[r].fresh \in BOOLEAN /\ Len(account) \in Nat
      /\ resolver[r] # Resting
  BY <1>1, AccountHolds
<1>3. next \in 0 .. Len(account) /\ at <= next
  BY <1>2, DeltaAssumption
<1>4. /\ page \subseteq listed /\ listed \subseteq 1 .. next /\ listed \subseteq 1 .. Len(account)
      /\ \A i \in 1 .. next : i \in 1 .. at \/ i \in listed \/ ~Current(i)
  BY <1>2, <1>3
<1>5. \A i \in 1 .. at : Current(i) => Settled(i)
  BY <1>1, <1>2 DEF DropInv, Walked
<1> HIDE DEF next, listed, page
<1>6. state \in Invocations /\ state # Resting
  <2>1. next \in Nat /\ page \in SUBSET Nat
    <3>1. next \in Nat
      BY <1>3
    <3>2. 1 .. next \subseteq Nat
      OBVIOUS
    <3>3. page \subseteq 1 .. next
      BY <1>4, Zenon
    <3>4. QED
      BY <3>1, <3>2, <3>3, Zenon
  <2>2. (next < Len(account)) \in BOOLEAN
    OBVIOUS
  <2>3. QED
    BY <1>2, <2>1, <2>2 DEF Invocations, Resting
<1>7. /\ resolver' \in [Resolvers -> Invocations] /\ resolver'[r] = state
      /\ \A s \in Resolvers \ {r} : resolver'[s] = resolver[s]
  BY <1>1, <1>2, <1>6, OneMoves
<1>8. InFlight'
  BY <1>1, <1>2, <1>6, OneMoves
<1>9. DropTypeOK'
  BY <1>1, <1>4, <1>7 DEF DropInv, DropTypeOK
<1>10. \A i \in 1 .. Len(account) : Settled(i) => Settled(i)'
  BY <1>1, <1>7, SameAccount, StaysSettled
<1>11. Walked(r)'
  <2>1. \A i \in 1 .. next \ page : Current(i)' => Settled(i)'
    <3> SUFFICES ASSUME NEW i \in 1 .. next \ page, Current(i)' PROVE Settled(i)'
      OBVIOUS
    <3>1. i \in 1 .. Len(account) /\ Current(i)
      BY <1>1, <1>2, <1>3, SameAccount
    <3>2. CASE i \in listed
      BY <1>1, <3>2 DEF Settled
    <3>3. CASE i \in 1 .. at
      BY <1>5, <1>10, <3>1, <3>3
    <3>4. QED
      BY <1>4, <3>1, <3>2, <3>3
  <2>2. resolver'[r].at = next /\ resolver'[r].pc = "entries" /\ resolver'[r].entries = page
    BY <1>7
  <2>3. next <= Len(account') /\ page \subseteq 1 .. next
    BY <1>1, <1>3, <1>4
  <2>4. QED
    BY <2>1, <2>2, <2>3 DEF Walked
<1>12. QED
  BY <1>1, <1>7, <1>8, <1>9, <1>10, <1>11, OneStep

LEMMA ResetListingKeeps ==
  ASSUME DropInv, NEW r \in Resolvers, ResetListing(r)
  PROVE  DropInv'
<1> DEFINE state == [pc |-> "list", at |-> 0, fresh |-> TRUE]
<1>1. /\ resolver[r].pc = "list" /\ Moves(r, state)
      /\ UNCHANGED <<account, notified, cursor, rev, published, swallowed, hidden>>
  BY DEF ResetListing
<1>2. state \in Invocations /\ state # Resting /\ resolver[r] # Resting
  BY <1>1, AccountHolds DEF Invocations, Resting
<1>3. /\ resolver' \in [Resolvers -> Invocations] /\ resolver'[r] = state
      /\ \A s \in Resolvers \ {r} : resolver'[s] = resolver[s]
      /\ InFlight'
  BY <1>1, <1>2, OneMoves
<1>4. DropTypeOK'
  BY <1>1, <1>3 DEF DropInv, DropTypeOK
<1>5. \A i \in 1 .. Len(account) : Settled(i) => Settled(i)'
  BY <1>1, <1>3, SameAccount, StaysSettled
<1>6. Walked(r)'
  <2>1. Len(account') \in Nat /\ resolver'[r].at = 0 /\ resolver'[r].pc = "list"
    BY <1>1, <1>3, AccountHolds
  <2>2. QED
    BY <2>1 DEF Walked
<1>7. QED
  BY <1>1, <1>3, <1>4, <1>5, <1>6, OneStep

(* The entry an invocation is at leaves its hands, settled.                *)
LEMMA EntryDone ==
  ASSUME DropInv, NEW r \in Resolvers, resolver[r].pc \in {"entries", "publish"},
         resolver[r].entries # {}, Moves(r, BehindEntry(r)),
         account' = account, notified' = notified, cursor' = cursor, rev' = rev,
         published \subseteq published', swallowed' = swallowed, hidden' = hidden,
         resolver[r].pc = "publish" => EventId(Entry(r)) \in published',
         Settled(Entry(r)) \/ EventId(Entry(r)) \in published'
  PROVE  DropInv'
<1> DEFINE e == Entry(r)
           state == BehindEntry(r)
<1>1. /\ resolver[r] \in [pc : {"entries", "publish"}, at : Nat, fresh : BOOLEAN,
                          entries : SUBSET Nat, more : BOOLEAN]
      /\ resolver[r].entries \subseteq 1 .. resolver[r].at
      /\ e \in resolver[r].entries /\ e \in 1 .. Len(account)
      /\ resolver[r].at \in 0 .. Len(account) /\ Len(account) \in Nat
      /\ resolver[r] # Resting
  BY AccountHolds
<1>2. /\ state \in Invocations /\ state # Resting
      /\ state.pc = "entries" /\ state.at = resolver[r].at
      /\ state.entries = resolver[r].entries \ {e}
  BY <1>1 DEF BehindEntry, Invocations, Resting
<1> HIDE DEF state
<1>3. /\ resolver' \in [Resolvers -> Invocations] /\ resolver'[r] = state
      /\ \A s \in Resolvers \ {r} : resolver'[s] = resolver[s]
      /\ InFlight'
  <2>1. Moves(r, state)
    BY DEF state
  <2>2. QED
    BY <1>1, <1>2, <2>1, OneMoves
<1>4. DropTypeOK'
  BY <1>3 DEF DropInv, DropTypeOK
<1>5. \A i \in 1 .. Len(account) : Settled(i) => Settled(i)'
  BY <1>3, SameAccount, StaysSettled
<1>6. PICK k \in 1 .. Len(account) : k = e
  BY <1>1
<1>7. Settled(k)'
  <2>1. CASE Settled(e)
    BY <1>5, <1>6, <2>1
  <2>2. CASE EventId(e) \in published'
    <3>1. EventId(k)' \in published'
      BY <1>6, <2>2 DEF EventId, Gone
    <3>2. QED
      BY <3>1 DEF Settled
  <2>3. QED
    BY <2>1, <2>2
<1>8. Walked(r)'
  <2>1. \A i \in 1 .. resolver[r].at \ (resolver[r].entries \ {e}) : Current(i)' => Settled(i)'
    <3> SUFFICES ASSUME NEW i \in 1 .. resolver[r].at \ (resolver[r].entries \ {e}), Current(i)'
                 PROVE  Settled(i)'
      OBVIOUS
    <3>1. i \in 1 .. Len(account) /\ Current(i)
      BY <1>1, SameAccount
    <3>2. CASE i = e
      BY <1>6, <1>7, <3>2
    <3>3. CASE i # e
      <4>1. Settled(i)
        BY <1>1, <3>1, <3>3 DEF DropInv, Walked
      <4>2. QED
        BY <1>5, <3>1, <4>1
    <3>4. QED
      BY <3>2, <3>3
  <2>2. QED
    BY <1>1, <1>2, <1>3, <2>1 DEF Walked
<1>9. QED
  BY <1>3, <1>4, <1>5, <1>8, OneStep

LEMMA SkipEntryKeeps ==
  ASSUME DropInv, NEW r \in Resolvers, SkipEntry(r)
  PROVE  DropInv'
<1>1. /\ resolver[r].pc = "entries" /\ resolver[r].entries # {} /\ Moves(r, BehindEntry(r))
      /\ UNCHANGED <<account, notified, cursor, rev, published, swallowed, hidden>>
      /\ ~Gone(Entry(r)) /\ rev[account[Entry(r)].file] = Entry(r)
  BY DEF SkipEntry, AtEntry, Known, faultNotes
<1>2. Entry(r) \in 1 .. Len(account) /\ Len(account) \in Nat
  BY <1>1, AccountHolds
<1>3. account[Entry(r)].file \in Files
  <2>1. account[Entry(r)] \in Changes
    BY <1>2 DEF DropInv, DropTypeOK
  <2>2. QED
    BY <2>1 DEF Changes
<1>4. Settled(Entry(r))
  <2>1. RowKnows(account[Entry(r)].file)
    BY <1>3 DEF DropInv
  <2>2. QED
    BY <1>1, <1>2, <2>1 DEF RowKnows
<1>5. QED
  BY <1>1, <1>4, EntryDone

LEMMA PublishEventKeeps ==
  ASSUME DropInv, NEW r \in Resolvers, PublishEvent(r)
  PROVE  DropInv'
<1>1. /\ resolver[r].pc = "publish" /\ Moves(r, BehindEntry(r))
      /\ published' = published \cup {EventId(Entry(r))}
      /\ UNCHANGED <<account, notified, cursor, rev, swallowed, hidden>>
  BY DEF PublishEvent, faultNotes
<1>2. resolver[r].entries # {}
  BY <1>1, AccountHolds
<1>3. QED
  BY <1>1, <1>2, EntryDone

LEMMA StoreRevKeeps ==
  ASSUME DropInv, NEW r \in Resolvers, StoreRev(r)
  PROVE  DropInv'
<1> DEFINE e == Entry(r)
           f == account[e].file
           state == [resolver[r] EXCEPT !.pc = "publish"]
<1>1. /\ resolver[r].pc = "entries" /\ resolver[r].entries # {} /\ Moves(r, state)
      /\ rev' = IF Gone(e) THEN rev ELSE [rev EXCEPT ![f] = e]
      /\ UNCHANGED <<account, notified, cursor, published, swallowed, hidden>>
  BY DEF StoreRev, AtEntry, faultNotes
<1>2. /\ resolver[r] \in [pc : {"entries", "publish"}, at : Nat, fresh : BOOLEAN,
                          entries : SUBSET Nat, more : BOOLEAN]
      /\ e \in resolver[r].entries /\ e \in 1 .. Len(account)
      /\ resolver[r].entries \subseteq 1 .. resolver[r].at
      /\ resolver[r].at \in 0 .. Len(account) /\ Len(account) \in Nat
      /\ resolver[r] # Resting
  BY <1>1, AccountHolds
<1>3. f \in Files
  <2>1. account[e] \in Changes
    BY <1>2 DEF DropInv, DropTypeOK
  <2>2. QED
    BY <2>1 DEF Changes
<1>4. /\ state \in Invocations /\ state # Resting /\ state.pc = "publish"
      /\ state.at = resolver[r].at /\ state.entries = resolver[r].entries
  BY <1>2 DEF Invocations, Resting
<1> HIDE DEF state
<1>5. /\ resolver' \in [Resolvers -> Invocations] /\ resolver'[r] = state
      /\ \A s \in Resolvers \ {r} : resolver'[s] = resolver[s]
      /\ InFlight'
  BY <1>1, <1>2, <1>4, OneMoves
<1>6. rev \in [Files -> Nat] /\ e \in Nat
  BY <1>2 DEF DropInv, DropTypeOK
<1>7. DropTypeOK'
  BY <1>1, <1>3, <1>5, <1>6 DEF DropInv, DropTypeOK
<1>8. \A i \in 1 .. Len(account) : Settled(i) => Settled(i)'
  BY <1>1, <1>5, SameAccount, StaysSettled
<1>9. Walked(r)'
  <2>1. \A i \in 1 .. resolver[r].at \ resolver[r].entries : Current(i)' => Settled(i)'
    <3> SUFFICES ASSUME NEW i \in 1 .. resolver[r].at \ resolver[r].entries, Current(i)'
                 PROVE  Settled(i)'
      OBVIOUS
    <3>1. i \in 1 .. Len(account) /\ Current(i)
      BY <1>1, <1>2, SameAccount
    <3>2. Settled(i)
      BY <1>1, <1>2, <3>1 DEF DropInv, Walked
    <3>3. QED
      BY <1>8, <3>1, <3>2
  <2>2. QED
    BY <1>1, <1>2, <1>4, <1>5, <2>1 DEF Walked
<1>10. \A g \in Files : rev'[g] = rev[g] \/ RowKnows(g)'
  <2> SUFFICES ASSUME NEW g \in Files, rev'[g] # rev[g] PROVE RowKnows(g)'
    OBVIOUS
  <2>1. ~Gone(e) /\ g = f /\ rev'[g] = e
    BY <1>1, <1>3, <1>6
  <2>2. PICK i \in 1 .. Len(account) : i = e
    BY <1>2
  <2>3. resolver'[r].pc = "publish" /\ Entry(r)' = i
    BY <1>4, <1>5, <2>2 DEF Entry
  <2>4. ~Gone(i)' /\ account'[i].file = g
    BY <1>1, <2>1, <2>2 DEF Gone
  <2>5. rev'[g] = i /\ Settled(i)'
    BY <2>1, <2>2, <2>3, <2>4 DEF Settled, InHand
  <2>6. Settled(rev[g])'
    BY <2>5 DEF Settled, Gone, EventId, InHand
  <2>7. QED
    BY <1>1, <1>2, <2>2, <2>4, <2>5, <2>6 DEF RowKnows, Gone
<1>11. QED
  BY <1>1, <1>5, <1>7, <1>8, <1>9, <1>10, OneStep

LEMMA NextPageKeeps ==
  ASSUME DropInv, NEW r \in Resolvers, NextPage(r)
  PROVE  DropInv'
<1> DEFINE state == [pc |-> "list", at |-> resolver[r].at, fresh |-> resolver[r].fresh]
<1>1. /\ resolver[r].pc = "entries" /\ resolver[r].entries = {} /\ Moves(r, state)
      /\ UNCHANGED <<account, notified, cursor, rev, published, swallowed, hidden>>
  BY DEF NextPage, faultNotes
<1>2. /\ resolver[r].at \in 0 .. Len(account) /\ resolver[r].fresh \in BOOLEAN
      /\ Len(account) \in Nat /\ resolver[r] # Resting
  BY <1>1, AccountHolds
<1>3. state \in Invocations /\ state # Resting
  BY <1>2 DEF Invocations, Resting
<1>4. /\ resolver' \in [Resolvers -> Invocations] /\ resolver'[r] = state
      /\ \A s \in Resolvers \ {r} : resolver'[s] = resolver[s]
      /\ InFlight'
  BY <1>1, <1>2, <1>3, OneMoves
<1>5. DropTypeOK'
  BY <1>1, <1>4 DEF DropInv, DropTypeOK
<1>6. \A i \in 1 .. Len(account) : Settled(i) => Settled(i)'
  BY <1>1, <1>4, SameAccount, StaysSettled
<1>7. Walked(r)'
  <2>1. \A i \in 1 .. resolver[r].at : Current(i)' => Settled(i)'
    <3> SUFFICES ASSUME NEW i \in 1 .. resolver[r].at, Current(i)' PROVE Settled(i)'
      OBVIOUS
    <3>1. i \in 1 .. Len(account) /\ Current(i)
      BY <1>1, <1>2, SameAccount
    <3>2. Settled(i)
      BY <1>1, <1>2, <3>1 DEF DropInv, Walked
    <3>3. QED
      BY <1>6, <3>1, <3>2
  <2>2. resolver'[r].at = resolver[r].at /\ resolver'[r].pc = "list"
    BY <1>4
  <2>3. QED
    BY <1>1, <1>2, <2>1, <2>2 DEF Walked
<1>8. QED
  BY <1>1, <1>4, <1>5, <1>6, <1>7, OneStep

(* An invocation ends, and nobody counts on its notification.              *)
LEMMA OneRests ==
  ASSUME DropInv, NEW r \in Resolvers, resolver[r] # Resting, Moves(r, Resting),
         notified' \in {notified, notified - 1}
  PROVE  /\ resolver' \in [Resolvers -> Invocations] /\ resolver'[r] = Resting
         /\ \A s \in Resolvers \ {r} : resolver'[s] = resolver[s]
         /\ Walked(r)' /\ InFlight' /\ notified' \in Nat
<1> DEFINE AtWork == {s \in Resolvers : resolver[s] # Resting}
<1>1. /\ resolver' \in [Resolvers -> Invocations] /\ resolver'[r] = Resting
      /\ \A s \in Resolvers \ {r} : resolver'[s] = resolver[s]
  BY DEF DropInv, DropTypeOK, Moves, Invocations
<1>2. Walked(r)'
  BY <1>1 DEF Walked
<1>3. IsFiniteSet(AtWork)
  BY DeltaAssumption, FS_Subset
<1>4. {s \in Resolvers : resolver'[s] # Resting} = AtWork \ {r} /\ r \in AtWork
  BY <1>1
<1>5. Cardinality(AtWork) <= notified /\ notified \in Nat
  BY DEF DropInv, DropTypeOK, InFlight
<1> HIDE DEF AtWork
<1>6. /\ Cardinality(AtWork \ {r}) = Cardinality(AtWork) - 1
      /\ Cardinality(AtWork) \in Nat /\ Cardinality(AtWork \ {r}) \in Nat
  BY <1>3, <1>4, FS_RemoveElement, FS_CardinalityType
<1>7. Cardinality(AtWork \ {r}) <= notified' /\ notified' \in Nat
  BY <1>5, <1>6
<1>8. QED
  BY <1>1, <1>2, <1>4, <1>7 DEF InFlight

LEMMA StoreCursorKeeps ==
  ASSUME DropInv, NEW r \in Resolvers, StoreCursor(r)
  PROVE  DropInv'
<1>1. /\ resolver[r].pc = "entries" /\ resolver[r].entries = {}
      /\ cursor' = resolver[r].at /\ notified' = notified - 1 /\ Moves(r, Resting)
      /\ UNCHANGED <<account, rev, published, swallowed, hidden>>
  BY DEF StoreCursor, AllPagesDone, faultNotes
<1>2. resolver[r].at \in 0 .. Len(account) /\ Len(account) \in Nat /\ resolver[r] # Resting
  BY <1>1, AccountHolds
<1>3. /\ resolver' \in [Resolvers -> Invocations] /\ resolver'[r] = Resting
      /\ \A s \in Resolvers \ {r} : resolver'[s] = resolver[s]
      /\ Walked(r)' /\ InFlight' /\ notified' \in Nat
  BY <1>1, <1>2, OneRests
<1>4. DropTypeOK'
  BY <1>1, <1>2, <1>3 DEF DropInv, DropTypeOK
<1>5. \A i \in 1 .. Len(account) : Settled(i) => Settled(i)'
  BY <1>1, <1>3, SameAccount, StaysSettled
<1>6. CursorKnows'
  <2>1. \A i \in 1 .. resolver[r].at : Current(i)' => Settled(i)'
    <3> SUFFICES ASSUME NEW i \in 1 .. resolver[r].at, Current(i)' PROVE Settled(i)'
      OBVIOUS
    <3>1. i \in 1 .. Len(account) /\ Current(i)
      BY <1>1, <1>2, SameAccount
    <3>2. Settled(i)
      BY <1>1, <1>2, <3>1 DEF DropInv, Walked
    <3>3. QED
      BY <1>5, <3>1, <3>2
  <2>2. QED
    BY <1>1, <2>1 DEF CursorKnows
<1>7. QED
  BY <1>1, <1>3, <1>4, <1>5, <1>6, OneStep

LEMMA BreakKeeps ==
  ASSUME DropInv, NEW r \in Resolvers, Break(r)
  PROVE  DropInv'
<1>1. /\ resolver[r] # Resting /\ Moves(r, Resting)
      /\ UNCHANGED <<account, notified, cursor, rev, published, hidden>>
      /\ swallowed' = IF resolver[r].pc = "publish" /\ ~Gone(Entry(r))
                      THEN swallowed \cup {Entry(r)} ELSE swallowed
  BY DEF Break
<1>2. resolver[r].pc = "publish" => Entry(r) \in 1 .. Len(account)
  BY AccountHolds
<1>3. /\ resolver' \in [Resolvers -> Invocations] /\ resolver'[r] = Resting
      /\ \A s \in Resolvers \ {r} : resolver'[s] = resolver[s]
      /\ Walked(r)' /\ InFlight' /\ notified' \in Nat
  BY <1>1, OneRests
<1>4. DropTypeOK'
  BY <1>1, <1>2, <1>3 DEF DropInv, DropTypeOK
<1>5. \A i \in 1 .. Len(account) : Settled(i) => Settled(i)'
  BY <1>1, <1>3, SameAccount, StaysSettled
<1>6. QED
  BY <1>1, <1>3, <1>4, <1>5, OneStep

LEMMA DropInitInv == DropInit => DropInv
<1> SUFFICES ASSUME DropInit PROVE DropInv
  OBVIOUS
<1>1. DropTypeOK
  BY DEF DropInit, DropTypeOK, Invocations
<1>2. InFlight
  <2>1. {r \in Resolvers : resolver[r] # Resting} = {}
    BY DEF DropInit
  <2>2. Cardinality({}) <= notified
    <3>1. Cardinality({}) = 0
      BY FS_EmptySet, Zenon
    <3>2. QED
      BY <3>1 DEF DropInit
  <2>3. QED
    BY <2>1, <2>2 DEF InFlight
<1>3. CursorKnows /\ \A r \in Resolvers : Walked(r)
  BY DEF DropInit, CursorKnows, Walked
<1>4. \A f \in Files : RowKnows(f)
  BY DEF DropInit, RowKnows
<1>5. QED
  BY <1>1, <1>2, <1>3, <1>4 DEF DropInv

LEMMA DropInvKept == DropInv /\ [DropNext]_dropVars => DropInv'
<1> SUFFICES ASSUME DropInv, [DropNext]_dropVars PROVE DropInv'
  OBVIOUS
<1>1. CASE UNCHANGED dropVars
  <2>1. UNCHANGED <<account, notified, cursor, rev, resolver, published, swallowed, hidden>>
    BY <1>1 DEF dropVars
  <2>2. DropTypeOK' /\ InFlight'
    BY <2>1 DEF DropInv, DropTypeOK, InFlight
  <2>3. \A i \in 1 .. Len(account) : Settled(i) => Settled(i)'
    BY <2>1 DEF Settled, Gone, EventId, InHand, Entry
  <2>4. QED
    BY <2>1, <2>2, <2>3, SameAccount, StillKnown DEF DropInv
<1>2. CASE DropNext
  BY <1>2, ChangeFileKeeps, LoseCursorKeeps, NotifyKeeps, ListKeeps, ResetListingKeeps,
     SkipEntryKeeps, StoreRevKeeps, PublishEventKeeps, NextPageKeeps, StoreCursorKeeps, BreakKeeps
     DEF DropNext
<1>3. QED
  BY <1>1, <1>2

THEOREM DropInvariant == DropSpec => []DropInv
<1>1. QED
  BY DropInitInv, DropInvKept, PTL DEF DropSpec

(* The stored cursor passes no change whose event was not published,       *)
(* however many resolvers overlap, break, or store an older place.         *)
THEOREM CursorPassesNothing == DropSpec => []PassedIsPublished
<1>1. DropInv => PassedIsPublished
  BY DEF DropInv, CursorKnows, Settled, PassedIsPublished
<1>2. QED
  BY <1>1, DropInvariant, PTL

-----------------------------------------------------------------------------
(* The digest.                                                             *)

(* Fewer, and not more than the two of them.                               *)
LEMMA Fewer ==
  ASSUME NEW S, IsFiniteSet(S), NEW T, T \subseteq S
  PROVE  /\ IsFiniteSet(T) /\ Cardinality(T) \in Nat /\ Cardinality(S) \in Nat
         /\ Cardinality(T) <= Cardinality(S)
<1>1. T \in SUBSET S
  OBVIOUS
<1>2. QED
  BY <1>1, FS_Subset, FS_CardinalityType

LEMMA Together ==
  ASSUME NEW S, IsFiniteSet(S), NEW T, IsFiniteSet(T)
  PROVE  /\ IsFiniteSet(S \cup T) /\ Cardinality(S \cup T) \in Nat
         /\ Cardinality(S \cup T) <= Cardinality(S) + Cardinality(T)
<1>1. IsFiniteSet(S \cup T) /\ IsFiniteSet(S \cap T)
  BY FS_Union, FS_Subset
<1>2. /\ Cardinality(S \cup T) \in Nat /\ Cardinality(S \cap T) \in Nat
      /\ Cardinality(S) \in Nat /\ Cardinality(T) \in Nat
  BY <1>1, FS_CardinalityType
<1>3. Cardinality(S \cup T) = Cardinality(S) + Cardinality(T) - Cardinality(S \cap T)
  BY FS_Union
<1>4. QED
  BY <1>1, <1>2, <1>3

(* A query that is limited to n returns n, when that many are kept.        *)
LEMMA OldestCount ==
  ASSUME kept \subseteq Nat, IsFiniteSet(kept), NEW n \in Nat, n <= Cardinality(kept)
  PROVE  Cardinality(Oldest(n)) = n
<1> DEFINE Wrong == {k \in 0 .. Cardinality(kept) : Cardinality(Oldest(k)) # k}
<1> SUFFICES ASSUME Wrong # {} PROVE FALSE
  <2>1. Cardinality(kept) \in Nat
    BY FS_CardinalityType
  <2>2. QED
    BY <2>1
<1>1. \A i : Before(i) \subseteq kept /\ IsFiniteSet(Before(i)) /\ Cardinality(Before(i)) \in Nat
  BY Fewer DEF Before
<1>2. /\ \A k : Oldest(k) \subseteq kept /\ IsFiniteSet(Oldest(k))
      /\ Cardinality(kept) \in Nat
  BY Fewer DEF Oldest
<1>3. PICK k \in Wrong : \A j \in Wrong : k <= j
  <2>1. Wrong \subseteq Nat
    BY <1>2
  <2> HIDE DEF Wrong
  <2>2. QED
    BY <2>1, LeastOf
<1>4. k \in 0 .. Cardinality(kept) /\ Cardinality(Oldest(k)) # k
  OBVIOUS
<1>5. k # 0
  <2>1. Oldest(0) = {}
    BY <1>1 DEF Oldest
  <2>2. Cardinality(Oldest(0)) = 0
    BY <2>1, FS_EmptySet, Zenon
  <2>3. QED
    BY <1>4, <2>2
<1>6. k \in Nat /\ k - 1 \in Nat /\ k - 1 < k /\ k <= Cardinality(kept)
  BY <1>2, <1>4, <1>5
<1>7. Cardinality(Oldest(k - 1)) = k - 1
  BY <1>2, <1>3, <1>6
<1> HIDE DEF Wrong
<1> DEFINE Rest == kept \ Oldest(k - 1)
<1>8. Rest # {} /\ Rest \subseteq Nat
  <2>1. ASSUME Rest = {} PROVE FALSE
    <3>1. Oldest(k - 1) = kept
      BY <1>2, <2>1
    <3>2. QED
      BY <1>6, <1>7, <3>1
  <2>2. QED
    BY <2>1
<1>9. PICK m \in Rest : \A j \in Rest : m <= j
  <2> HIDE DEF Rest
  <2>1. QED
    BY <1>8, LeastOf
<1>10. m \in kept /\ m \notin Oldest(k - 1) /\ m \in Nat
  BY <1>8
<1>11. \A j \in kept : j \in Oldest(k - 1) \/ m <= j
  BY <1>9
<1>12. \A i \in kept : Before(i) \subseteq kept /\ \A j \in kept : j \in Before(i) <=> j < i
  BY DEF Before
<1>13. ASSUME NEW i \in Oldest(k - 1) PROVE i \in kept /\ i < m
  <2>1. i \in kept /\ Cardinality(Before(i)) < k - 1
    BY DEF Oldest
  <2>2. CASE m < i
    <3>1. Before(m) \subseteq Before(i)
      <4>1. \A j \in Nat : j < m => j < i
        BY <1>10, <2>1, <2>2
      <4>2. QED
        BY <4>1 DEF Before
    <3>2. Cardinality(Before(m)) <= Cardinality(Before(i))
      BY <1>1, <3>1, Fewer
    <3>3. Cardinality(Before(m)) < k - 1
      BY <1>1, <1>6, <2>1, <3>2
    <3>4. QED
      BY <1>10, <3>3 DEF Oldest
  <2>3. i # m /\ i \in Nat
    BY <1>10, <2>1
  <2>4. QED
    BY <1>10, <2>1, <2>2, <2>3
<1>14. Before(m) = Oldest(k - 1)
  <2>1. \A j \in Before(m) : j \in Oldest(k - 1)
    <3> SUFFICES ASSUME NEW j \in Before(m) PROVE j \in Oldest(k - 1)
      OBVIOUS
    <3>1. j \in kept /\ j < m /\ j \in Nat
      BY DEF Before
    <3>2. QED
      BY <1>10, <1>11, <3>1
  <2>2. \A j \in Oldest(k - 1) : j \in Before(m)
    BY <1>13 DEF Before
  <2>3. QED
    BY <2>1, <2>2
<1>15. Cardinality(Before(m)) = k - 1
  BY <1>7, <1>14
<1>16. Oldest(k) = Oldest(k - 1) \cup {m}
  <2>1. \A i \in Oldest(k - 1) : i \in Oldest(k)
    <3> SUFFICES ASSUME NEW i \in Oldest(k - 1) PROVE i \in Oldest(k)
      OBVIOUS
    <3>1. i \in kept /\ Cardinality(Before(i)) < k - 1
      BY DEF Oldest
    <3>2. Cardinality(Before(i)) < k
      BY <1>1, <1>6, <3>1
    <3>3. QED
      BY <3>1, <3>2 DEF Oldest
  <2>2. m \in Oldest(k)
    BY <1>6, <1>10, <1>15 DEF Oldest
  <2>3. ASSUME NEW i \in Oldest(k), i \notin Oldest(k - 1), i # m PROVE FALSE
    <3>1. i \in kept /\ Cardinality(Before(i)) < k /\ i \in Nat
      BY DEF Oldest
    <3>2. m < i
      BY <1>10, <1>11, <2>3, <3>1
    <3>3. Before(m) \cup {m} \subseteq Before(i)
      <4>1. \A j \in Nat : j < m => j < i
        BY <1>10, <3>1, <3>2
      <4>2. Before(m) \subseteq Before(i)
        BY <4>1 DEF Before
      <4>3. m \in Before(i)
        BY <1>10, <3>2 DEF Before
      <4>4. QED
        BY <4>2, <4>3
    <3>4. m \notin Before(m)
      BY <1>10 DEF Before
    <3>5. Cardinality(Before(m) \cup {m}) = k
      <4>1. Cardinality(Before(m) \cup {m}) = Cardinality(Before(m)) + 1
        BY <1>1, <3>4, FS_AddElement
      <4>2. QED
        BY <1>6, <1>15, <4>1
    <3>6. Cardinality(Before(m) \cup {m}) <= Cardinality(Before(i))
      BY <1>1, <3>3, Fewer
    <3>7. QED
      BY <1>1, <1>6, <3>1, <3>5, <3>6
  <2>4. QED
    BY <2>1, <2>2, <2>3
<1>17. Cardinality(Oldest(k - 1) \cup {m}) = Cardinality(Oldest(k - 1)) + 1
  BY <1>2, <1>10, FS_AddElement
<1>18. QED
  BY <1>4, <1>6, <1>7, <1>16, <1>17

(* What is left behind a query with a limit of n.                          *)
LEMMA LeftOver ==
  ASSUME kept \subseteq Nat, IsFiniteSet(kept), NEW n \in Int
  PROVE  /\ Oldest(n) \subseteq kept /\ Cardinality(kept \ Oldest(n)) \in Nat
         /\ n = Cardinality(kept) + 1 - Cap => Cardinality(kept \ Oldest(n)) <= Cap - 1
<1>1. Oldest(n) \subseteq kept /\ Oldest(n) \cap kept = Oldest(n) /\ kept \cap Oldest(n) = Oldest(n)
  BY DEF Oldest
<1>2. /\ Cardinality(kept \ Oldest(n)) \in Nat /\ Cardinality(kept) \in Nat
      /\ Cardinality(kept \ Oldest(n)) <= Cardinality(kept)
      /\ Cap \in Nat \ {0}
  BY Fewer, CapAssumption
<1>3. ASSUME n = Cardinality(kept) + 1 - Cap PROVE Cardinality(kept \ Oldest(n)) <= Cap - 1
  <2>1. CASE n <= 0
    BY <1>2, <1>3, <2>1
  <2>2. CASE n > 0
    <3>1. n \in Nat /\ n <= Cardinality(kept)
      BY <1>2, <1>3, <2>2
    <3>2. Cardinality(Oldest(n)) = n
      BY <3>1, OldestCount
    <3>3. Cardinality(kept \ Oldest(n)) = Cardinality(kept) - n
      BY <1>1, <3>2, FS_Difference
    <3>4. QED
      BY <1>2, <1>3, <3>3
  <2>3. QED
    BY <2>1, <2>2
<1>4. QED
  BY <1>1, <1>2, <1>3

(* What a step holds, by where it is.                                      *)
LEMMA GripOf ==
  ASSUME DigestInv, NEW h \in Hands
  PROVE  /\ hand[h].pc \in {"free", "oldest", "drop", "fetch", "clear"}
         /\ hand[h].pc = "free" <=> hand[h] = Free
         /\ hand[h].pc = "oldest" =>
              hand[h] \in [pc : {"oldest"}, over : Int, raced : BOOLEAN]
         /\ hand[h].pc = "drop" =>
              hand[h] \in [pc : {"drop"}, raced : BOOLEAN, todo : SUBSET Nat]
         /\ hand[h].pc = "fetch" =>
              hand[h] \in [pc : {"fetch"}, limit : Nat, clears : BOOLEAN]
         /\ hand[h].pc = "clear" =>
              hand[h] \in [pc : {"clear"}, items : SUBSET Nat, todo : SUBSET Nat]
<1>1. hand[h] \in Grips
  BY DEF DigestInv, DigestTypeOK
<1>2. QED
  BY <1>1 DEF Grips, Free

LEMMA FinitelyMany ==
  ASSUME DigestInv
  PROVE  /\ IsFiniteSet(kept) /\ Cardinality(kept) \in Nat /\ kept \subseteq Nat
         /\ IsFiniteSet(Adding) /\ Cardinality(Adding) \in Nat /\ Adding \subseteq Hands
         /\ IsFiniteSet(Hands) /\ Cardinality(Hands) \in Nat /\ Cap \in Nat \ {0}
         /\ arrived \in Nat /\ brokenOff \in Nat
<1>1. arrived \in Nat /\ brokenOff \in Nat /\ kept \subseteq 1 .. arrived
  BY DEF DigestInv, DigestTypeOK
<1>2. IsFiniteSet(1 .. arrived)
  BY <1>1, FS_Interval
<1>3. IsFiniteSet(kept) /\ Cardinality(kept) \in Nat
  BY <1>1, <1>2, Fewer
<1>4. IsFiniteSet(Hands) /\ Cap \in Nat \ {0} /\ Adding \subseteq Hands
  BY CapAssumption DEF Adding
<1>5. IsFiniteSet(Adding) /\ Cardinality(Adding) \in Nat /\ Cardinality(Hands) \in Nat
  BY <1>4, Fewer
<1>6. QED
  BY <1>1, <1>3, <1>4, <1>5

(* A step turns to something else; the others go on as they were.          *)
LEMMA TurnsTo ==
  ASSUME DigestInv, NEW h \in Hands, NEW state \in Grips, Turns(h, state)
  PROVE  /\ hand' \in [Hands -> Grips] /\ hand'[h] = state
         /\ \A g \in Hands \ {h} : hand'[g] = hand[g]
         /\ state.pc \in {"oldest", "drop"} => Adding' = Adding \cup {h}
         /\ state.pc \notin {"oldest", "drop"} => Adding' = Adding \ {h}
         /\ (state.pc \in {"oldest", "drop"} <=> h \in Adding) => Adding' = Adding
<1>1. /\ hand' \in [Hands -> Grips] /\ hand'[h] = state
      /\ \A g \in Hands \ {h} : hand'[g] = hand[g]
  BY DEF DigestInv, DigestTypeOK, Turns
<1>2. /\ state.pc \in {"oldest", "drop"} => Adding' = Adding \cup {h}
      /\ state.pc \notin {"oldest", "drop"} => Adding' = Adding \ {h}
  BY <1>1 DEF Adding
<1>3. (h \in Adding => Adding \cup {h} = Adding) /\ (h \notin Adding => Adding \ {h} = Adding)
  OBVIOUS
<1>4. QED
  BY <1>1, <1>2, <1>3, Zenon

(* A delete is done: it was of one of the items, and the adds know.        *)
LEMMA DeletedLeaves ==
  ASSUME DigestInv, NEW h \in Hands, hand[h].pc \in {"drop", "clear"}, hand[h].todo # {},
         Deleted(h)
  PROVE  /\ First(hand[h].todo) \in hand[h].todo
         /\ hand' \in [Hands -> Grips]
         /\ hand'[h] = [hand[h] EXCEPT !.todo = hand[h].todo \ {First(hand[h].todo)}]
         /\ hand'[h].pc = hand[h].pc
         /\ hand'[h].todo = hand[h].todo \ {First(hand[h].todo)}
         /\ hand[h].pc = "clear" => hand'[h].items = hand[h].items
         /\ hand[h].pc = "drop" => hand'[h].raced = hand[h].raced
         /\ \A g \in Hands \ {h} :
              /\ hand'[g].pc = hand[g].pc
              /\ hand[g].pc \in {"oldest", "drop"} => hand'[g].raced
              /\ hand[g].pc = "oldest" => hand'[g].over = hand[g].over
              /\ hand[g].pc = "drop" => hand'[g].todo = hand[g].todo
              /\ hand[g].pc \notin {"oldest", "drop"} => hand'[g] = hand[g]
         /\ Adding' = Adding
<1> DEFINE item == First(hand[h].todo)
           mine == [hand[h] EXCEPT !.todo = hand[h].todo \ {item}]
           theirs(g) == IF hand[g].pc \in {"oldest", "drop"} THEN [hand[g] EXCEPT !.raced = TRUE]
                        ELSE hand[g]
<1>1. hand[h].todo \subseteq Nat
  BY GripOf
<1>2. item \in hand[h].todo
  <2>1. PICK m \in hand[h].todo : \A j \in hand[h].todo : m <= j
    BY <1>1, LeastOf
  <2>2. QED
    BY <2>1, Zenon DEF First
<1>3. hand' = [g \in Hands |-> IF g = h THEN mine ELSE theirs(g)]
  BY DEF Deleted
<1>4. /\ mine \in Grips /\ mine.pc = hand[h].pc /\ mine.todo = hand[h].todo \ {item}
      /\ hand[h].pc = "clear" => mine.items = hand[h].items
      /\ hand[h].pc = "drop" => mine.raced = hand[h].raced
  <2>1. CASE hand[h].pc = "drop"
    <3>1. hand[h] \in [pc : {"drop"}, raced : BOOLEAN, todo : SUBSET Nat]
      BY <2>1, GripOf
    <3>2. QED
      BY <2>1, <3>1 DEF Grips
  <2>2. CASE hand[h].pc = "clear"
    <3>1. hand[h] \in [pc : {"clear"}, items : SUBSET Nat, todo : SUBSET Nat]
      BY <2>2, GripOf
    <3>2. QED
      BY <2>2, <3>1 DEF Grips
  <2>3. QED
    BY <2>1, <2>2
<1>5. ASSUME NEW g \in Hands
      PROVE  /\ theirs(g) \in Grips /\ theirs(g).pc = hand[g].pc
             /\ hand[g].pc \in {"oldest", "drop"} => theirs(g).raced
             /\ hand[g].pc = "oldest" => theirs(g).over = hand[g].over
             /\ hand[g].pc = "drop" => theirs(g).todo = hand[g].todo
             /\ hand[g].pc \notin {"oldest", "drop"} => theirs(g) = hand[g]
  <2>1. CASE hand[g].pc = "oldest"
    <3>1. hand[g] \in [pc : {"oldest"}, over : Int, raced : BOOLEAN]
      BY <2>1, GripOf
    <3>2. QED
      BY <2>1, <3>1 DEF Grips
  <2>2. CASE hand[g].pc = "drop"
    <3>1. hand[g] \in [pc : {"drop"}, raced : BOOLEAN, todo : SUBSET Nat]
      BY <2>2, GripOf
    <3>2. QED
      BY <2>2, <3>1 DEF Grips
  <2>3. CASE hand[g].pc \notin {"oldest", "drop"}
    BY <2>3 DEF DigestInv, DigestTypeOK
  <2>4. QED
    BY <2>1, <2>2, <2>3
<1> HIDE DEF mine, theirs, item
<1>6. /\ hand' \in [Hands -> Grips] /\ hand'[h] = mine
      /\ \A g \in Hands \ {h} : hand'[g] = theirs(g)
  BY <1>3, <1>4, <1>5
<1>7. \A g \in Hands : hand'[g].pc = hand[g].pc
  BY <1>4, <1>5, <1>6
<1>8. Adding' = Adding
  BY <1>7 DEF Adding
<1>9. QED
  BY <1>2, <1>4, <1>5, <1>6, <1>8 DEF mine, item

(* What will be there still: nothing comes, and who goes on drops at       *)
(* least what it was about to.                                             *)
LEMMA RoomStays ==
  ASSUME DigestInv, kept' \subseteq kept, Adding' \subseteq Adding,
         \A h \in Adding' : Doomed(h) \cap kept' \subseteq Doomed(h)'
  PROVE  \A some \in SUBSET Adding' : RoomFor(some)'
<1> SUFFICES ASSUME NEW some \in SUBSET Adding' PROVE RoomFor(some)'
  OBVIOUS
<1> DEFINE left == kept \ UNION {Doomed(h) : h \in some}
           left1 == kept' \ UNION {Doomed(h)' : h \in some}
<1>1. left1 \subseteq left
  <2> SUFFICES ASSUME NEW i \in left1 PROVE i \in left
    OBVIOUS
  <2>1. \A h \in some : i \notin Doomed(h)
    OBVIOUS
  <2>2. QED
    BY <2>1
<1>2. RoomFor(some)
  BY DEF DigestInv
<1>3. Cardinality(left) + Cardinality(some) <= Cap + Cardinality(Hands) - 1
  BY <1>2 DEF RoomFor
<1>4. IsFiniteSet(left) /\ IsFiniteSet(some)
  BY FinitelyMany, Fewer
<1> HIDE DEF left, left1
<1>5. /\ Cardinality(left1) <= Cardinality(left) /\ Cardinality(left1) \in Nat
      /\ Cardinality(left) \in Nat /\ Cardinality(some) \in Nat
      /\ Cap \in Nat /\ Cardinality(Hands) \in Nat
  BY <1>1, <1>4, Fewer, FinitelyMany
<1>6. Cardinality(left1) + Cardinality(some) <= Cap + Cardinality(Hands) - 1
  BY <1>3, <1>5
<1>7. QED
  BY <1>6 DEF RoomFor, left1

(* The items of a digest that loses one are no older.                      *)
LEMMA StillOldest ==
  ASSUME DigestInv, kept' \subseteq kept, NEW n \in Int
  PROVE  Oldest(n) \cap kept' \subseteq {i \in kept' : Cardinality({j \in kept' : j < i}) < n}
<1> SUFFICES ASSUME NEW i \in Oldest(n) \cap kept'
             PROVE  Cardinality({j \in kept' : j < i}) < n
  OBVIOUS
<1>1. Cardinality(Before(i)) < n
  BY DEF Oldest
<1>2. {j \in kept' : j < i} \subseteq Before(i) /\ Before(i) \subseteq kept
  BY DEF Before
<1>3. IsFiniteSet(Before(i))
  BY <1>2, FinitelyMany, Fewer
<1>4. /\ Cardinality({j \in kept' : j < i}) <= Cardinality(Before(i))
      /\ Cardinality({j \in kept' : j < i}) \in Nat /\ Cardinality(Before(i)) \in Nat
  BY <1>2, <1>3, Fewer
<1>5. QED
  BY <1>1, <1>4

(* What an add was about to drop, it is still about to, if it is there.    *)
LEMMA StillDoomed ==
  ASSUME DigestInv, kept' \subseteq kept, NEW h \in Adding, hand'[h].pc = hand[h].pc,
         hand[h].pc = "oldest" => hand'[h].over = hand[h].over,
         hand[h].pc = "drop" => hand[h].todo \cap kept' \subseteq hand'[h].todo
  PROVE  Doomed(h) \cap kept' \subseteq Doomed(h)'
<1>1. hand[h].pc \in {"oldest", "drop"} /\ h \in Hands
  BY DEF Adding
<1>2. CASE hand[h].pc = "oldest"
  <2>1. PICK n \in Int : n = hand[h].over
    BY <1>1, <1>2, GripOf
  <2>2. Doomed(h) = Oldest(n)
    BY <1>2, <2>1 DEF Doomed
  <2>3. Doomed(h)' = {i \in kept' : Cardinality({j \in kept' : j < i}) < n}
    BY <1>2, <2>1 DEF Doomed, Oldest, Before
  <2>4. QED
    BY <2>2, <2>3, StillOldest
<1>3. CASE hand[h].pc = "drop"
  BY <1>3 DEF Doomed
<1>4. QED
  BY <1>1, <1>2, <1>3

(* A step that moves and leaves the items alone.                           *)
LEMMA NothingMoved ==
  ASSUME DigestInv, NEW h \in Hands, NEW state \in Grips, Turns(h, state),
         state.pc \notin {"oldest", "drop"},
         UNCHANGED <<kept, arrived, evicted>>, brokenOff' \in Nat,
         state.pc = "clear" => state.todo \subseteq state.items,
         NothingDropped'
  PROVE  DigestInv'
<1>1. /\ hand' \in [Hands -> Grips] /\ hand'[h] = state
      /\ \A g \in Hands \ {h} : hand'[g] = hand[g]
      /\ Adding' = Adding \ {h}
  BY TurnsTo
<1>2. DigestTypeOK'
  BY <1>1 DEF DigestInv, DigestTypeOK
<1>3. Cleared'
  BY <1>1 DEF DigestInv, Cleared
<1>4. \A g \in Hands : MakesRoom(g)'
  BY <1>1 DEF DigestInv, MakesRoom
<1>5. \A some \in SUBSET Adding' : RoomFor(some)'
  <2>1. \A g \in Adding' : Doomed(g) \cap kept' \subseteq Doomed(g)'
    <3> SUFFICES ASSUME NEW g \in Adding' PROVE Doomed(g) \cap kept' \subseteq Doomed(g)'
      OBVIOUS
    <3>1. g \in Adding /\ hand'[g] = hand[g]
      BY <1>1 DEF Adding
    <3>2. QED
      BY <3>1, StillDoomed
  <2>2. kept' \subseteq kept /\ Adding' \subseteq Adding
    BY <1>1
  <2>3. QED
    BY <2>1, <2>2, RoomStays
<1>6. QED
  BY <1>2, <1>3, <1>4, <1>5 DEF DigestInv

(* An item that has enough behind it keeps it.                             *)
LEMMA EnoughBehind ==
  ASSUME DigestInv, arrived' \in Nat, brokenOff' \in Nat, IsFiniteSet(Adding'),
         arrived' - arrived + Cardinality(Adding') - Cardinality(Adding) + brokenOff' - brokenOff
             >= 0,
         NEW i \in 1 .. arrived, Behind(i) >= Cap
  PROVE  Behind(i)' >= Cap
<1>1. /\ Cardinality(Adding') \in Nat /\ Cardinality(Adding) \in Nat
      /\ arrived \in Nat /\ brokenOff \in Nat /\ Cap \in Nat
  BY FinitelyMany, FS_CardinalityType
<1>2. arrived - i + Cardinality(Adding) + brokenOff >= Cap
  BY DEF Behind
<1>3. arrived' - i + Cardinality(Adding') + brokenOff' >= Cap
  BY <1>1, <1>2
<1>4. QED
  BY <1>3 DEF Behind

LEMMA CountForAddKeeps ==
  ASSUME DigestInv, NEW h \in Hands, CountForAdd(h)
  PROVE  DigestInv'
<1> DEFINE over == Cardinality(kept) + 1 - Cap
           state == [pc |-> "oldest", over |-> over, raced |-> FALSE]
<1>1. /\ hand[h] = Free /\ Turns(h, state)
      /\ UNCHANGED <<kept, arrived, released, evicted, hasty, vanished, brokenOff>>
  BY DEF CountForAdd, Over
<1>2. over \in Int /\ over + Cap - 1 = Cardinality(kept)
  BY FinitelyMany
<1>3. state \in Grips /\ state.pc = "oldest" /\ state.over = over /\ h \notin Adding
  BY <1>1, <1>2 DEF Grips, Adding, Free
<1> HIDE DEF state
<1>4. /\ hand' \in [Hands -> Grips] /\ hand'[h] = state
      /\ \A g \in Hands \ {h} : hand'[g] = hand[g]
      /\ Adding' = Adding \cup {h}
  BY <1>1, <1>3, TurnsTo
<1>5. DigestTypeOK' /\ Cleared'
  BY <1>1, <1>3, <1>4 DEF DigestInv, DigestTypeOK, Cleared
<1>6. \A g \in Hands : MakesRoom(g)'
  <2>1. MakesRoom(h)'
    BY <1>1, <1>2, <1>3, <1>4, FinitelyMany DEF MakesRoom
  <2>2. \A g \in Hands \ {h} : MakesRoom(g)'
    BY <1>1, <1>4 DEF DigestInv, MakesRoom
  <2>3. QED
    BY <2>1, <2>2
<1>7. NothingDropped'
  <2> SUFFICES ASSUME NEW i \in 1 .. arrived
               PROVE  \/ i \in kept \cup released \cup vanished \cup hasty
                      \/ \E g \in Hands : hand'[g].pc = "clear" /\ i \in hand'[g].items
                      \/ i \in evicted /\ Behind(i)' >= Cap
    BY <1>1 DEF NothingDropped
  <2>1. ASSUME NEW g \in Hands, hand[g].pc = "clear", i \in hand[g].items
        PROVE  hand'[g].pc = "clear" /\ i \in hand'[g].items
    BY <1>1, <1>4, <2>1 DEF Free
  <2>2. /\ IsFiniteSet(Adding') /\ Cardinality(Adding') = Cardinality(Adding) + 1
        /\ Cardinality(Adding) \in Nat
    BY <1>3, <1>4, FinitelyMany, FS_AddElement
  <2>3. Behind(i) >= Cap => Behind(i)' >= Cap
    <3>1. arrived' - arrived + Cardinality(Adding') - Cardinality(Adding) + brokenOff' - brokenOff
            >= 0
      BY <1>1, <2>2, FinitelyMany
    <3>2. QED
      BY <1>1, <2>2, <3>1, EnoughBehind, FinitelyMany
  <2>4. QED
    BY <2>1, <2>3 DEF DigestInv, NothingDropped
<1>8. \A some \in SUBSET Adding' : RoomFor(some)'
  <2> SUFFICES ASSUME NEW some \in SUBSET Adding' PROVE RoomFor(some)'
    OBVIOUS
  <2>1. \A g \in some \ {h} : g \in Hands /\ Doomed(g)' = Doomed(g)
    <3> SUFFICES ASSUME NEW g \in some \ {h} PROVE g \in Hands /\ Doomed(g)' = Doomed(g)
      OBVIOUS
    <3>1. g \in Hands /\ hand'[g] = hand[g]
      BY <1>4, FinitelyMany
    <3>2. Oldest(hand[g].over)' = Oldest(hand[g].over)
      BY <1>1, <3>1 DEF Oldest, Before
    <3>3. QED
      BY <1>1, <3>1, <3>2 DEF Doomed
  <2>2. CASE h \notin some
    <3>1. some \in SUBSET Adding
      BY <1>4, <2>2
    <3>2. {Doomed(g)' : g \in some} = {Doomed(g) : g \in some}
      BY <2>1, <2>2
    <3>3. RoomFor(some)
      BY <3>1 DEF DigestInv
    <3>4. QED
      BY <1>1, <3>2, <3>3 DEF RoomFor
  <2>3. CASE h \in some
    <3> DEFINE left1 == kept' \ UNION {Doomed(g)' : g \in some}
    <3>1. Doomed(h)' = Oldest(over)
      BY <1>1, <1>3, <1>4 DEF Doomed, Oldest, Before
    <3>2. left1 \subseteq kept \ Oldest(over)
      BY <1>1, <2>3, <3>1
    <3>3. /\ Cardinality(kept \ Oldest(over)) <= Cap - 1
          /\ Cardinality(kept \ Oldest(over)) \in Nat /\ IsFiniteSet(kept \ Oldest(over))
      BY <1>2, LeftOver, FinitelyMany, Fewer
    <3>4. some \subseteq Hands
      BY <1>4, FinitelyMany
    <3> HIDE DEF left1
    <3>5. /\ Cardinality(left1) <= Cardinality(kept \ Oldest(over)) /\ Cardinality(left1) \in Nat
          /\ Cardinality(some) <= Cardinality(Hands) /\ Cardinality(some) \in Nat
      BY <3>2, <3>3, <3>4, Fewer, FinitelyMany
    <3> HIDE DEF over
    <3>6. Cardinality(left1) + Cardinality(some) <= Cap + Cardinality(Hands) - 1
      BY <3>3, <3>5, FinitelyMany
    <3>7. QED
      BY <3>6 DEF RoomFor, left1
  <2>4. QED
    BY <2>2, <2>3
<1>9. QED
  BY <1>5, <1>6, <1>7, <1>8 DEF DigestInv

(* Behind an item of those that an add reads to make room, the digest is   *)
(* full but for the add's own.                                             *)
LEMMA FullBehind ==
  ASSUME DigestInv, NEW n \in Int, n + Cap - 1 <= Cardinality(kept), NEW i \in Oldest(n)
  PROVE  arrived - i >= Cap - 1
<1>1. /\ i \in kept /\ i \in 1 .. arrived /\ Cardinality(Before(i)) < n
      /\ kept \subseteq 1 .. arrived /\ arrived \in Nat
  BY DEF Oldest, DigestInv, DigestTypeOK
<1>2. IsFiniteSet(Before(i)) /\ Cardinality(Before(i)) \in Nat
  BY FinitelyMany, Fewer DEF Before
<1>3. IsFiniteSet(i .. arrived) /\ Cardinality(i .. arrived) = arrived - i + 1
  BY <1>1, FS_Interval
<1>4. kept \subseteq Before(i) \cup (i .. arrived)
  BY <1>1 DEF Before
<1>5. /\ IsFiniteSet(Before(i) \cup (i .. arrived))
      /\ Cardinality(Before(i) \cup (i .. arrived)) \in Nat
      /\ Cardinality(Before(i) \cup (i .. arrived))
           <= Cardinality(Before(i)) + Cardinality(i .. arrived)
  BY <1>2, <1>3, Together
<1>6. Cardinality(kept) <= Cardinality(Before(i) \cup (i .. arrived)) /\ Cardinality(kept) \in Nat
  BY <1>4, <1>5, Fewer
<1>7. Cardinality(kept) <= Cardinality(Before(i)) + (arrived - i + 1)
  BY <1>1, <1>2, <1>3, <1>5, <1>6
<1>8. QED
  BY <1>1, <1>2, <1>6, <1>7, FinitelyMany

LEMMA ReadOldestKeeps ==
  ASSUME DigestInv, NEW h \in Hands, ReadOldest(h)
  PROVE  DigestInv'
<1> DEFINE over == hand[h].over
           state == [pc |-> "drop", raced |-> hand[h].raced, todo |-> Oldest(over)]
<1>1. /\ hand[h].pc = "oldest" /\ Turns(h, state)
      /\ UNCHANGED <<kept, arrived, released, evicted, hasty, vanished, brokenOff>>
  BY DEF ReadOldest
<1>2. over \in Int /\ hand[h].raced \in BOOLEAN /\ Oldest(over) \subseteq kept /\ h \in Adding
  BY <1>1, GripOf DEF Oldest, Adding
<1>3. /\ state \in Grips /\ state.pc = "drop" /\ state.todo = Oldest(over)
      /\ state.raced = hand[h].raced
  BY <1>2, FinitelyMany DEF Grips
<1> HIDE DEF state
<1>4. /\ hand' \in [Hands -> Grips] /\ hand'[h] = state
      /\ \A g \in Hands \ {h} : hand'[g] = hand[g]
      /\ Adding' = Adding
  BY <1>1, <1>2, <1>3, TurnsTo
<1>5. DigestTypeOK' /\ Cleared'
  BY <1>1, <1>3, <1>4 DEF DigestInv, DigestTypeOK, Cleared
<1>6. \A g \in Hands : MakesRoom(g)'
  <2>1. ASSUME ~hand[h].raced, NEW i \in Oldest(over) PROVE arrived - i >= Cap - 1
    <3>1. over + Cap - 1 <= Cardinality(kept)
      BY <1>1, <2>1 DEF DigestInv, MakesRoom
    <3>2. QED
      BY <1>2, <3>1, FullBehind
  <2>2. MakesRoom(h)'
    BY <1>1, <1>3, <1>4, <2>1 DEF MakesRoom
  <2>3. \A g \in Hands \ {h} : MakesRoom(g)'
    BY <1>1, <1>4 DEF DigestInv, MakesRoom
  <2>4. QED
    BY <2>2, <2>3
<1>7. NothingDropped'
  <2>1. \A i : Behind(i)' = Behind(i)
    BY <1>1, <1>4 DEF Behind
  <2>2. \A g \in Hands : hand[g].pc = "clear" => hand'[g] = hand[g]
    BY <1>1, <1>4
  <2>3. QED
    BY <1>1, <2>1, <2>2 DEF DigestInv, NothingDropped
<1>8. \A some \in SUBSET Adding' : RoomFor(some)'
  <2>1. \A g \in Adding' : Doomed(g) \cap kept' \subseteq Doomed(g)'
    <3> SUFFICES ASSUME NEW g \in Adding' PROVE Doomed(g) \cap kept' \subseteq Doomed(g)'
      OBVIOUS
    <3>1. CASE g = h
      BY <1>1, <1>3, <1>4, <3>1 DEF Doomed
    <3>2. CASE g # h
      <4>1. g \in Adding /\ hand'[g] = hand[g]
        BY <1>4, <3>2, FinitelyMany
      <4>2. QED
        BY <1>1, <4>1, StillDoomed
    <3>3. QED
      BY <3>1, <3>2
  <2>2. QED
    BY <1>1, <1>4, <2>1, RoomStays
<1>9. QED
  BY <1>5, <1>6, <1>7, <1>8 DEF DigestInv

(* One delete, whoever makes it: the rest of the invariant.                *)
LEMMA DeleteKeeps ==
  ASSUME DigestInv, NEW h \in Hands, hand[h].pc \in {"drop", "clear"}, hand[h].todo # {},
         Deleted(h), kept' = kept \ {First(hand[h].todo)},
         arrived' = arrived, brokenOff' = brokenOff, evicted' \subseteq 1 .. arrived,
         NothingDropped'
  PROVE  DigestInv'
<1>1. /\ First(hand[h].todo) \in hand[h].todo
      /\ hand' \in [Hands -> Grips] /\ hand'[h].pc = hand[h].pc
      /\ hand'[h].todo = hand[h].todo \ {First(hand[h].todo)}
      /\ hand[h].pc = "clear" => hand'[h].items = hand[h].items
      /\ hand[h].pc = "drop" => hand'[h].raced = hand[h].raced
      /\ \A g \in Hands \ {h} :
           /\ hand'[g].pc = hand[g].pc
           /\ hand[g].pc \in {"oldest", "drop"} => hand'[g].raced
           /\ hand[g].pc = "oldest" => hand'[g].over = hand[g].over
           /\ hand[g].pc = "drop" => hand'[g].todo = hand[g].todo
           /\ hand[g].pc \notin {"oldest", "drop"} => hand'[g] = hand[g]
      /\ Adding' = Adding
  BY DeletedLeaves
<1>2. DigestTypeOK'
  BY <1>1 DEF DigestInv, DigestTypeOK
<1>3. Cleared'
  <2>1. hand'[h].pc = "clear" => hand'[h].todo \subseteq hand'[h].items
    BY <1>1 DEF DigestInv, Cleared
  <2>2. \A g \in Hands \ {h} : hand'[g].pc = "clear" => hand'[g].todo \subseteq hand'[g].items
    BY <1>1 DEF DigestInv, Cleared
  <2>3. QED
    BY <2>1, <2>2 DEF Cleared
<1>4. \A g \in Hands : MakesRoom(g)'
  <2>1. MakesRoom(h)'
    BY <1>1 DEF DigestInv, MakesRoom
  <2>2. \A g \in Hands \ {h} : MakesRoom(g)'
    BY <1>1 DEF MakesRoom
  <2>3. QED
    BY <2>1, <2>2
<1>5. \A some \in SUBSET Adding' : RoomFor(some)'
  <2>1. \A g \in Adding' : Doomed(g) \cap kept' \subseteq Doomed(g)'
    <3> SUFFICES ASSUME NEW g \in Adding' PROVE Doomed(g) \cap kept' \subseteq Doomed(g)'
      OBVIOUS
    <3>1. /\ g \in Adding /\ g \in Hands /\ hand'[g].pc = hand[g].pc
          /\ hand[g].pc = "oldest" => hand'[g].over = hand[g].over
          /\ hand[g].pc = "drop" => hand[g].todo \cap kept' \subseteq hand'[g].todo
      BY <1>1, FinitelyMany
    <3>2. QED
      BY <3>1, StillDoomed
  <2>2. QED
    BY <1>1, <2>1, RoomStays
<1>6. QED
  BY <1>2, <1>3, <1>4, <1>5 DEF DigestInv

LEMMA DropOldestKeeps ==
  ASSUME DigestInv, NEW h \in Hands, DropOldest(h)
  PROVE  DigestInv'
<1> DEFINE item == First(hand[h].todo)
           there == {item} \cap kept
<1>1. /\ hand[h].pc = "drop" /\ hand[h].todo # {} /\ Deleted(h)
      /\ kept' = kept \ {item} /\ evicted' = evicted \cup there
      /\ hasty' = IF hand[h].raced THEN hasty \cup there ELSE hasty
      /\ UNCHANGED <<arrived, released, vanished, brokenOff>>
  BY DEF DropOldest
<1>2. /\ item \in hand[h].todo
      /\ \A g \in Hands : hand[g].pc = "clear" => hand'[g] = hand[g]
      /\ Adding' = Adding
  BY <1>1, DeletedLeaves
<1> HIDE DEF item
<1>3. evicted' \subseteq 1 .. arrived
  BY <1>1 DEF DigestInv, DigestTypeOK
<1>4. \A i : Behind(i)' = Behind(i)
  BY <1>1, <1>2 DEF Behind
<1>5. ASSUME item \in kept, ~hand[h].raced PROVE Behind(item) >= Cap
  <2>1. arrived - item >= Cap - 1 /\ item \in 1 .. arrived
    BY <1>1, <1>2, <1>5 DEF DigestInv, MakesRoom, DigestTypeOK
  <2>2. h \in Adding
    BY <1>1 DEF Adding
  <2>3. Cardinality(Adding) >= 1
    <3>1. Cardinality(Adding) # 0
      BY <2>2, FinitelyMany, FS_EmptySet
    <3>2. QED
      BY <3>1, FinitelyMany
  <2>4. QED
    BY <2>1, <2>3, FinitelyMany DEF Behind
<1>6. NothingDropped'
  <2> SUFFICES ASSUME NEW i \in 1 .. arrived
               PROVE  \/ i \in kept' \cup released \cup vanished \cup hasty'
                      \/ \E g \in Hands : hand'[g].pc = "clear" /\ i \in hand'[g].items
                      \/ i \in evicted' /\ Behind(i) >= Cap
    BY <1>1, <1>4 DEF NothingDropped
  <2>1. CASE i \in kept
    BY <1>1, <1>5, <2>1
  <2>2. CASE i \notin kept
    BY <1>1, <1>2, <2>2 DEF DigestInv, NothingDropped
  <2>3. QED
    BY <2>1, <2>2
<1>7. QED
  BY <1>1, <1>3, <1>6, DeleteKeeps DEF item

LEMMA ClearKeeps ==
  ASSUME DigestInv, NEW h \in Hands, Clear(h)
  PROVE  DigestInv'
<1> DEFINE item == First(hand[h].todo)
<1>1. /\ hand[h].pc = "clear" /\ hand[h].todo # {} /\ Deleted(h) /\ kept' = kept \ {item}
      /\ UNCHANGED <<arrived, released, evicted, hasty, vanished, brokenOff>>
  BY DEF Clear
<1>2. /\ item \in hand[h].todo /\ hand'[h].pc = "clear" /\ hand'[h].items = hand[h].items
      /\ \A g \in Hands \ {h} : hand[g].pc = "clear" => hand'[g] = hand[g]
      /\ Adding' = Adding
  BY <1>1, DeletedLeaves
<1> HIDE DEF item
<1>3. item \in hand[h].items
  BY <1>1, <1>2 DEF DigestInv, Cleared
<1>4. \A i : Behind(i)' = Behind(i)
  BY <1>1, <1>2 DEF Behind
<1>5. NothingDropped'
  <2> SUFFICES ASSUME NEW i \in 1 .. arrived
               PROVE  \/ i \in kept' \cup released \cup vanished \cup hasty
                      \/ \E g \in Hands : hand'[g].pc = "clear" /\ i \in hand'[g].items
                      \/ i \in evicted /\ Behind(i) >= Cap
    BY <1>1, <1>4 DEF NothingDropped
  <2>1. CASE i = item
    BY <1>2, <1>3, <2>1
  <2>2. ASSUME NEW g \in Hands, hand[g].pc = "clear", i \in hand[g].items
        PROVE  hand'[g].pc = "clear" /\ i \in hand'[g].items
    BY <1>2, <2>2
  <2>3. CASE i # item
    BY <1>1, <2>2, <2>3 DEF DigestInv, NothingDropped
  <2>4. QED
    BY <2>1, <2>3
<1>6. evicted' \subseteq 1 .. arrived
  BY <1>1 DEF DigestInv, DigestTypeOK
<1>7. QED
  BY <1>1, <1>5, <1>6, DeleteKeeps DEF item

LEMMA PutItemKeeps ==
  ASSUME DigestInv, NEW h \in Hands, PutItem(h)
  PROVE  DigestInv'
<1>1. /\ hand[h].pc = "drop" /\ hand[h].todo = {} /\ Turns(h, Free)
      /\ arrived' = arrived + 1 /\ kept' = kept \cup {arrived + 1}
      /\ UNCHANGED <<released, evicted, hasty, vanished, brokenOff>>
  BY DEF PutItem
<1>2. Free \in Grips /\ Free.pc \notin {"oldest", "drop", "clear"} /\ h \in Adding
  BY <1>1 DEF Free, Grips, Adding
<1>3. /\ hand' \in [Hands -> Grips] /\ hand'[h] = Free
      /\ \A g \in Hands \ {h} : hand'[g] = hand[g]
      /\ Adding' = Adding \ {h}
  BY <1>1, <1>2, TurnsTo
<1>4. /\ arrived \in Nat /\ kept \subseteq 1 .. arrived /\ arrived + 1 \notin kept
      /\ \A i \in kept : i < arrived + 1
  BY DEF DigestInv, DigestTypeOK
<1>5. DigestTypeOK' /\ Cleared'
  <2>1. kept' \subseteq 1 .. arrived' /\ evicted' \subseteq 1 .. arrived' /\ arrived' \in Nat
    BY <1>1, <1>4 DEF DigestInv, DigestTypeOK
  <2>2. QED
    BY <1>1, <1>2, <1>3, <2>1 DEF DigestInv, DigestTypeOK, Cleared
<1>6. /\ Cardinality(kept') = Cardinality(kept) + 1
      /\ IsFiniteSet(Adding') /\ Cardinality(Adding') = Cardinality(Adding) - 1
      /\ Cardinality(Adding) \in Nat /\ Cardinality(kept) \in Nat
  BY <1>1, <1>2, <1>3, <1>4, FinitelyMany, FS_AddElement, FS_RemoveElement
<1>7. \A g \in Hands : MakesRoom(g)'
  <2> SUFFICES ASSUME NEW g \in Hands PROVE MakesRoom(g)'
    OBVIOUS
  <2>1. CASE g = h
    BY <1>2, <1>3, <2>1 DEF MakesRoom
  <2>2. CASE g # h
    <3>1. hand'[g] = hand[g] /\ MakesRoom(g)
      BY <1>3, <2>2 DEF DigestInv
    <3>2. ASSUME hand[g].pc = "oldest", ~hand[g].raced
          PROVE  hand[g].over + Cap - 1 <= Cardinality(kept')
      <4>1. hand[g].over \in Int /\ hand[g].over + Cap - 1 <= Cardinality(kept)
        BY <3>1, <3>2, GripOf DEF MakesRoom
      <4>2. QED
        BY <1>6, <4>1, FinitelyMany
    <3>3. ASSUME hand[g].pc = "drop", ~hand[g].raced, NEW i \in hand[g].todo
          PROVE  arrived' - i >= Cap - 1
      <4>1. i \in Nat /\ arrived - i >= Cap - 1
        BY <3>1, <3>3, GripOf DEF MakesRoom
      <4>2. QED
        BY <1>1, <1>4, <4>1, FinitelyMany
    <3>4. QED
      BY <3>1, <3>2, <3>3 DEF MakesRoom
  <2>3. QED
    BY <2>1, <2>2
<1>8. NothingDropped'
  <2> SUFFICES ASSUME NEW i \in 1 .. arrived'
               PROVE  \/ i \in kept' \cup released \cup vanished \cup hasty
                      \/ \E g \in Hands : hand'[g].pc = "clear" /\ i \in hand'[g].items
                      \/ i \in evicted /\ Behind(i)' >= Cap
    BY <1>1 DEF NothingDropped
  <2>1. i \in 1 .. arrived \/ i \in kept'
    BY <1>1, <1>4
  <2>2. CASE i \in 1 .. arrived
    <3>1. Behind(i) >= Cap => Behind(i)' >= Cap
      <4>1. arrived' - arrived + Cardinality(Adding') - Cardinality(Adding) + brokenOff' - brokenOff
              >= 0
        BY <1>1, <1>4, <1>6, FinitelyMany
      <4>2. QED
        BY <1>1, <1>4, <1>6, <2>2, <4>1, EnoughBehind, FinitelyMany
    <3>2. \A g \in Hands : hand[g].pc = "clear" => hand'[g] = hand[g]
      BY <1>1, <1>3
    <3>3. QED
      BY <1>1, <2>2, <3>1, <3>2 DEF DigestInv, NothingDropped
  <2>3. QED
    BY <2>1, <2>2
<1>9. \A some \in SUBSET Adding' : RoomFor(some)'
  <2> SUFFICES ASSUME NEW some \in SUBSET Adding' PROVE RoomFor(some)'
    OBVIOUS
  <2> DEFINE left == kept \ UNION {Doomed(g) : g \in some \cup {h}}
             left1 == kept' \ UNION {Doomed(g)' : g \in some}
  <2>1. h \notin some /\ some \cup {h} \in SUBSET Adding /\ some \subseteq Hands
    BY <1>2, <1>3, FinitelyMany
  <2>2. \A g \in some : Doomed(g) \subseteq Doomed(g)'
    <3> SUFFICES ASSUME NEW g \in some, NEW i \in Doomed(g) PROVE i \in Doomed(g)'
      OBVIOUS
    <3>1. g \in Hands /\ hand'[g] = hand[g]
      BY <1>3, <2>1
    <3>2. CASE hand[g].pc = "oldest"
      <4>1. i \in kept /\ Cardinality(Before(i)) < hand[g].over
        BY <3>2 DEF Doomed, Oldest
      <4>2. {j \in kept' : j < i} = Before(i)
        BY <1>1, <1>4, <4>1 DEF Before
      <4>3. i \in {k \in kept' : Cardinality({j \in kept' : j < k}) < hand'[g].over}
        BY <1>1, <3>1, <4>1, <4>2
      <4>4. QED
        BY <3>1, <3>2, <4>3 DEF Doomed, Oldest, Before
    <3>3. CASE hand[g].pc # "oldest"
      BY <1>1, <3>1, <3>3 DEF Doomed
    <3>4. QED
      BY <3>2, <3>3
  <2>3. Doomed(h) = {}
    BY <1>1 DEF Doomed
  <2>4. left1 \subseteq left \cup {arrived + 1}
    <3> SUFFICES ASSUME NEW i \in left1, i # arrived + 1 PROVE i \in left
      OBVIOUS
    <3>1. i \in kept /\ \A g \in some : i \notin Doomed(g)
      BY <1>1, <2>2
    <3>2. QED
      BY <2>3, <3>1
  <2>5. Cardinality(left) + Cardinality(some \cup {h}) <= Cap + Cardinality(Hands) - 1
    <3>1. RoomFor(some \cup {h})
      BY <2>1 DEF DigestInv
    <3>2. QED
      BY <3>1 DEF RoomFor
  <2>6. IsFiniteSet(left) /\ IsFiniteSet(some)
    BY <2>1, FinitelyMany, Fewer
  <2> HIDE DEF left, left1
  <2>7. /\ IsFiniteSet(left \cup {arrived + 1})
        /\ Cardinality(left \cup {arrived + 1}) <= Cardinality(left) + 1
        /\ Cardinality(left) \in Nat /\ Cardinality(left \cup {arrived + 1}) \in Nat
    <3>1. IsFiniteSet(left \cup {arrived + 1})
      BY <2>6, FS_AddElement
    <3>2. Cardinality(left \cup {arrived + 1}) =
            IF arrived + 1 \in left THEN Cardinality(left) ELSE Cardinality(left) + 1
      BY <2>6, FS_AddElement
    <3>3. Cardinality(left) \in Nat /\ Cardinality(left \cup {arrived + 1}) \in Nat
      BY <2>6, <3>1, FS_CardinalityType
    <3>4. QED
      BY <3>1, <3>2, <3>3
  <2>8. Cardinality(left1) <= Cardinality(left \cup {arrived + 1}) /\ Cardinality(left1) \in Nat
    BY <2>4, <2>7, Fewer
  <2>9. Cardinality(some \cup {h}) = Cardinality(some) + 1 /\ Cardinality(some) \in Nat
    BY <2>1, <2>6, FS_AddElement, FS_CardinalityType
  <2>10. Cardinality(left1) + Cardinality(some) <= Cap + Cardinality(Hands) - 1
    BY <2>5, <2>7, <2>8, <2>9, FinitelyMany
  <2>11. QED
    BY <2>10 DEF RoomFor, left1
<1>10. QED
  BY <1>5, <1>7, <1>8, <1>9 DEF DigestInv

LEMMA CountForFlushKeeps ==
  ASSUME DigestInv, NEW h \in Hands, NEW clears \in BOOLEAN, CountForFlush(h, clears)
  PROVE  DigestInv'
<1> DEFINE state == [pc |-> "fetch", limit |-> Cardinality(kept), clears |-> clears]
<1>1. /\ hand[h] = Free /\ Turns(h, state)
      /\ UNCHANGED <<kept, arrived, released, evicted, hasty, vanished, brokenOff>>
  BY DEF CountForFlush
<1>2. state \in Grips /\ state.pc = "fetch" /\ h \notin Adding
  BY <1>1, FinitelyMany DEF Grips, Adding, Free
<1> HIDE DEF state
<1>3. /\ hand'[h] = state /\ \A g \in Hands \ {h} : hand'[g] = hand[g]
      /\ Adding' = Adding
  BY <1>1, <1>2, TurnsTo
<1>4. NothingDropped'
  <2>1. \A i : Behind(i)' = Behind(i)
    BY <1>1, <1>3 DEF Behind
  <2>2. \A g \in Hands : hand[g].pc = "clear" => hand'[g] = hand[g]
    BY <1>1, <1>3 DEF Free
  <2>3. QED
    BY <1>1, <2>1, <2>2 DEF DigestInv, NothingDropped
<1>5. QED
  BY <1>1, <1>2, <1>4, NothingMoved, FinitelyMany

LEMMA FetchKeeps ==
  ASSUME DigestInv, NEW h \in Hands, Fetch(h)
  PROVE  DigestInv'
<1> DEFINE items == Oldest(hand[h].limit)
           state == [pc |-> "clear", items |-> items,
                     todo |-> IF hand[h].clears THEN items ELSE {}]
<1>1. /\ hand[h].pc = "fetch" /\ Turns(h, state)
      /\ UNCHANGED <<kept, arrived, released, evicted, hasty, vanished, brokenOff>>
  BY DEF Fetch
<1>2. items \in SUBSET Nat /\ h \notin Adding
  BY <1>1, FinitelyMany DEF Oldest, Adding
<1> HIDE DEF items
<1>3. state \in Grips /\ state.pc = "clear" /\ state.todo \subseteq state.items
  BY <1>2 DEF Grips
<1> HIDE DEF state
<1>4. /\ hand'[h] = state /\ \A g \in Hands \ {h} : hand'[g] = hand[g]
      /\ Adding' = Adding
  BY <1>1, <1>2, <1>3, TurnsTo
<1>5. NothingDropped'
  <2>1. \A i : Behind(i)' = Behind(i)
    BY <1>1, <1>4 DEF Behind
  <2>2. \A g \in Hands : hand[g].pc = "clear" => hand'[g] = hand[g]
    BY <1>1, <1>4
  <2>3. QED
    BY <1>1, <2>1, <2>2 DEF DigestInv, NothingDropped
<1>6. QED
  BY <1>1, <1>3, <1>5, NothingMoved, FinitelyMany

LEMMA OutputKeeps ==
  ASSUME DigestInv, NEW h \in Hands, Output(h)
  PROVE  DigestInv'
<1>1. /\ hand[h].pc = "clear" /\ Turns(h, Free) /\ released' = released \cup hand[h].items
      /\ UNCHANGED <<kept, arrived, evicted, hasty, vanished, brokenOff>>
  BY DEF Output
<1>2. Free \in Grips /\ Free.pc \notin {"oldest", "drop", "clear"} /\ h \notin Adding
  BY <1>1 DEF Grips, Adding, Free
<1>3. /\ hand'[h] = Free /\ \A g \in Hands \ {h} : hand'[g] = hand[g]
      /\ Adding' = Adding
  BY <1>1, <1>2, TurnsTo
<1>4. NothingDropped'
  <2>1. \A i : Behind(i)' = Behind(i)
    BY <1>1, <1>3 DEF Behind
  <2>2. \A g \in Hands \ {h} : hand[g].pc = "clear" => hand'[g] = hand[g]
    BY <1>3
  <2>3. QED
    BY <1>1, <2>1, <2>2 DEF DigestInv, NothingDropped
<1>5. QED
  BY <1>1, <1>2, <1>4, NothingMoved, FinitelyMany

LEMMA BreakOffKeeps ==
  ASSUME DigestInv, NEW h \in Hands, BreakOff(h)
  PROVE  DigestInv'
<1>1. /\ Turns(h, Free) /\ brokenOff' = brokenOff + 1
      /\ vanished' = IF hand[h].pc = "clear" THEN vanished \cup (hand[h].items \ kept) ELSE vanished
      /\ UNCHANGED <<kept, arrived, released, evicted, hasty>>
  BY DEF BreakOff
<1>2. Free \in Grips /\ Free.pc \notin {"oldest", "drop", "clear"}
  BY DEF Grips, Free
<1>3. /\ hand'[h] = Free /\ \A g \in Hands \ {h} : hand'[g] = hand[g]
      /\ Adding' = Adding \ {h}
  BY <1>1, <1>2, TurnsTo
<1>4. /\ IsFiniteSet(Adding') /\ Cardinality(Adding') >= Cardinality(Adding) - 1
      /\ Cardinality(Adding') \in Nat /\ Cardinality(Adding) \in Nat
  <2>1. /\ IsFiniteSet(Adding \ {h})
        /\ Cardinality(Adding \ {h}) = IF h \in Adding THEN Cardinality(Adding) - 1
                                       ELSE Cardinality(Adding)
    BY FinitelyMany, FS_RemoveElement
  <2>2. Cardinality(Adding \ {h}) \in Nat
    BY <2>1, FS_CardinalityType
  <2>3. QED
    BY <1>3, <2>1, <2>2, FinitelyMany
<1>5. NothingDropped'
  <2> SUFFICES ASSUME NEW i \in 1 .. arrived
               PROVE  \/ i \in kept \cup released \cup vanished' \cup hasty
                      \/ \E g \in Hands : hand'[g].pc = "clear" /\ i \in hand'[g].items
                      \/ i \in evicted /\ Behind(i)' >= Cap
    BY <1>1 DEF NothingDropped
  <2>1. Behind(i) >= Cap => Behind(i)' >= Cap
    <3>1. arrived' - arrived + Cardinality(Adding') - Cardinality(Adding) + brokenOff' - brokenOff
            >= 0
      BY <1>1, <1>4, FinitelyMany
    <3>2. QED
      BY <1>1, <1>4, <3>1, EnoughBehind, FinitelyMany
  <2>2. \A g \in Hands \ {h} : hand[g].pc = "clear" => hand'[g] = hand[g]
    BY <1>3
  <2>3. QED
    BY <1>1, <2>1, <2>2 DEF DigestInv, NothingDropped
<1>6. QED
  BY <1>1, <1>2, <1>5, NothingMoved, FinitelyMany

LEMMA DigestInitInv == DigestInit => DigestInv
<1> SUFFICES ASSUME DigestInit PROVE DigestInv
  OBVIOUS
<1>1. \A h \in Hands : hand[h] = Free
  BY DEF DigestInit
<1>2. DigestTypeOK /\ Cleared /\ NothingDropped
  BY DEF DigestInit, DigestTypeOK, Cleared, NothingDropped, Grips, Free
<1>3. Adding = {} /\ \A h \in Hands : MakesRoom(h)
  BY <1>1 DEF Adding, MakesRoom, Free
<1>4. RoomFor({})
  <2>1. IsFiniteSet(Hands) /\ Cardinality(Hands) \in Nat /\ Cap \in Nat \ {0}
    BY CapAssumption, FS_CardinalityType
  <2>2. Cardinality({}) = 0
    BY FS_EmptySet, Zenon
  <2>3. kept \ UNION {Doomed(h) : h \in {}} = {}
    BY DEF DigestInit
  <2>4. Cardinality({}) + Cardinality({}) <= Cap + Cardinality(Hands) - 1
    BY <2>1, <2>2
  <2>5. QED
    BY <2>3, <2>4, Zenon DEF RoomFor
<1>5. QED
  BY <1>2, <1>3, <1>4 DEF DigestInv

LEMMA DigestInvKept == DigestInv /\ [DigestNext]_digestVars => DigestInv'
<1> SUFFICES ASSUME DigestInv, [DigestNext]_digestVars PROVE DigestInv'
  OBVIOUS
<1>1. CASE UNCHANGED digestVars
  BY <1>1 DEF digestVars, DigestInv, DigestTypeOK, Cleared, NothingDropped, MakesRoom, RoomFor,
              Doomed, Oldest, Before, Behind, Adding
<1>2. CASE DigestNext
  BY <1>2, CountForAddKeeps, ReadOldestKeeps, DropOldestKeeps, PutItemKeeps, CountForFlushKeeps,
     FetchKeeps, ClearKeeps, OutputKeeps, BreakOffKeeps DEF DigestNext
<1>3. QED
  BY <1>1, <1>2

THEOREM DigestInvariant == DigestSpec => []DigestInv
<1>1. QED
  BY DigestInitInv, DigestInvKept, PTL DEF DigestSpec

(* Only what is not flushed within max_items arrivals is lost, however     *)
(* many adds and flushes count, read and delete at once, but for an        *)
(* overtaken add and a flush that breaks off.                              *)
THEOREM DigestKeepsItems == DigestSpec => []NothingDropped
<1>1. DigestInv => NothingDropped
  BY DEF DigestInv
<1>2. QED
  BY <1>1, DigestInvariant, PTL

(* The cap is exceeded by the items of the adds that run at once, and by   *)
(* no more.                                                                *)
THEOREM DigestHoldsCap == DigestSpec => []CapHolds
<1>1. DigestInv => CapHolds
  <2> SUFFICES ASSUME DigestInv PROVE CapHolds
    OBVIOUS
  <2>1. Cardinality(kept \ UNION {Doomed(h) : h \in {}}) + Cardinality({})
          <= Cap + Cardinality(Hands) - 1
    BY DEF DigestInv, RoomFor
  <2>2. kept \ UNION {Doomed(h) : h \in {}} = kept
    OBVIOUS
  <2>3. Cardinality({}) = 0
    BY FS_EmptySet, Zenon
  <2>4. QED
    BY <2>1, <2>2, <2>3, FinitelyMany DEF CapHolds
<1>2. QED
  BY <1>1, DigestInvariant, PTL
-----------------------------------------------------------------------------
(* The control plane as a whole.                                           *)

(* A question about fire times is asked once, within its bounds.           *)
LEMMA QuestionsAsked == CronSpec => []CronTypeOK
<1>1. CronInit => CronTypeOK
  BY CronAssumption DEF CronInit, CronTypeOK
<1>2. CronTypeOK /\ [CronNext]_cronVars => CronTypeOK'
  BY DEF CronTypeOK, CronNext, AskDays, AskFires, AskRate, cronVars
<1>3. QED
  BY <1>1, <1>2, PTL DEF CronSpec

(* The components are themselves in the control plane: whichever of them   *)
(* moves, each one sees one of its own steps or none.                      *)
THEOREM PartsKeepToThemselves ==
  Spec => /\ GrantSpec /\ HookSpec /\ CredSpec /\ PubSpec /\ CronSpec
          /\ DropSpec /\ SchedSpec /\ DigestSpec /\ NoticeSpec
<1>1. Init => /\ GrantInit /\ HookInit /\ CredInit /\ PubInit /\ CronInit
              /\ DropInit /\ SchedInit /\ DigestInit /\ NoticeInit
  BY DEF Init
<1>2. [Next]_controlVars =>
        /\ [GrantNext]_grantVars /\ [HookNext]_hookVars /\ [CredNext]_credVars
        /\ [PubNext]_pubVars /\ [CronNext]_cronVars /\ [DropNext]_dropVars
        /\ [SchedNext]_schedVars /\ [DigestNext]_digestVars /\ [NoticeNext]_noticeVars
  BY DEF Next, controlVars
<1>3. QED
  BY <1>1, <1>2, PTL DEF Spec, GrantSpec, HookSpec, CredSpec, PubSpec, CronSpec,
                         DropSpec, SchedSpec, DigestSpec, NoticeSpec

(* The records, locks and counters of the components keep their shape in   *)
(* the composed control plane, and the invariants their proofs rest on     *)
(* hold in it.                                                             *)
THEOREM ControlPlaneInvariant == Spec => []ControlTypeOK
<1>1. HookInv /\ CredInv /\ TokenInv /\ PubInv /\ CronTypeOK /\ DropInv /\ SchedInv
        /\ DigestInv /\ NoticeInv /\ TellInv => ControlTypeOK
  BY DEF ControlTypeOK
<1>2. QED
  BY <1>1, PartsKeepToThemselves, QuestionsAsked, HookInvariant, CredInvariant, TokenInvariant,
     PublishedInvariant, DropInvariant, ScheduleInvariant, DigestInvariant, NoticeInvariant,
     TellInvariant, PTL
(* What the components promise they keep promising side by side: every     *)
(* invariant of theirs but the two of the fire times, and the decision on  *)
(* a device grant, which stands.                                           *)
THEOREM ControlPlaneKeepsPromises ==
  Spec => /\ [](OneHeir /\ OwnedByApprover)
          /\ [](EffectOnce /\ AcceptedIsServed /\ FailedIsRetryable)
          /\ [](RevokedStaysEmpty /\ StoredTokenWorks)
          /\ [](SwitchHolds /\ VersionsKept /\ StreakCountsEvents)
          /\ [](PassedIsPublished /\ StoredFires)
          /\ [](NothingDropped /\ CapHolds)
          /\ [](OneMail /\ FailedIsTold)
          /\ DecisionStands
<1>1. Spec => /\ [](OneHeir /\ OwnedByApprover)
              /\ DecisionStands
  BY PartsKeepToThemselves, NoSecondHeir, SessionsOfApprover, DecisionIsFinal, PTL
<1>2. Spec => [](EffectOnce /\ AcceptedIsServed /\ FailedIsRetryable)
  BY PartsKeepToThemselves, HookEffectsOnce, HookServesAccepted, HookRetriesFailed, PTL
<1>3. Spec => [](RevokedStaysEmpty /\ StoredTokenWorks)
  BY PartsKeepToThemselves, RevokeIsFinal, RefreshKeepsToken, PTL
<1>4. Spec => [](SwitchHolds /\ VersionsKept /\ StreakCountsEvents)
  BY PartsKeepToThemselves, OffStaysOff, HistoryStays, OneEventNeverTrips, PTL
<1>5. Spec => [](PassedIsPublished /\ StoredFires)
  BY PartsKeepToThemselves, CursorPassesNothing, StoredSchedulesFire, PTL
<1>6. Spec => [](NothingDropped /\ CapHolds)
  BY PartsKeepToThemselves, DigestKeepsItems, DigestHoldsCap, PTL
<1>7. Spec => [](OneMail /\ FailedIsTold)
  BY PartsKeepToThemselves, MailedOnce, FailuresAreTold, PTL
<1>8. QED
  BY <1>1, <1>2, <1>3, <1>4, <1>5, <1>6, <1>7, PTL
=============================================================================
