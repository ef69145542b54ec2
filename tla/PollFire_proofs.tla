--------------------------- MODULE PollFire_proofs ---------------------------
(***************************************************************************)
(* One poll, for every number of items, fires, workflows and steps, any    *)
(* page size, budget and overlap, and any number of failures, dead         *)
(* invocations, manual fires, resets, deletes and expiries: the position   *)
(* never moves over an item that did not run and that nobody waived.       *)
(***************************************************************************)
EXTENDS PollFire, WellFoundedInduction, TLAPS

Pcs == {"idle", "fetch", "loop", "act", "store", "drop", "delete", "remove"}
LocalStates ==
    [pc : Pcs, todo : Seq(ItemIds), mem : SUBSET ItemIds, next : 0..Items, fired : 0..MaxItems,
     step : 1..(Len(WorkflowOf) + 1), fresh : BOOLEAN]
Records == {"none", "over", "orphan", "done", "filtered"} \cup Fires

-----------------------------------------------------------------------------
(* The constants.                                                          *)

(* The steps are numbered from 1, and the steps of a workflow are adjacent. *)
LEMMA StepsNumbered ==
    /\ Len(WorkflowOf) \in Nat /\ StepIds = 1..Len(WorkflowOf)
    /\ \A s \in StepIds : Behind(s) \subseteq StepIds /\ s \in Chain(s)
    /\ \A s, t \in StepIds : t < s => (t \in Behind(s) <=> t \in Chain(s))
BY PollAssumption DEF StepIds, Behind, Chain

LEMMA Numbers ==
    /\ Items \in Nat \ {0} /\ PageSize \in Nat \ {0} /\ MaxItems \in Nat \ {0} /\ Recycled \in Nat
    /\ ItemIds \subseteq Nat \ {0}
BY PollAssumption DEF ItemIds

(* Every workflow has a last step.                                         *)
LEMMA LastIsLast ==
  ASSUME NEW s \in StepIds
  PROVE  /\ Last(s) \in StepIds /\ Last(s) \in Chain(s)
         /\ \A u \in Chain(s) : u <= Last(s)
<1> DEFINE n == Len(WorkflowOf)
           T == {n - u : u \in Chain(s)}
           Below == OpToRel(<, Nat)
<1>1. Chain(s) \subseteq 1..n /\ n \in Nat /\ s \in Chain(s)
  BY StepsNumbered DEF Chain
<1>2. T \subseteq Nat /\ T # {}
  BY <1>1
<1>3. PICK m \in T : \A k \in T : ~(<<k, m>> \in Below)
  <2> HIDE DEF T
  <2>1. IsWellFoundedOn(Below, Nat)
    BY NatLessThanWellFounded
  <2> HIDE DEF Below
  <2>2. QED
    BY <1>2, <2>1, WFMin, Zenon
<1>4. \A k \in T : m <= k
  <2> SUFFICES ASSUME NEW k \in T, ~(m <= k) PROVE FALSE
    OBVIOUS
  <2> HIDE DEF T
  <2>1. k \in Nat /\ m \in Nat
    BY <1>2
  <2>2. <<k, m>> \in Below
    BY <2>1 DEF OpToRel
  <2>3. QED
    BY <1>3, <2>2
<1>5. PICK t \in Chain(s) : m = n - t
  BY <1>3
<1>6. \A u \in Chain(s) : u <= t
  <2>1. \A u \in Chain(s) : n - u \in T
    OBVIOUS
  <2> HIDE DEF T
  <2>2. \A u \in Chain(s) : n - t <= n - u
    BY <1>4, <1>5, <2>1
  <2> HIDE DEF n
  <2>3. QED
    BY <1>1, <2>2
<1>7. \E x \in Chain(s) : \A u \in Chain(s) : u <= x
  BY <1>6
<1>8. QED
  BY <1>1, <1>7, StepsNumbered DEF Last

-----------------------------------------------------------------------------
(* What every step has in common.                                          *)

\* A finished record stays as it is, and a waiver stands.
Kept ==
    /\ \A i \in ItemIds, s \in StepIds :
         ledger[i][s] \in {"done", "filtered"} => ledger'[i][s] = ledger[i][s]
    /\ waived \subseteq waived'

(* What was passed stays passed.                                           *)
LEMMA PassedStays ==
  ASSUME Kept
  PROVE  /\ \A i \in ItemIds, s \in StepIds : Settled(i, s) => Settled(i, s)'
         /\ \A i \in ItemIds : Handled(i) => Handled(i)'
         /\ \A i \in ItemIds : Passed(i) => Passed(i)'
         /\ \A n : PassedUpTo(n) => PassedUpTo(n)'
<1>1. \A i \in ItemIds, s \in StepIds : Settled(i, s) => Settled(i, s)'
  BY StepsNumbered DEF Kept, Settled
<1>2. \A i \in ItemIds : Handled(i) => Handled(i)'
  BY <1>1 DEF Handled
<1>3. \A i \in ItemIds : Passed(i) => Passed(i)'
  BY <1>2 DEF Passed, Kept
<1>4. \A n : PassedUpTo(n) => PassedUpTo(n)'
  BY <1>3 DEF PassedUpTo
<1>5. QED
  BY <1>1, <1>2, <1>3, <1>4

(* A caller that does not move still knows what it knew.                   *)
LEMMA OnlookerKnows ==
  ASSUME Kept, mode' = mode, NEW c \in Callers, fire'[c] = fire[c],
         fire[c] \in LocalStates, CallerKnows(c)
  PROVE  CallerKnows(c)'
<1> DEFINE todo == fire[c].todo
<1>1. todo \in Seq(ItemIds) /\ fire[c].mem \subseteq ItemIds
  BY DEF LocalStates
<1>2. (\A i \in fire[c].mem : Passed(i))'
  BY <1>1, PassedStays DEF CallerKnows
<1>3. (fire[c].pc = "fetch" =>
        fire[c].step = 1 /\ ~fire[c].fresh /\ PassedUpTo(fire[c].next))'
  BY PassedStays DEF CallerKnows, PassedUpTo
<1>4. (Listing(c) /\ mode = "watermark" =>
         /\ Gapless(fire[c].todo)
         /\ BudgetLeft(c) /\ fire[c].todo # <<>> => PassedUpTo(Current(c) - 1))'
  BY PassedStays DEF CallerKnows, PassedUpTo, Listing, Gapless, BudgetLeft, Current
<1>5. (Listing(c) /\ mode = "next_cursor" /\ ~fire[c].fresh =>
         \A i \in ItemIds : i <= fire[c].next => Passed(i) \/ i \in Range(fire[c].todo))'
  BY PassedStays DEF CallerKnows, Listing, Range
<1>6. QED
  BY <1>2, <1>3, <1>4, <1>5 DEF CallerKnows

LEMMA OnlookerHolds ==
  ASSUME Kept, NEW f \in Fires, fire'[f] = fire[f], fire[f] \in LocalStates, FireKnows(f),
         \A i \in ItemIds, s \in StepIds : ledger[i][s] = f => ledger'[i][s] = f
  PROVE  FireKnows(f)'
<1>1. fire[f].todo # <<>> => Current(f) \in ItemIds
  BY DEF LocalStates, Current
<1>2. (fire[f].pc \in {"act", "store"} => fire[f].todo # <<>> /\ BudgetLeft(f))'
  BY DEF FireKnows, BudgetLeft
<1>3. (fire[f].pc = "act" =>
        fire[f].step \in StepIds /\ ledger[Current(f)][fire[f].step] = f)'
  BY <1>1 DEF FireKnows, Current
<1>4. (Listing(f) /\ fire[f].todo # <<>> =>
         \A s \in StepIds : s < fire[f].step => Settled(Current(f), s))'
  <2> SUFFICES ASSUME Listing(f)', fire[f].todo # <<>>,
                      NEW s \in StepIds, s < fire[f].step
               PROVE  Settled(Current(f), s)'
    OBVIOUS
  <2>1. Settled(Current(f), s)
    BY DEF FireKnows, Listing
  <2>2. QED
    BY <1>1, <2>1, PassedStays DEF Current, Settled
<1>5. (fire[f].pc = "store" => Handled(Current(f)))'
  <2> SUFFICES ASSUME fire[f].pc = "store" PROVE Handled(Current(f))'
    OBVIOUS
  <2>1. Handled(Current(f)) /\ Current(f) \in ItemIds
    BY <1>1 DEF FireKnows
  <2>2. QED
    BY <2>1, PassedStays DEF Current, Handled, Settled
<1>6. QED
  BY <1>2, <1>3, <1>4, <1>5 DEF FireKnows

(* The position and the seen-set stand, or lose entries.                   *)
LEMMA PositionStands ==
  ASSUME PollInv, Kept, cursor' \in {0, cursor}, seen' \subseteq seen
  PROVE  NothingSkipped'
<1>1. \A i \in ItemIds : i <= cursor' => i <= cursor
  BY DEF PollInv, PollTypeOK, ItemIds
<1>2. \A i \in ItemIds : i <= cursor' \/ i \in seen' => Passed(i)
  BY <1>1 DEF PollInv, NothingSkipped, Passed
<1>3. \A i \in ItemIds : i <= cursor' \/ i \in seen' => Passed(i)'
  BY <1>2, PassedStays
<1>4. QED
  BY <1>3 DEF NothingSkipped, Passed

\* What a fire holds stays with it, whatever the others do.
HeldByOthers(c) ==
    \A f \in Fires \ {c}, i \in ItemIds, s \in StepIds : ledger[i][s] = f => ledger'[i][s] = f

LEMMA Typed ==
  ASSUME PollInv
  PROVE  /\ fire \in [Callers -> LocalStates] /\ ledger \in [ItemIds -> [StepIds -> Records]]
         /\ cursor \in 0..Items /\ arrived \in 0..Items
         /\ \A c \in Callers : fire[c].todo # <<>> => Current(c) \in ItemIds
<1>1. fire \in [Callers -> LocalStates] /\ ledger \in [ItemIds -> [StepIds -> Records]]
  BY DEF PollInv, PollTypeOK, LocalStates, Records, Pcs
<1>2. \A c \in Callers : fire[c].todo # <<>> => Current(c) \in ItemIds
  BY <1>1 DEF LocalStates, Current
<1>3. QED
  BY <1>1, <1>2 DEF PollInv, PollTypeOK

(* One caller moves.                                                       *)
LEMMA OneMoves ==
  ASSUME PollInv, PollTypeOK', NothingSkipped', Kept, mode' = mode,
         NEW c \in Callers, \A d \in Callers \ {c} : fire'[d] = fire[d],
         HeldByOthers(c), CallerKnows(c)',
         c \in Fires => FireKnows(c)', c = op => OperatorKnows'
  PROVE  PollInv'
<1>1. ASSUME NEW d \in Callers PROVE CallerKnows(d)'
  BY OnlookerKnows, Typed DEF PollInv
<1>2. ASSUME NEW f \in Fires PROVE FireKnows(f)'
  <2>1. CASE f = c
    BY <2>1
  <2>2. CASE f # c
    <3>1. f \in Callers /\ fire[f] \in LocalStates /\ fire'[f] = fire[f] /\ FireKnows(f)
      BY <2>2, Typed DEF PollInv, Callers
    <3>2. \A i \in ItemIds, s \in StepIds : ledger[i][s] = f => ledger'[i][s] = f
      BY <2>2 DEF HeldByOthers
    <3>3. QED
      BY <3>1, <3>2, OnlookerHolds
  <2>3. QED
    BY <2>1, <2>2
<1>3. OperatorKnows'
  <2>1. CASE c # op
    BY <2>1 DEF PollInv, OperatorKnows, Callers, op
  <2>2. QED
    BY <2>1
<1>4. QED
  BY <1>1, <1>2, <1>3 DEF PollInv

(* Nobody moves.                                                           *)
LEMMA NobodyMoves ==
  ASSUME PollInv, PollTypeOK', NothingSkipped', Kept, mode' = mode, fire' = fire,
         HeldByOthers(op)
  PROVE  PollInv'
<1>1. op \in Callers /\ op \notin Fires
  BY PollAssumption DEF op, Callers
<1>2. CallerKnows(op)'
  BY <1>1, OnlookerKnows, Typed DEF PollInv
<1>3. OperatorKnows'
  BY DEF PollInv, OperatorKnows
<1>4. QED
  BY <1>1, <1>2, <1>3, OneMoves

(* A step that leaves the ledger alone.                                    *)
LEMMA LedgerStands ==
  ASSUME ledger' = ledger, waived \subseteq waived'
  PROVE  Kept /\ \A c : HeldByOthers(c)
BY DEF Kept, HeldByOthers

(* A fire writes a record that is not finished and that no other holds.    *)
LEMMA Writing ==
  ASSUME PollInv, NEW f \in Fires, NEW outcome \in Records, Close(f, outcome),
         waived' = waived, fire[f].todo # <<>>, fire[f].step \in StepIds,
         Record(f) \in {"none", "over", f}
  PROVE  /\ Kept /\ HeldByOthers(f)
         /\ ledger' \in [ItemIds -> [StepIds -> Records]]
         /\ ledger'[Current(f)][fire[f].step] = outcome
<1> DEFINE i == Current(f)
           s == fire[f].step
<1>1. i \in ItemIds /\ s \in StepIds
  BY Typed DEF Callers
<1>2. ledger[i][s] \in {"none", "over", f}
  BY DEF Record
<1>3. ledger' = [ledger EXCEPT ![i][s] = outcome]
  BY DEF Close
<1>4. ledger \in [ItemIds -> [StepIds -> Records]]
  BY Typed
<1> HIDE DEF i, s
<1>5. \A j \in ItemIds, t \in StepIds :
        ledger'[j][t] = IF j = i /\ t = s THEN outcome ELSE ledger[j][t]
  BY <1>1, <1>3, <1>4
<1>6. Kept
  BY <1>2, <1>5, PollAssumption DEF Kept
<1>7. HeldByOthers(f)
  BY <1>2, <1>5, PollAssumption DEF HeldByOthers
<1>8. ledger' \in [ItemIds -> [StepIds -> Records]]
  BY <1>1, <1>3, <1>4
<1>9. QED
  BY <1>1, <1>5, <1>6, <1>7, <1>8 DEF i, s

-----------------------------------------------------------------------------
(* What the mover knows.                                                   *)

(* One that rests, or that is about to drop or delete, need know nothing.  *)
LEMMA RestKnows ==
  ASSUME NEW c \in Callers, fire'[c].pc \notin {"fetch", "loop", "act", "store"},
         \A i \in fire'[c].mem : Passed(i)'
  PROVE  CallerKnows(c)' /\ FireKnows(c)'
<1>1. ~Listing(c)' /\ fire'[c].pc \notin {"fetch", "act", "store"}
  BY DEF Listing
<1>2. (\A i \in fire[c].mem : Passed(i))'
  OBVIOUS
<1>3. CallerKnows(c)'
  BY <1>1, <1>2 DEF CallerKnows
<1>4. FireKnows(c)'
  BY <1>1 DEF FireKnows
<1>5. QED
  BY <1>3, <1>4

(* One that stays at its item keeps the page and the budget.               *)
LEMMA StaysKnows ==
  ASSUME PollInv, Kept, mode' = mode, NEW c \in Callers, Listing(c), Listing(c)',
         fire'[c].todo = fire[c].todo, fire'[c].next = fire[c].next,
         fire'[c].fresh = fire[c].fresh, fire'[c].fired = fire[c].fired,
         \A i \in fire'[c].mem : Passed(i)'
  PROVE  CallerKnows(c)'
<1>1. CallerKnows(c)
  BY DEF PollInv
<1>2. (\A i \in fire[c].mem : Passed(i))'
  OBVIOUS
<1>3. fire'[c].pc # "fetch"
  BY DEF Listing
<1>4. (mode = "watermark" =>
         /\ Gapless(fire[c].todo)
         /\ BudgetLeft(c) /\ fire[c].todo # <<>> => PassedUpTo(Current(c) - 1))'
  BY <1>1, PassedStays DEF CallerKnows, PassedUpTo, Gapless, BudgetLeft, Current
<1>5. (mode = "next_cursor" /\ ~fire[c].fresh =>
         \A i \in ItemIds : i <= fire[c].next => Passed(i) \/ i \in Range(fire[c].todo))'
  BY <1>1, PassedStays DEF CallerKnows, Range
<1>6. QED
  BY <1>2, <1>3, <1>4, <1>5 DEF CallerKnows

(* The rest of a list has no gaps, and nothing is lost but its head.       *)
LEMMA RestOfList ==
  ASSUME NEW S, NEW list \in Seq(S), list # <<>>, S \subseteq Nat
  PROVE  /\ Gapless(list) => Gapless(Tail(list)) /\ (Tail(list) # <<>> => Head(Tail(list)) = Head(list) + 1)
         /\ \A i \in Range(list) : i = Head(list) \/ i \in Range(Tail(list))
         /\ Head(list) \in S /\ Tail(list) \in Seq(S)
<1>1. Len(list) \in Nat \ {0} /\ DOMAIN list = 1..Len(list) /\ \A k \in DOMAIN list : list[k] \in Nat
  <2>1. Len(list) \in Nat /\ Len(list) # 0
    OBVIOUS
  <2>2. DOMAIN list = 1..Len(list) /\ \A k \in DOMAIN list : list[k] \in S
    OBVIOUS
  <2>3. QED
    BY <2>1, <2>2
<1>2. Tail(list) \in Seq(S) /\ DOMAIN Tail(list) = 1..(Len(list) - 1)
  OBVIOUS
<1>3. \A k \in 1..(Len(list) - 1) : Tail(list)[k] = list[k + 1]
  OBVIOUS
<1>4. Head(list) = list[1]
  OBVIOUS
<1>5. Tail(list) # <<>> => Head(Tail(list)) = list[2] /\ Len(list) > 1
  OBVIOUS
<1>6. ASSUME Gapless(list)
      PROVE  Gapless(Tail(list)) /\ (Tail(list) # <<>> => Head(Tail(list)) = Head(list) + 1)
  <2> DEFINE rest == Tail(list)
             n == Len(list)
  <2>1. n \in Nat /\ list[1] \in Nat /\ DOMAIN rest = 1..(n - 1)
    BY <1>1, <1>2
  <2>2. \A k \in 1..n : list[k] = list[1] + k - 1
    BY <1>1, <1>6 DEF Gapless
  <2>3. \A k \in 1..(n - 1) : rest[k] = list[k + 1]
    BY <1>3
  <2>4. rest # <<>> => Head(rest) = list[2] /\ n > 1
    BY <1>5
  <2> HIDE DEF rest, n
  <2>5. \A k \in 1..(n - 1) : rest[k] = list[1] + k
    <3> SUFFICES ASSUME NEW k \in 1..(n - 1) PROVE rest[k] = list[1] + k
      OBVIOUS
    <3>1. k \in Nat /\ k + 1 \in 1..n
      BY <2>1
    <3>2. list[k + 1] = list[1] + (k + 1) - 1
      BY <2>2, <3>1
    <3>3. QED
      BY <2>1, <2>3, <3>1, <3>2
  <2>6. \A k \in 1..(n - 1) : rest[k] = rest[1] + k - 1
    BY <2>1, <2>5
  <2>7. rest # <<>> => Head(rest) = list[1] + 1
    BY <2>1, <2>2, <2>4
  <2>8. QED
    BY <1>4, <2>1, <2>6, <2>7 DEF rest, Gapless
<1>7. \A i \in Range(list) : i = Head(list) \/ i \in Range(Tail(list))
  <2> SUFFICES ASSUME NEW k \in DOMAIN list PROVE list[k] = Head(list) \/ list[k] \in Range(Tail(list))
    BY DEF Range
  <2>1. CASE k = 1
    BY <2>1, <1>4
  <2>2. CASE k # 1
    <3>1. k - 1 \in DOMAIN Tail(list) /\ Tail(list)[k - 1] = list[k]
      BY <2>2, <1>1, <1>2, <1>3
    <3>2. QED
      BY <3>1 DEF Range
  <2>3. QED
    BY <2>1, <2>2
<1>8. QED
  BY <1>1, <1>2, <1>4, <1>6, <1>7

(* One that goes on behind an item knows that it was passed, or it has no  *)
(* budget and has noted that something new is left.                        *)
LEMMA SkipKnows ==
  ASSUME PollInv, Kept, mode' = mode, NEW c \in Callers, NEW now \in ItemIds, now = Current(c),
         Listing(c), fire[c].todo # <<>>,
         fire'[c].pc = "loop", fire'[c].todo = Tail(fire[c].todo), fire'[c].step = 1,
         fire'[c].next = fire[c].next, fire'[c].fired >= fire[c].fired, fire'[c].fired \in Nat,
         fire[c].fresh => fire'[c].fresh,
         Passed(now)' \/ (~BudgetLeft(c) /\ fire'[c].fresh),
         \A i \in fire'[c].mem : Passed(i)'
  PROVE  CallerKnows(c)' /\ FireKnows(c)'
<1> DEFINE list == fire[c].todo
<1>1. list \in Seq(ItemIds) /\ list # <<>> /\ ItemIds \subseteq Nat /\ fire[c].fired \in Nat
  BY Typed, PollAssumption DEF LocalStates, ItemIds
<1>2. now = Head(list)
  BY DEF Current
<1>3. /\ Gapless(list) =>
           Gapless(Tail(list)) /\ (Tail(list) # <<>> => Head(Tail(list)) = now + 1)
      /\ \A i \in Range(list) : i = now \/ i \in Range(Tail(list))
  BY <1>1, <1>2, RestOfList
<1>4. CallerKnows(c) /\ fire'[c].pc # "fetch"
  BY DEF PollInv
<1>5. (\A i \in fire[c].mem : Passed(i))'
  OBVIOUS
<1>6. (mode = "watermark" =>
         /\ Gapless(fire[c].todo)
         /\ BudgetLeft(c) /\ fire[c].todo # <<>> => PassedUpTo(Current(c) - 1))'
  <2> SUFFICES ASSUME mode = "watermark"
               PROVE  /\ Gapless(Tail(list))
                      /\ BudgetLeft(c)' /\ Tail(list) # <<>> =>
                           \A i \in ItemIds : i <= Head(Tail(list)) - 1 => Passed(i)'
    BY DEF PassedUpTo, Current
  <2>1. Gapless(list) /\ (BudgetLeft(c) => PassedUpTo(now - 1))
    BY <1>4 DEF CallerKnows
  <2>2. SUFFICES ASSUME BudgetLeft(c)', Tail(list) # <<>>, NEW i \in ItemIds,
                        i <= Head(Tail(list)) - 1
                 PROVE  Passed(i)'
    BY <1>3, <2>1
  <2>3. BudgetLeft(c)
    BY <1>1, <2>2, Numbers DEF BudgetLeft
  <2>4. i = now \/ i <= now - 1
    <3>1. Head(Tail(list)) = now + 1 /\ i \in Nat /\ now \in Nat
      BY <1>1, <1>3, <2>1, <2>2
    <3>2. QED
      BY <3>1, <2>2
  <2>5. QED
    BY <2>1, <2>3, <2>4, PassedStays DEF PassedUpTo
<1>7. (mode = "next_cursor" /\ ~fire[c].fresh =>
         \A i \in ItemIds : i <= fire[c].next => Passed(i) \/ i \in Range(fire[c].todo))'
  BY <1>3, <1>4, PassedStays DEF CallerKnows
<1>8. CallerKnows(c)'
  BY <1>4, <1>5, <1>6, <1>7 DEF CallerKnows
<1>9. FireKnows(c)'
  BY StepsNumbered DEF FireKnows
<1>10. QED
  BY <1>8, <1>9

-----------------------------------------------------------------------------
(* A caller that begins.                                                   *)

LEMMA RestingTyped == Resting \in LocalStates
<1> DEFINE none == <<>>
<1>1. none \in Seq(ItemIds) /\ {} \in SUBSET ItemIds
  OBVIOUS
<1>2. 0 \in 0..Items /\ 0 \in 0..MaxItems /\ 1 \in 1..(Len(WorkflowOf) + 1)
  BY Numbers, StepsNumbered
<1>3. Resting = [pc |-> "idle", todo |-> none, mem |-> {}, next |-> 0, fired |-> 0,
                 step |-> 1, fresh |-> FALSE]
  BY DEF Resting
<1> HIDE DEF none
<1>4. QED
  BY <1>1, <1>2, <1>3 DEF LocalStates, Pcs

(* It knows of the position that it reads.                                 *)
LEMMA BeginKnows ==
  ASSUME PollInv, Kept, NEW c \in Callers,
         fire'[c] = [Resting EXCEPT !.pc = "fetch", !.next = cursor]
  PROVE  fire'[c] \in LocalStates /\ CallerKnows(c)' /\ FireKnows(c)'
<1>1. /\ fire'[c].pc = "fetch" /\ fire'[c].next = cursor /\ fire'[c].todo = <<>>
      /\ fire'[c].mem = {} /\ fire'[c].step = 1 /\ fire'[c].fresh = FALSE
  BY DEF Resting
<1>2. fire'[c] \in LocalStates
  BY Typed, RestingTyped DEF LocalStates, Pcs
<1>3. PassedUpTo(cursor)
  BY DEF PollInv, NothingSkipped, PassedUpTo, Passed
<1>4. (PassedUpTo(fire[c].next))'
  BY <1>1, <1>3, PassedStays DEF PassedUpTo
<1>5. CallerKnows(c)'
  BY <1>1, <1>4 DEF CallerKnows, Listing
<1>6. FireKnows(c)'
  BY <1>1 DEF FireKnows, Listing
<1>7. QED
  BY <1>2, <1>5, <1>6

(* A span lists what it says, in order.                                    *)
LEMMA SpanFacts ==
  ASSUME NEW from \in 1..(Items + 1), NEW to \in 0..Items
  PROVE  /\ Span(from, to) \in Seq(ItemIds) /\ Gapless(Span(from, to))
         /\ Span(from, to) # <<>> => Head(Span(from, to)) = from
         /\ \A i \in ItemIds : from <= i /\ i <= to => i \in Range(Span(from, to))
<1> DEFINE n == IF to < from THEN 0 ELSE to - from + 1
           list == [k \in 1..n |-> from + k - 1]
<1>1. Span(from, to) = list /\ n \in Nat /\ Items \in Nat
  BY PollAssumption DEF Span
<1>2. \A k \in 1..n : from + k - 1 \in ItemIds
  BY <1>1 DEF ItemIds
<1>3. list \in Seq(ItemIds) /\ Len(list) = n
  BY <1>1, <1>2
<1>4. Gapless(list)
  BY <1>1 DEF Gapless
<1>5. list # <<>> => Head(list) = from
  <2>1. list # <<>> => n > 0
    BY <1>1, <1>3
  <2>2. QED
    BY <1>1, <1>3, <2>1
<1>6. ASSUME NEW i \in ItemIds, from <= i, i <= to PROVE i \in Range(list)
  <2>1. i - from + 1 \in 1..n /\ list[i - from + 1] = i
    BY <1>1, <1>6 DEF ItemIds
  <2>2. QED
    BY <2>1 DEF Range
<1>7. QED
  BY <1>1, <1>3, <1>4, <1>5, <1>6

(* A page begins behind the position, or overlaps it, and has no gaps up   *)
(* to its continuation.                                                    *)
LEMMA PageFacts ==
  ASSUME PollInv, NEW p \in 0..Items
  PROVE  /\ Page(p) \in Seq(ItemIds) /\ NextPosition(p) \in 0..Items
         /\ mode = "watermark" =>
              Gapless(Page(p)) /\ (Page(p) # <<>> => Head(Page(p)) = p + 1)
         /\ mode = "next_cursor" =>
              \A i \in ItemIds : i <= NextPosition(p) => i <= p \/ i \in Range(Page(p))
<1>1. arrived \in 0..Items /\ Items \in Nat /\ Recycled \in Nat /\ PageSize \in Nat
  BY Typed, PollAssumption
<1>2. NextPosition(p) \in 0..Items /\ NextPosition(p) = Least(arrived, p + PageSize)
  BY <1>1 DEF NextPosition, Least
<1>3. CASE mode = "watermark"
  <2>1. Page(p) = Span(p + 1, arrived)
    BY <1>3 DEF Page
  <2>2. QED
    BY <1>1, <1>2, <1>3, <2>1, SpanFacts
<1>4. CASE mode # "watermark"
  <2> DEFINE from == IF p < Recycled THEN 1 ELSE p - Recycled + 1
  <2>1. from \in 1..(Items + 1) /\ from <= p + 1
    <3>1. p \in Nat /\ p <= Items /\ Recycled \in Nat /\ Items \in Nat
      BY <1>1
    <3>2. QED
      BY <3>1
  <2>2. Page(p) = Span(from, NextPosition(p))
    BY <1>2, <1>4 DEF Page
  <2> HIDE DEF from
  <2>3. \A i \in ItemIds : i <= p \/ from <= i
    BY <2>1, <1>1 DEF ItemIds
  <2>4. QED
    BY <1>2, <1>4, <2>1, <2>2, <2>3, SpanFacts
<1>5. QED
  BY <1>3, <1>4

(* It lists a page from the position that it read.                         *)
LEMMA ListedKnows ==
  ASSUME PollInv, Kept, mode' = mode, NEW c \in Callers, fire[c].pc = "fetch",
         fire'[c] = Listed(c)
  PROVE  /\ fire'[c] \in LocalStates /\ CallerKnows(c)' /\ FireKnows(c)'
         /\ fire'[c].pc = "loop" /\ fire'[c].fired = fire[c].fired /\ ~fire'[c].fresh
<1> DEFINE p == fire[c].next
           mem == IF mode = "watermark" THEN {} ELSE seen
<1>1. p \in 0..Items /\ fire[c] \in LocalStates
  BY Typed DEF LocalStates
<1>2. fire[c].step = 1 /\ ~fire[c].fresh /\ PassedUpTo(p)
  BY DEF PollInv, CallerKnows
<1>3. mem \subseteq ItemIds /\ \A i \in mem : Passed(i)'
  BY PassedStays DEF PollInv, PollTypeOK, NothingSkipped, Passed
<1>4. fire'[c] = [fire[c] EXCEPT !.pc = "loop", !.todo = Page(p), !.next = NextPosition(p),
                                 !.mem = mem]
  BY DEF Listed
<1> HIDE DEF mem
<1>5. Page(p) \in Seq(ItemIds) /\ NextPosition(p) \in 0..Items
  BY <1>1, PageFacts
<1>6. /\ fire'[c].pc = "loop" /\ fire'[c].todo = Page(p) /\ fire'[c].next = NextPosition(p)
      /\ fire'[c].mem = mem /\ fire'[c].step = 1 /\ ~fire'[c].fresh
      /\ fire'[c].fired = fire[c].fired /\ fire'[c] \in LocalStates
  <2> DEFINE page == Page(p)
             behind == NextPosition(p)
             old == fire[c]
  <2>1. page \in Seq(ItemIds) /\ behind \in 0..Items /\ mem \in SUBSET ItemIds
        /\ old \in LocalStates /\ old.step = 1 /\ ~old.fresh
        /\ fire'[c] = [old EXCEPT !.pc = "loop", !.todo = page, !.next = behind, !.mem = mem]
    BY <1>1, <1>2, <1>3, <1>4, <1>5
  <2> HIDE DEF page, behind, old
  <2>2. /\ fire'[c].pc = "loop" /\ fire'[c].todo = page /\ fire'[c].next = behind
        /\ fire'[c].mem = mem /\ fire'[c].step = 1 /\ ~fire'[c].fresh
        /\ fire'[c].fired = old.fired /\ fire'[c] \in LocalStates
    BY <2>1 DEF LocalStates, Pcs
  <2>3. QED
    BY <2>2 DEF page, behind, old
<1>7. (\A i \in fire[c].mem : Passed(i))'
  BY <1>3, <1>6
<1>8. (mode = "watermark" =>
         /\ Gapless(fire[c].todo)
         /\ BudgetLeft(c) /\ fire[c].todo # <<>> => PassedUpTo(Current(c) - 1))'
  <2>1. mode = "watermark" /\ Page(p) # <<>> => Head(Page(p)) - 1 = p
    BY <1>1, PageFacts
  <2>2. QED
    BY <1>1, <1>2, <1>6, <2>1, PageFacts, PassedStays DEF PassedUpTo, Current
<1>9. (mode = "next_cursor" /\ ~fire[c].fresh =>
         \A i \in ItemIds : i <= fire[c].next => Passed(i) \/ i \in Range(fire[c].todo))'
  BY <1>1, <1>2, <1>6, PageFacts, PassedStays DEF PassedUpTo
<1>10. CallerKnows(c)'
  BY <1>6, <1>7, <1>8, <1>9 DEF CallerKnows
<1>11. FireKnows(c)'
  BY <1>6, StepsNumbered DEF FireKnows
<1>12. QED
  BY <1>6, <1>10, <1>11

-----------------------------------------------------------------------------
(* The steps.                                                              *)

LEMMA OperatorApart == op \in Callers /\ op \notin Fires /\ \A f \in Fires : f \in Callers
BY PollAssumption DEF op, Callers

LEMMA InitInv == PollInit => PollInv
<1> SUFFICES ASSUME PollInit PROVE PollInv
  OBVIOUS
<1> USE DEF PollInit
<1>1. \A c \in Callers :
        /\ fire[c].pc = "idle" /\ fire[c].todo = <<>> /\ fire[c].mem = {}
        /\ fire[c].fired = 0 /\ ~fire[c].fresh
  BY DEF Resting
<1>2. PollTypeOK
  <2>1. fire \in [Callers -> LocalStates]
    BY RestingTyped
  <2>2. QED
    BY <2>1, Numbers DEF PollTypeOK, LocalStates, Pcs
<1>3. NothingSkipped
  BY Numbers DEF NothingSkipped, ItemIds
<1>4. OperatorKnows
  BY <1>1, OperatorApart DEF OperatorKnows
<1>5. \A c \in Callers : CallerKnows(c)
  BY <1>1 DEF CallerKnows, Listing
<1>6. \A f \in Fires : FireKnows(f)
  BY <1>1, OperatorApart DEF FireKnows, Listing
<1>7. QED
  BY <1>2, <1>3, <1>4, <1>5, <1>6 DEF PollInv

(* One caller moves to a local state of the right type, and the rest of    *)
(* the state keeps its type.                                               *)
LEMMA TypeKept ==
  ASSUME PollInv, mode' = mode, arrived' = arrived,
         cursor' \in 0..Items, seen' \subseteq ItemIds, waived' \subseteq ItemIds,
         leaked' \subseteq ItemIds, ledger' \in [ItemIds -> [StepIds -> Records]],
         exists' \in BOOLEAN, fire' \in [Callers -> LocalStates]
  PROVE  PollTypeOK'
BY DEF PollInv, PollTypeOK, LocalStates, Pcs, Records

(* A step of the mover alone: nothing shared changes.                      *)
LEMMA LocalMove ==
  ASSUME PollInv, NEW c \in Callers, fire' \in [Callers -> LocalStates],
         \A d \in Callers \ {c} : fire'[d] = fire[d],
         UNCHANGED <<source, position, ledger, exists, history>>,
         CallerKnows(c)', c \in Fires => FireKnows(c)', c = op => OperatorKnows'
  PROVE  PollInv'
<1>1. Kept /\ HeldByOthers(c)
  BY LedgerStands DEF history
<1>2. PollTypeOK'
  BY Typed, TypeKept DEF PollInv, PollTypeOK, source, position, history
<1>3. NothingSkipped'
  BY <1>1, PositionStands DEF position
<1>4. QED
  BY <1>1, <1>2, <1>3, OneMoves DEF source

LEMMA LocalStep ==
  ASSUME PollInv, NEW c \in Callers, NEW state \in LocalStates,
         fire' = [fire EXCEPT ![c] = state],
         UNCHANGED <<source, position, ledger, exists, history>>,
         CallerKnows(c)', c \in Fires => FireKnows(c)', c = op => OperatorKnows'
  PROVE  PollInv'
<1>1. fire' \in [Callers -> LocalStates] /\ \A d \in Callers \ {c} : fire'[d] = fire[d]
  BY Typed
<1>2. QED
  BY <1>1, LocalMove

LEMMA BeginFireInv ==
  ASSUME PollInv, NEW f \in Fires, BeginFire(f)
  PROVE  PollInv'
<1> DEFINE state == [Resting EXCEPT !.pc = "fetch", !.next = cursor]
<1>1. f \in Callers /\ f # op
  BY OperatorApart
<1>2. Kept
  BY LedgerStands DEF BeginFire, history
<1>3. fire' = [fire EXCEPT ![f] = state] /\ UNCHANGED <<source, position, ledger, exists, history>>
  BY DEF BeginFire
<1>4. fire'[f] = state
  BY <1>1, <1>3, Typed
<1>5. state \in LocalStates /\ CallerKnows(f)' /\ FireKnows(f)'
  BY <1>1, <1>2, <1>4, BeginKnows
<1> HIDE DEF state
<1>6. QED
  BY <1>1, <1>3, <1>5, LocalStep

LEMMA BeginResetInv ==
  ASSUME PollInv, BeginReset
  PROVE  PollInv'
<1> DEFINE state == [Resting EXCEPT !.pc = "fetch", !.next = cursor]
<1>1. op \in Callers /\ op \notin Fires
  BY OperatorApart
<1>2. Kept
  BY LedgerStands DEF BeginReset, history
<1>3. fire' = [fire EXCEPT ![op] = state] /\ UNCHANGED <<source, position, ledger, exists, history>>
  BY DEF BeginReset
<1>4. fire'[op] = state
  BY <1>1, <1>3, Typed
<1>5. state \in LocalStates /\ CallerKnows(op)'
  BY <1>1, <1>2, <1>4, BeginKnows
<1>6. OperatorKnows'
  BY <1>4 DEF OperatorKnows, Resting
<1> HIDE DEF state
<1>7. QED
  BY <1>1, <1>3, <1>5, <1>6, LocalStep

LEMMA FetchInv ==
  ASSUME PollInv, NEW c \in Callers, fire[c].pc = "fetch",
         fire' = [fire EXCEPT ![c] = Listed(c)],
         UNCHANGED <<source, position, ledger, exists, history>>
  PROVE  PollInv'
<1>1. Kept
  BY LedgerStands DEF history
<1>2. fire'[c] = Listed(c)
  BY Typed
<1>3. Listed(c) \in LocalStates /\ CallerKnows(c)' /\ FireKnows(c)'
  BY <1>1, <1>2, ListedKnows DEF source
<1>4. c = op => OperatorKnows'
  <2> SUFFICES ASSUME c = op PROVE OperatorKnows'
    OBVIOUS
  <2>1. fire'[c].fired = fire[c].fired /\ ~fire'[c].fresh /\ fire'[c].pc = "loop"
    BY <1>1, <1>2, ListedKnows DEF source
  <2>2. QED
    BY <2>1 DEF PollInv, OperatorKnows
<1>5. QED
  BY <1>3, <1>4, LocalStep

(* A new item reaches nobody's page and no position.                       *)
LEMMA ArriveInv == PollInv /\ Arrive => PollInv'
<1> SUFFICES ASSUME PollInv, Arrive PROVE PollInv'
  OBVIOUS
<1>1. Kept /\ HeldByOthers(op)
  BY LedgerStands DEF Arrive, history
<1>2. arrived' \in 0..Items
  BY Typed, Numbers DEF Arrive
<1>3. PollTypeOK'
  BY <1>2 DEF PollInv, PollTypeOK, Arrive, position, history
<1>4. NothingSkipped'
  BY <1>1, PositionStands DEF Arrive, position
<1>5. QED
  BY <1>1, <1>3, <1>4, NobodyMoves DEF Arrive

-----------------------------------------------------------------------------
(* The three ways to move on.                                              *)

(* Behind an item.                                                         *)
LEMMA MovesOn ==
  ASSUME PollInv, Kept, mode' = mode, NEW c \in Callers, Listing(c), fire[c].todo # <<>>,
         NEW now \in ItemIds, now = Current(c), NEW state \in LocalStates,
         fire' = [fire EXCEPT ![c] = state],
         state.pc = "loop", state.todo = Tail(fire[c].todo), state.step = 1,
         state.next = fire[c].next, state.fired >= fire[c].fired,
         fire[c].fresh => state.fresh, \A i \in state.mem : Passed(i)',
         Passed(now)' \/ (~BudgetLeft(c) /\ state.fresh)
  PROVE  /\ fire' \in [Callers -> LocalStates] /\ \A d \in Callers \ {c} : fire'[d] = fire[d]
         /\ fire'[c] = state /\ CallerKnows(c)' /\ FireKnows(c)'
<1>1. /\ fire' \in [Callers -> LocalStates] /\ \A d \in Callers \ {c} : fire'[d] = fire[d]
      /\ fire'[c] = state
  BY Typed
<1>2. state.fired \in Nat
  BY Numbers DEF LocalStates
<1>3. CallerKnows(c)' /\ FireKnows(c)'
  BY <1>1, <1>2, SkipKnows
<1>4. QED
  BY <1>1, <1>3

LEMMA BehindItem ==
  ASSUME NEW old \in LocalStates, old.todo # <<>>
  PROVE  Tail(old.todo) \in Seq(ItemIds) /\ 1 \in 1..(Len(WorkflowOf) + 1)
BY StepsNumbered DEF LocalStates

(* At the item.                                                            *)
LEMMA StaysAt ==
  ASSUME PollInv, Kept, mode' = mode, NEW c \in Callers, Listing(c), NEW state \in LocalStates,
         fire' = [fire EXCEPT ![c] = state],
         state.pc \in {"loop", "act", "store"}, state.todo = fire[c].todo,
         state.next = fire[c].next, state.fired = fire[c].fired, state.fresh = fire[c].fresh,
         \A i \in state.mem : Passed(i)'
  PROVE  /\ fire' \in [Callers -> LocalStates] /\ \A d \in Callers \ {c} : fire'[d] = fire[d]
         /\ fire'[c] = state /\ CallerKnows(c)'
<1>1. /\ fire' \in [Callers -> LocalStates] /\ \A d \in Callers \ {c} : fire'[d] = fire[d]
      /\ fire'[c] = state
  BY Typed
<1>2. Listing(c)'
  BY <1>1 DEF Listing
<1>3. CallerKnows(c)'
  BY <1>1, <1>2, StaysKnows
<1>4. QED
  BY <1>1, <1>3

(* Away.                                                                   *)
LEMMA ComesToRest ==
  ASSUME PollInv, NEW c \in Callers, fire' = [fire EXCEPT ![c] = Resting]
  PROVE  /\ fire' \in [Callers -> LocalStates] /\ \A d \in Callers \ {c} : fire'[d] = fire[d]
         /\ CallerKnows(c)' /\ FireKnows(c)'
         /\ c = op => OperatorKnows'
<1>1. /\ fire' \in [Callers -> LocalStates] /\ \A d \in Callers \ {c} : fire'[d] = fire[d]
      /\ fire'[c] = Resting
  BY Typed, RestingTyped
<1>2. /\ fire'[c].pc = "idle" /\ fire'[c].mem = {} /\ fire'[c].fired = 0 /\ ~fire'[c].fresh
  BY <1>1 DEF Resting
<1>3. CallerKnows(c)' /\ FireKnows(c)'
  BY <1>2, RestKnows
<1>4. c = op => OperatorKnows'
  BY <1>2 DEF OperatorKnows
<1>5. QED
  BY <1>1, <1>3, <1>4

-----------------------------------------------------------------------------
(* A fire.                                                                 *)

LEMMA SkipSeenInv ==
  ASSUME PollInv, NEW f \in Fires, SkipSeen(f)
  PROVE  PollInv'
<1>1. f \in Callers /\ f # op /\ Listing(f) /\ fire[f].pc = "loop" /\ fire[f].todo # <<>>
  BY OperatorApart DEF SkipSeen, AtItem, Listing
<1>2. UNCHANGED <<source, position, ledger, exists, history>>
  BY DEF SkipSeen
<1>3. Kept /\ HeldByOthers(f) /\ mode' = mode
  BY <1>2, LedgerStands DEF history, source
<1>4. fire[f] \in LocalStates
  BY <1>1, Typed
<1>5. PICK now \in ItemIds : now = Current(f)
  BY <1>1, Typed
<1> DEFINE state == [fire[f] EXCEPT !.pc = "loop", !.todo = Tail(@), !.mem = fire[f].mem,
                                      !.fired = fire[f].fired, !.step = 1, !.fresh = fire[f].fresh]
<1>6. fire' = [fire EXCEPT ![f] = state]
  BY <1>1, <1>4, Typed DEF SkipSeen, Skip, LocalStates
<1>7. /\ fire[f].mem \in SUBSET ItemIds /\ fire[f].fired \in 0..MaxItems
      /\ fire[f].fresh \in BOOLEAN /\ fire[f].fired >= fire[f].fired
  BY <1>4, Numbers DEF LocalStates
<1>8. Passed(now)' /\ \A i \in fire[f].mem : Passed(i)'
  BY <1>1, <1>3, <1>5, <1>7, PassedStays DEF SkipSeen, PollInv, CallerKnows
<1>9. /\ state \in LocalStates
      /\ state.pc = "loop" /\ state.todo = Tail(fire[f].todo) /\ state.mem = fire[f].mem
      /\ state.next = fire[f].next /\ state.fired = fire[f].fired /\ state.step = 1
      /\ state.fresh = fire[f].fresh
  <2> DEFINE rest == Tail(fire[f].todo)
  <2>1. rest \in Seq(ItemIds) /\ 1 \in 1..(Len(WorkflowOf) + 1) /\ fire[f] \in LocalStates
    BY <1>1, <1>4, <1>7, BehindItem
  <2> HIDE DEF rest
  <2>2. QED
    BY <1>1, <1>4, <1>7, <2>1 DEF rest, LocalStates, Pcs
<1> HIDE DEF state
<1>10. fire' \in [Callers -> LocalStates] /\ (\A d \in Callers \ {f} : fire'[d] = fire[d])
       /\ CallerKnows(f)' /\ FireKnows(f)'
  BY <1>1, <1>3, <1>5, <1>6, <1>7, <1>8, <1>9, MovesOn
<1>11. QED
  BY <1>1, <1>2, <1>10, LocalMove

LEMMA SkipOverBudgetInv ==
  ASSUME PollInv, NEW f \in Fires, SkipOverBudget(f)
  PROVE  PollInv'
<1>1. f \in Callers /\ f # op /\ Listing(f) /\ fire[f].pc = "loop" /\ fire[f].todo # <<>>
  BY OperatorApart DEF SkipOverBudget, AtItem, Listing
<1>2. UNCHANGED <<source, position, ledger, exists, history>>
  BY DEF SkipOverBudget
<1>3. Kept /\ HeldByOthers(f) /\ mode' = mode
  BY <1>2, LedgerStands DEF history, source
<1>4. fire[f] \in LocalStates
  BY <1>1, Typed
<1>5. PICK now \in ItemIds : now = Current(f)
  BY <1>1, Typed
<1> DEFINE state == [fire[f] EXCEPT !.pc = "loop", !.todo = Tail(@), !.mem = fire[f].mem,
                                      !.fired = fire[f].fired, !.step = 1, !.fresh = TRUE]
<1>6. fire' = [fire EXCEPT ![f] = state]
  BY <1>1, <1>4, Typed DEF SkipOverBudget, Skip, FreshNoted, LocalStates
<1>7. /\ fire[f].mem \in SUBSET ItemIds /\ fire[f].fired \in 0..MaxItems
      /\ TRUE \in BOOLEAN /\ fire[f].fired >= fire[f].fired
  BY <1>4, Numbers DEF LocalStates
<1>8. ~BudgetLeft(f) /\ \A i \in fire[f].mem : Passed(i)'
  BY <1>1, <1>3, <1>7, PassedStays DEF SkipOverBudget, PollInv, CallerKnows
<1>9. /\ state \in LocalStates
      /\ state.pc = "loop" /\ state.todo = Tail(fire[f].todo) /\ state.mem = fire[f].mem
      /\ state.next = fire[f].next /\ state.fired = fire[f].fired /\ state.step = 1
      /\ state.fresh = TRUE
  <2> DEFINE rest == Tail(fire[f].todo)
  <2>1. rest \in Seq(ItemIds) /\ 1 \in 1..(Len(WorkflowOf) + 1) /\ fire[f] \in LocalStates
    BY <1>1, <1>4, <1>7, BehindItem
  <2> HIDE DEF rest
  <2>2. QED
    BY <1>1, <1>4, <1>7, <2>1 DEF rest, LocalStates, Pcs
<1> HIDE DEF state
<1>10. fire' \in [Callers -> LocalStates] /\ (\A d \in Callers \ {f} : fire'[d] = fire[d])
       /\ CallerKnows(f)' /\ FireKnows(f)'
  BY <1>1, <1>3, <1>5, <1>6, <1>7, <1>8, <1>9, MovesOn
<1>11. QED
  BY <1>1, <1>2, <1>10, LocalMove

(* A fire that writes the ledger.                                          *)
LEMMA LedgerMove ==
  ASSUME PollInv, NEW f \in Fires, fire' \in [Callers -> LocalStates],
         \A d \in Callers \ {f} : fire'[d] = fire[d],
         UNCHANGED <<source, position, exists, waived>>, leaked' \subseteq ItemIds,
         ledger' \in [ItemIds -> [StepIds -> Records]],
         Kept, HeldByOthers(f), CallerKnows(f)', FireKnows(f)'
  PROVE  PollInv'
<1>1. PollTypeOK'
  BY TypeKept DEF PollInv, PollTypeOK, source, position
<1>2. NothingSkipped'
  BY PositionStands DEF position
<1>3. f \in Callers /\ f # op
  BY OperatorApart
<1>4. QED
  BY <1>1, <1>2, <1>3, OneMoves DEF source

(* What a fire at the gate of a step is.                                   *)
LEMMA Gate ==
  ASSUME PollInv, NEW f \in Fires, AtGate(f)
  PROVE  /\ f \in Callers /\ f # op /\ Listing(f) /\ fire[f].pc = "loop"
         /\ fire[f].todo # <<>> /\ fire[f].step \in StepIds /\ BudgetLeft(f)
         /\ fire[f] \in LocalStates /\ Current(f) \in ItemIds
         /\ \A i \in fire[f].mem : i \in ItemIds /\ Passed(i)
         /\ \A s \in StepIds : s < fire[f].step => Settled(Current(f), s)
<1>1. f \in Callers /\ f # op
  BY OperatorApart
<1>2. Listing(f) /\ fire[f].pc = "loop" /\ fire[f].todo # <<>> /\ fire[f].step \in StepIds /\ BudgetLeft(f)
  BY DEF AtGate, Runs, AtItem, Listing
<1>3. fire[f] \in LocalStates /\ Current(f) \in ItemIds
  BY <1>1, <1>2, Typed
<1>4. \A i \in fire[f].mem : i \in ItemIds /\ Passed(i)
  BY <1>1, <1>3 DEF PollInv, CallerKnows, LocalStates
<1>5. \A s \in StepIds : s < fire[f].step => Settled(Current(f), s)
  BY <1>2 DEF PollInv, FireKnows
<1>6. QED
  BY <1>1, <1>2, <1>3, <1>4, <1>5

LEMMA GateTakesInv ==
  ASSUME PollInv, NEW f \in Fires, GateTakes(f)
  PROVE  PollInv'
<1>1. AtGate(f) /\ Record(f) \in {"none", "over"} /\ Close(f, f)
      /\ fire' = [fire EXCEPT ![f].pc = "act"]
      /\ UNCHANGED <<source, position, exists, history>>
  BY DEF GateTakes
<1>2. f \in Records
  BY DEF Records
<1>3. /\ Kept /\ HeldByOthers(f) /\ ledger' \in [ItemIds -> [StepIds -> Records]]
      /\ ledger'[Current(f)][fire[f].step] = f
  BY <1>1, <1>2, Gate, Writing DEF history
<1> DEFINE state == [fire[f] EXCEPT !.pc = "act"]
<1>4. fire' = [fire EXCEPT ![f] = state]
  BY <1>1
<1>5. /\ state \in LocalStates /\ state.pc = "act" /\ state.step = fire[f].step
      /\ state.todo = fire[f].todo /\ state.next = fire[f].next /\ state.fired = fire[f].fired
      /\ state.fresh = fire[f].fresh /\ \A i \in state.mem : Passed(i)'
  BY <1>1, <1>3, Gate, PassedStays DEF LocalStates, Pcs
<1> HIDE DEF state
<1>6. f \in Callers /\ Listing(f) /\ mode' = mode
  BY <1>1, Gate DEF source
<1>7. /\ fire' \in [Callers -> LocalStates] /\ \A d \in Callers \ {f} : fire'[d] = fire[d]
      /\ fire'[f] = state /\ CallerKnows(f)'
  BY <1>3, <1>4, <1>5, <1>6, StaysAt
<1>8. FireKnows(f)'
  BY <1>1, <1>3, <1>5, <1>7, Gate, PassedStays DEF FireKnows, BudgetLeft, Current, Settled
<1>9. QED
  BY <1>1, <1>3, <1>7, <1>8, LedgerMove, Typed DEF history, PollInv, PollTypeOK

LEMMA GatePassesInv ==
  ASSUME PollInv, NEW f \in Fires, GatePasses(f)
  PROVE  PollInv'
<1>1. AtGate(f) /\ Record(f) \in {"done", "filtered"}
      /\ fire' = [fire EXCEPT ![f].step = @ + 1]
      /\ UNCHANGED <<source, position, ledger, exists, history>>
  BY DEF GatePasses
<1>2. Kept
  BY <1>1, LedgerStands DEF history
<1>3. PICK next \in 1..(Len(WorkflowOf) + 1) : next = fire[f].step + 1
  BY <1>1, Gate, StepsNumbered
<1> DEFINE state == [fire[f] EXCEPT !.step = next]
<1>4. fire' = [fire EXCEPT ![f] = state]
  BY <1>1, <1>3
<1>5. /\ state \in LocalStates /\ state.pc = "loop" /\ state.step = next
      /\ state.todo = fire[f].todo /\ state.next = fire[f].next /\ state.fired = fire[f].fired
      /\ state.fresh = fire[f].fresh /\ \A i \in state.mem : Passed(i)'
  BY <1>1, <1>2, Gate, PassedStays DEF LocalStates
<1> HIDE DEF state
<1>6. f \in Callers /\ Listing(f) /\ mode' = mode
  BY <1>1, Gate DEF source
<1>7. /\ fire' \in [Callers -> LocalStates] /\ \A d \in Callers \ {f} : fire'[d] = fire[d]
      /\ fire'[f] = state /\ CallerKnows(f)'
  BY <1>2, <1>4, <1>5, <1>6, StaysAt
<1>8. PICK now \in ItemIds : now = Current(f) /\ now = Current(f)'
  BY <1>1, <1>5, <1>7, Gate DEF Current
<1>9. ASSUME NEW s \in StepIds, s < next PROVE Settled(now, s)
  <2>1. s = fire[f].step \/ s < fire[f].step
    BY <1>1, <1>3, <1>9, Gate, StepsNumbered
  <2>2. QED
    BY <1>1, <1>8, <2>1, Gate DEF Record, Settled
<1>10. \A s \in StepIds : s < next => Settled(now, s)'
  BY <1>2, <1>9, PassedStays
<1>11. FireKnows(f)'
  BY <1>5, <1>7, <1>8, <1>10 DEF FireKnows, Settled
<1>12. QED
  BY <1>1, <1>7, <1>11, Gate, LocalMove

LEMMA GateBusyInv ==
  ASSUME PollInv, NEW f \in Fires, GateBusy(f)
  PROVE  PollInv'
BY OperatorApart, ComesToRest, LocalMove DEF GateBusy, Break

(* What a fire that runs an action is.                                     *)
LEMMA Acting ==
  ASSUME PollInv, NEW f \in Fires, fire[f].pc = "act"
  PROVE  /\ f \in Callers /\ f # op /\ Listing(f)
         /\ fire[f].todo # <<>> /\ fire[f].step \in StepIds
         /\ fire[f] \in LocalStates /\ Current(f) \in ItemIds /\ Record(f) = f
         /\ \A i \in fire[f].mem : i \in ItemIds /\ Passed(i)
         /\ \A s \in StepIds : s < fire[f].step => Settled(Current(f), s)
<1>1. f \in Callers /\ f # op /\ Listing(f)
  BY OperatorApart DEF Listing
<1>2. /\ fire[f].todo # <<>> /\ fire[f].step \in StepIds
      /\ ledger[Current(f)][fire[f].step] = f
      /\ \A s \in StepIds : s < fire[f].step => Settled(Current(f), s)
  BY <1>1 DEF PollInv, FireKnows
<1>3. fire[f] \in LocalStates /\ Current(f) \in ItemIds
  BY <1>1, <1>2, Typed
<1>4. \A i \in fire[f].mem : i \in ItemIds /\ Passed(i)
  BY <1>1, <1>3 DEF PollInv, CallerKnows, LocalStates
<1>5. QED
  BY <1>1, <1>2, <1>3, <1>4 DEF Record

LEMMA ActFailsInv ==
  ASSUME PollInv, NEW f \in Fires, ActFails(f)
  PROVE  PollInv'
<1>1. fire[f].pc = "act" /\ Close(f, "over") /\ fire' = [fire EXCEPT ![f] = Resting]
      /\ UNCHANGED <<source, position, exists, history>>
  BY DEF ActFails, FailStops, Break
<1>2. "over" \in Records
  BY DEF Records
<1>3. /\ Kept /\ HeldByOthers(f) /\ ledger' \in [ItemIds -> [StepIds -> Records]]
  BY <1>1, <1>2, Acting, Writing DEF history
<1>4. QED
  BY <1>1, <1>3, Acting, ComesToRest, LedgerMove DEF history, PollInv, PollTypeOK

(* A filter that says no settles the rest of its workflow.                 *)
LEMMA ActInv ==
  ASSUME PollInv, NEW f \in Fires, Act(f)
  PROVE  PollInv'
<1> DEFINE s == fire[f].step
           outcome == IF s \in Stopping THEN "filtered" ELSE "done"
           next == IF s \in Stopping THEN Last(s) + 1 ELSE s + 1
<1>1. fire[f].pc = "act" /\ Close(f, outcome)
      /\ fire' = [fire EXCEPT ![f].pc = "loop", ![f].step = next]
      /\ UNCHANGED <<source, position, exists, waived>>
      /\ leaked' \in {leaked, leaked \cup {Current(f)}}
  BY DEF Act
<1>2. outcome \in Records /\ outcome \in {"done", "filtered"}
      /\ (s \in Stopping => outcome = "filtered")
  BY DEF Records
<1>3. s \in StepIds /\ Last(s) \in StepIds /\ Last(s) \in Chain(s)
  BY <1>1, Acting, LastIsLast
<1>4. next \in 1..(Len(WorkflowOf) + 1)
  BY <1>3, StepsNumbered
<1> HIDE DEF outcome
<1>5. PICK now \in ItemIds : now = Current(f)
  BY <1>1, Acting
<1>6. /\ Kept /\ HeldByOthers(f) /\ ledger' \in [ItemIds -> [StepIds -> Records]]
      /\ ledger'[now][s] = outcome
  BY <1>1, <1>2, <1>5, Acting, Writing
<1>7. \A t \in StepIds : t < s => Settled(now, t)'
  BY <1>1, <1>5, <1>6, Acting, PassedStays
<1>8. ASSUME NEW t \in StepIds, t < next PROVE Settled(now, t)'
  <2>1. CASE t < s
    BY <1>7, <2>1
  <2>2. CASE t = s
    BY <1>2, <1>6, <2>2 DEF Settled
  <2>3. CASE t > s
    <3>1. s \in Stopping /\ t <= Last(s)
      BY <1>3, <1>8, <2>3, StepsNumbered
    <3>2. t \in Chain(s)
      BY <1>3, <2>3, <3>1, PollAssumption DEF Chain, StepIds
    <3>3. s \in Behind(t)
      BY <1>3, <2>3, <3>2 DEF Behind, Chain
    <3>4. QED
      BY <1>2, <1>6, <3>1, <3>3 DEF Settled
  <2>4. QED
    BY <1>3, <2>1, <2>2, <2>3, StepsNumbered
<1> HIDE DEF next
<1> DEFINE state == [fire[f] EXCEPT !.pc = "loop", !.step = next]
<1>9. fire' = [fire EXCEPT ![f] = state]
  BY <1>1
<1>10. /\ state \in LocalStates /\ state.pc = "loop" /\ state.step = next
       /\ state.todo = fire[f].todo /\ state.next = fire[f].next /\ state.fired = fire[f].fired
       /\ state.fresh = fire[f].fresh /\ \A i \in state.mem : Passed(i)'
  BY <1>1, <1>4, <1>6, Acting, PassedStays DEF LocalStates, Pcs
<1> HIDE DEF state
<1>11. f \in Callers /\ Listing(f) /\ mode' = mode
  BY <1>1, Acting DEF source
<1>12. /\ fire' \in [Callers -> LocalStates] /\ \A d \in Callers \ {f} : fire'[d] = fire[d]
       /\ fire'[f] = state /\ CallerKnows(f)'
  BY <1>6, <1>9, <1>10, <1>11, StaysAt
<1>13. now = Current(f)'
  BY <1>5, <1>10, <1>12 DEF Current
<1>14. FireKnows(f)'
  BY <1>8, <1>10, <1>12, <1>13 DEF FireKnows, Settled
<1>15. leaked' \subseteq ItemIds
  BY <1>1, Acting DEF PollInv, PollTypeOK
<1>16. QED
  BY <1>1, <1>6, <1>12, <1>14, <1>15, LedgerMove

(* What a fire that is through with its item is: the item is handled.      *)
LEMMA ItemRan ==
  ASSUME PollInv, NEW f \in Fires, Runs(f), fire[f].step \notin StepIds
  PROVE  /\ f \in Callers /\ f # op /\ Listing(f) /\ fire[f].pc = "loop"
         /\ fire[f].todo # <<>> /\ BudgetLeft(f) /\ fire[f] \in LocalStates
         /\ Current(f) \in ItemIds /\ Handled(Current(f))
         /\ \A i \in fire[f].mem : i \in ItemIds /\ Passed(i)
<1>1. f \in Callers /\ f # op
  BY OperatorApart
<1>2. Listing(f) /\ fire[f].pc = "loop" /\ fire[f].todo # <<>> /\ BudgetLeft(f)
  BY DEF Runs, AtItem, Listing
<1>3. fire[f] \in LocalStates /\ Current(f) \in ItemIds
  BY <1>1, <1>2, Typed
<1>4. \A s \in StepIds : s < fire[f].step
  BY <1>3, StepsNumbered DEF LocalStates
<1>5. Handled(Current(f))
  BY <1>2, <1>4 DEF PollInv, FireKnows, Handled
<1>6. \A i \in fire[f].mem : i \in ItemIds /\ Passed(i)
  BY <1>1, <1>3 DEF PollInv, CallerKnows, LocalStates
<1>7. QED
  BY <1>1, <1>2, <1>3, <1>5, <1>6

(* The watermark moves to the item that ran: those before it were passed.  *)
LEMMA EmitWatermarkInv ==
  ASSUME PollInv, NEW f \in Fires, Emit(f), mode = "watermark"
  PROVE  PollInv'
<1>1. Runs(f) /\ fire[f].step \notin StepIds /\ cursor' = Current(f)
      /\ fire' = [Skip(f) EXCEPT ![f].fired = @ + 1]
      /\ UNCHANGED <<source, seen, ledger, exists, history>>
  BY DEF Emit
<1>2. Kept /\ HeldByOthers(f) /\ mode' = mode
  BY <1>1, LedgerStands DEF history, source
<1>3. /\ f \in Callers /\ f # op /\ Listing(f) /\ fire[f].todo # <<>> /\ BudgetLeft(f)
      /\ fire[f] \in LocalStates /\ Current(f) \in ItemIds /\ Handled(Current(f))
      /\ fire[f].pc = "loop" /\ \A i \in fire[f].mem : i \in ItemIds /\ Passed(i)
  BY <1>1, ItemRan
<1>4. PICK now \in ItemIds : now = Current(f)
  BY <1>3
<1>5. fire[f].fired \in 0..MaxItems /\ fire[f].fired < MaxItems
  BY <1>3 DEF LocalStates, BudgetLeft
<1>6. PICK fired \in 0..MaxItems : fired = fire[f].fired + 1
  BY <1>5, Numbers
<1> DEFINE state == [fire[f] EXCEPT !.pc = "loop", !.todo = Tail(@), !.mem = fire[f].mem,
                                      !.fired = fired, !.step = 1, !.fresh = fire[f].fresh]
<1>7. fire' = [fire EXCEPT ![f] = state]
  <2> DEFINE moved == [fire[f] EXCEPT !.todo = Tail(@), !.step = 1, !.fired = @ + 1]
  <2>1. fire' = [fire EXCEPT ![f] = moved]
    BY <1>1, <1>3, Typed DEF Skip, LocalStates
  <2>2. state = moved
    BY <1>3, <1>6 DEF LocalStates
  <2>3. QED
    BY <2>1, <2>2, Zenon
<1>8. /\ f \in Callers /\ f # op /\ Listing(f) /\ fire[f].todo # <<>>
      /\ fire[f].mem \in SUBSET ItemIds /\ fired >= fire[f].fired
      /\ fire[f].fresh \in BOOLEAN
  BY <1>3, <1>5, <1>6 DEF LocalStates
<1>9. Passed(now)' /\ \A i \in fire[f].mem : Passed(i)'
  BY <1>1, <1>2, <1>4, <1>3, PassedStays DEF Passed
<1>10. /\ state \in LocalStates
      /\ state.pc = "loop" /\ state.todo = Tail(fire[f].todo) /\ state.mem = fire[f].mem
      /\ state.next = fire[f].next /\ state.fired = fired /\ state.step = 1
      /\ state.fresh = fire[f].fresh
  <2> DEFINE rest == Tail(fire[f].todo)
  <2>1. rest \in Seq(ItemIds) /\ 1 \in 1..(Len(WorkflowOf) + 1) /\ fire[f] \in LocalStates
    BY <1>1, <1>8, <1>3, BehindItem
  <2> HIDE DEF rest
  <2>2. QED
    BY <1>1, <1>8, <1>3, <2>1 DEF rest, LocalStates, Pcs
<1> HIDE DEF state
<1>11. fire' \in [Callers -> LocalStates] /\ (\A d \in Callers \ {f} : fire'[d] = fire[d])
      /\ CallerKnows(f)' /\ FireKnows(f)'
  BY <1>2, <1>4, <1>7, <1>8, <1>9, <1>10, MovesOn
<1>12. cursor' \in 0..Items
  BY <1>1, <1>4, Numbers DEF ItemIds
<1>13. PollTypeOK'
  BY <1>1, <1>11, <1>12, Typed, TypeKept DEF PollInv, PollTypeOK, source, history
<1>14. NothingSkipped'
  <2>1. PassedUpTo(now - 1)
    BY <1>1, <1>4, <1>8, <1>3 DEF PollInv, CallerKnows
  <2>2. \A i \in ItemIds : i <= now => i = now \/ i <= now - 1
    BY Numbers
  <2>3. \A i \in ItemIds : i <= now => Passed(i)'
    BY <1>2, <1>9, <2>1, <2>2, PassedStays DEF PassedUpTo
  <2>4. \A i \in ItemIds : i \in seen => Passed(i)'
    BY <1>2, PassedStays DEF PollInv, NothingSkipped, Passed
  <2>5. QED
    BY <1>1, <1>4, <2>3, <2>4 DEF NothingSkipped, Passed
<1>15. QED
  BY <1>2, <1>8, <1>11, <1>13, <1>14, OneMoves

(* Or the fire goes to merge the item into the seen-set.                   *)
LEMMA EmitSeenInv ==
  ASSUME PollInv, NEW f \in Fires, Emit(f), mode # "watermark"
  PROVE  PollInv'
<1> DEFINE state == [fire[f] EXCEPT !.pc = "store", !.mem = @ \cup seen]
<1>1. Runs(f) /\ fire[f].step \notin StepIds /\ fire' = [fire EXCEPT ![f] = state]
      /\ UNCHANGED <<source, position, ledger, exists, history>>
  BY DEF Emit, position
<1>2. Kept /\ mode' = mode
  BY <1>1, LedgerStands DEF history, source
<1>3. seen \subseteq ItemIds /\ \A i \in seen : Passed(i)'
  BY <1>2, PassedStays DEF PollInv, PollTypeOK, NothingSkipped, Passed
<1>4. \A i \in fire[f].mem : Passed(i)'
  BY <1>1, <1>2, ItemRan, PassedStays
<1>5. /\ state \in LocalStates /\ state.pc = "store" /\ state.step = fire[f].step
      /\ state.todo = fire[f].todo /\ state.next = fire[f].next /\ state.fired = fire[f].fired
      /\ state.fresh = fire[f].fresh /\ state.mem = fire[f].mem \cup seen
  BY <1>1, <1>3, ItemRan DEF LocalStates, Pcs
<1>6. \A i \in state.mem : Passed(i)'
  BY <1>3, <1>4, <1>5
<1> HIDE DEF state
<1>7. f \in Callers /\ f # op /\ Listing(f) /\ fire[f].todo # <<>> /\ BudgetLeft(f)
  BY <1>1, ItemRan
<1>8. /\ fire' \in [Callers -> LocalStates] /\ \A d \in Callers \ {f} : fire'[d] = fire[d]
      /\ fire'[f] = state /\ CallerKnows(f)'
  BY <1>1, <1>2, <1>5, <1>6, <1>7, StaysAt
<1>9. PICK now \in ItemIds : now = Current(f) /\ now = Current(f)'
  BY <1>1, <1>5, <1>8, ItemRan DEF Current
<1>10. Handled(now)'
  BY <1>1, <1>2, <1>9, ItemRan, PassedStays
<1>11. FireKnows(f)'
  BY <1>5, <1>7, <1>8, <1>9, <1>10 DEF FireKnows, BudgetLeft, Handled
<1>12. QED
  BY <1>1, <1>7, <1>8, <1>11, LocalMove

(* The merged seen-set is put back: every entry of it was passed.          *)
LEMMA RememberInv ==
  ASSUME PollInv, NEW f \in Fires, Remember(f)
  PROVE  PollInv'
<1>1. /\ fire[f].pc = "store" /\ seen' = fire[f].mem \cup {Current(f)}
      /\ fire' = [Skip(f) EXCEPT ![f].pc = "loop", ![f].mem = fire[f].mem \cup {Current(f)},
                                 ![f].fired = @ + 1]
      /\ UNCHANGED <<source, cursor, ledger, exists, history>>
  BY DEF Remember
<1>2. Kept /\ HeldByOthers(f) /\ mode' = mode
  BY <1>1, LedgerStands DEF history, source
<1>3. /\ f \in Callers /\ f # op /\ Listing(f) /\ fire[f].todo # <<>> /\ BudgetLeft(f)
      /\ Handled(Current(f)) /\ fire[f] \in LocalStates /\ Current(f) \in ItemIds
  BY <1>1, OperatorApart, Typed DEF PollInv, FireKnows, Listing
<1>4. PICK now \in ItemIds : now = Current(f)
  BY <1>3
<1>5. PICK mem \in SUBSET ItemIds : mem = fire[f].mem \cup {now}
  BY <1>3, <1>4 DEF LocalStates
<1>6. PICK fired \in 0..MaxItems : fired = fire[f].fired + 1
  <2>1. fire[f].fired \in 0..MaxItems /\ fire[f].fired < MaxItems
    BY <1>3 DEF LocalStates, BudgetLeft
  <2>2. QED
    BY <2>1, Numbers
<1> DEFINE state == [fire[f] EXCEPT !.pc = "loop", !.todo = Tail(@), !.mem = mem,
                                      !.fired = fired, !.step = 1, !.fresh = fire[f].fresh]
<1>7. fire' = [fire EXCEPT ![f] = state]
  <2> DEFINE moved == [fire[f] EXCEPT !.todo = Tail(@), !.step = 1, !.pc = "loop",
                                      !.mem = fire[f].mem \cup {Current(f)}, !.fired = @ + 1]
  <2>1. fire' = [fire EXCEPT ![f] = moved]
    BY <1>1, <1>3, Typed DEF Skip, LocalStates
  <2>2. state = moved
    BY <1>3, <1>4, <1>5, <1>6 DEF LocalStates
  <2>3. QED
    BY <2>1, <2>2, Zenon
<1>8. fired >= fire[f].fired /\ fire[f].fresh \in BOOLEAN
  BY <1>3, <1>6, Numbers DEF LocalStates
<1>9. Passed(now)'
  BY <1>2, <1>3, <1>4, PassedStays DEF Passed
<1>10. \A i \in mem : Passed(i)'
  BY <1>2, <1>3, <1>5, <1>9, PassedStays DEF PollInv, CallerKnows, LocalStates
<1>11. /\ state \in LocalStates
       /\ state.pc = "loop" /\ state.todo = Tail(fire[f].todo) /\ state.mem = mem
       /\ state.next = fire[f].next /\ state.fired = fired /\ state.step = 1
       /\ state.fresh = fire[f].fresh
  <2> DEFINE rest == Tail(fire[f].todo)
  <2>1. rest \in Seq(ItemIds) /\ 1 \in 1..(Len(WorkflowOf) + 1) /\ fire[f] \in LocalStates
    BY <1>3, <1>8, BehindItem
  <2> HIDE DEF rest
  <2>2. QED
    BY <1>3, <1>8, <2>1 DEF rest, LocalStates, Pcs
<1> HIDE DEF state
<1>12. fire' \in [Callers -> LocalStates] /\ (\A d \in Callers \ {f} : fire'[d] = fire[d])
       /\ CallerKnows(f)' /\ FireKnows(f)'
  BY <1>2, <1>3, <1>4, <1>7, <1>8, <1>9, <1>10, <1>11, MovesOn
<1>13. seen' = mem
  BY <1>1, <1>4, <1>5
<1>14. PollTypeOK'
  BY <1>1, <1>12, <1>13, Typed, TypeKept DEF PollInv, PollTypeOK, source, history
<1>15. NothingSkipped'
  <2>1. \A i \in ItemIds : i <= cursor => Passed(i)'
    BY <1>2, PassedStays DEF PollInv, NothingSkipped, Passed
  <2>2. QED
    BY <1>1, <1>10, <1>13, <2>1 DEF NothingSkipped, Passed
<1>16. QED
  BY <1>2, <1>3, <1>12, <1>14, <1>15, OneMoves

LEMMA EmitInv ==
  ASSUME PollInv, NEW f \in Fires, Emit(f)
  PROVE  PollInv'
BY EmitWatermarkInv, EmitSeenInv

\* One that comes to rest with a new position, behind which all was passed.
LEMMA Parks ==
  ASSUME PollInv, NEW c \in Callers, fire' = [fire EXCEPT ![c] = Resting],
         UNCHANGED <<source, seen, ledger, exists, leaked>>,
         waived \subseteq waived', waived' \subseteq ItemIds,
         cursor' \in 0..Items, \A i \in ItemIds : i <= cursor' => Passed(i)'
  PROVE  PollInv'
<1>1. Kept /\ HeldByOthers(c) /\ mode' = mode
  BY LedgerStands DEF source
<1>2. /\ fire' \in [Callers -> LocalStates] /\ \A d \in Callers \ {c} : fire'[d] = fire[d]
      /\ CallerKnows(c)' /\ FireKnows(c)' /\ (c = op => OperatorKnows')
  BY ComesToRest
<1>3. PollTypeOK'
  BY <1>2, Typed, TypeKept DEF PollInv, PollTypeOK, source
<1>4. NothingSkipped'
  <2>1. \A i \in ItemIds : i \in seen => Passed(i)'
    BY <1>1, PassedStays DEF PollInv, NothingSkipped, Passed
  <2>2. QED
    BY <2>1 DEF NothingSkipped, Passed
<1>5. QED
  BY <1>1, <1>2, <1>3, <1>4, OneMoves

(* The stored position, and the continuation of a drained page.            *)
LEMMA PositionPassed ==
  ASSUME PollInv, Kept
  PROVE  \A i \in ItemIds : i <= cursor => Passed(i)'
BY PassedStays DEF PollInv, NothingSkipped, Passed

LEMMA DrainedPassed ==
  ASSUME PollInv, Kept, NEW c \in Callers, fire[c].pc = "loop", fire[c].todo = <<>>,
         mode = "next_cursor", ~fire[c].fresh
  PROVE  fire[c].next \in 0..Items /\ \A i \in ItemIds : i <= fire[c].next => Passed(i)'
<1>1. fire[c].next \in 0..Items
  BY Typed DEF LocalStates
<1>2. Range(fire[c].todo) = {}
  BY DEF Range
<1>3. \A i \in ItemIds : i <= fire[c].next => Passed(i)
  BY <1>2 DEF PollInv, CallerKnows, Listing
<1>4. QED
  BY <1>1, <1>3, PassedStays

LEMMA FinishInv ==
  ASSUME PollInv, NEW f \in Fires, Finish(f)
  PROVE  PollInv'
<1>1. /\ fire[f].pc = "loop" /\ fire[f].todo = <<>> /\ fire' = [fire EXCEPT ![f] = Resting]
      /\ cursor' = IF mode = "next_cursor" /\ ~fire[f].fresh THEN fire[f].next ELSE cursor
      /\ UNCHANGED <<source, seen, ledger, exists, history>>
  BY DEF Finish, Drained
<1>2. f \in Callers /\ Kept
  BY <1>1, OperatorApart, LedgerStands DEF history
<1>3. cursor' \in 0..Items /\ \A i \in ItemIds : i <= cursor' => Passed(i)'
  <2>1. CASE mode = "next_cursor" /\ ~fire[f].fresh
    BY <1>1, <1>2, <2>1, DrainedPassed
  <2>2. CASE ~(mode = "next_cursor" /\ ~fire[f].fresh)
    BY <1>1, <1>2, <2>2, PositionPassed, Typed
  <2>3. QED
    BY <2>1, <2>2
<1>4. QED
  BY <1>1, <1>2, <1>3, Parks DEF history, PollInv, PollTypeOK

LEMMA DieInv ==
  ASSUME PollInv, NEW f \in Fires, Die(f)
  PROVE  PollInv'
<1>1. /\ ledger' = [i \in ItemIds |-> [s \in StepIds |->
                      IF ledger[i][s] = f THEN "orphan" ELSE ledger[i][s]]]
      /\ fire' = [fire EXCEPT ![f] = Resting]
      /\ UNCHANGED <<source, position, exists, history>>
  BY DEF Die, Break
<1>2. \A i \in ItemIds, s \in StepIds :
        ledger'[i][s] = IF ledger[i][s] = f THEN "orphan" ELSE ledger[i][s]
  BY <1>1
<1>3. Kept /\ HeldByOthers(f)
  BY <1>1, <1>2, PollAssumption DEF Kept, HeldByOthers, history
<1>4. ledger' \in [ItemIds -> [StepIds -> Records]]
  <2>1. \A i \in ItemIds, s \in StepIds :
          (IF ledger[i][s] = f THEN "orphan" ELSE ledger[i][s]) \in Records
    BY Typed DEF Records
  <2>2. QED
    BY <1>1, <2>1
<1>5. f \in Callers /\ f # op
  BY OperatorApart
<1>6. QED
  BY <1>1, <1>3, <1>4, <1>5, ComesToRest, LedgerMove DEF history, PollInv, PollTypeOK

LEMMA LeaseRunsOutInv ==
  ASSUME PollInv, NEW i \in ItemIds, NEW s \in StepIds, LeaseRunsOut(i, s)
  PROVE  PollInv'
<1>1. /\ ledger[i][s] = "orphan" /\ ledger' = [ledger EXCEPT ![i][s] = "over"]
      /\ UNCHANGED <<source, position, fire, exists, history>>
  BY DEF LeaseRunsOut
<1>2. \A j \in ItemIds, t \in StepIds :
        ledger'[j][t] = IF j = i /\ t = s THEN "over" ELSE ledger[j][t]
  BY <1>1, Typed
<1>3. Kept /\ HeldByOthers(op)
  BY <1>1, <1>2, PollAssumption DEF Kept, HeldByOthers, history
<1>4. ledger' \in [ItemIds -> [StepIds -> Records]]
  BY <1>1, Typed DEF Records
<1>5. PollTypeOK'
  BY <1>1, <1>4, Typed, TypeKept DEF PollInv, PollTypeOK, source, position, history
<1>6. NothingSkipped'
  BY <1>1, <1>3, PositionStands DEF position
<1>7. QED
  BY <1>1, <1>3, <1>5, <1>6, NobodyMoves DEF source

LEMMA SeenExpiresInv ==
  ASSUME PollInv, NEW i \in ItemIds, SeenExpires(i)
  PROVE  PollInv'
<1>1. seen' \subseteq seen /\ UNCHANGED <<source, cursor, ledger, fire, exists, history>>
  BY DEF SeenExpires
<1>2. Kept /\ HeldByOthers(op)
  BY <1>1, LedgerStands DEF history
<1>3. PollTypeOK'
  BY <1>1, Typed, TypeKept DEF PollInv, PollTypeOK, source, history
<1>4. NothingSkipped'
  BY <1>1, <1>2, PositionStands
<1>5. QED
  BY <1>1, <1>2, <1>3, <1>4, NobodyMoves DEF source

LEMMA FireStepInv ==
  ASSUME PollInv, NEW f \in Fires, FireStep(f)
  PROVE  PollInv'
<1>1. CASE Fetch(f)
  BY <1>1, FetchInv, OperatorApart DEF Fetch
<1>2. CASE SkipSeen(f)
  BY <1>2, SkipSeenInv
<1>3. CASE SkipOverBudget(f)
  BY <1>3, SkipOverBudgetInv
<1>4. CASE GateTakes(f)
  BY <1>4, GateTakesInv
<1>5. CASE GatePasses(f)
  BY <1>5, GatePassesInv
<1>6. CASE GateBusy(f)
  BY <1>6, GateBusyInv
<1>7. CASE Act(f)
  BY <1>7, ActInv
<1>8. CASE Emit(f)
  BY <1>8, EmitInv
<1>9. CASE Remember(f)
  BY <1>9, RememberInv
<1>10. CASE Finish(f)
  BY <1>10, FinishInv
<1>11. QED
  BY <1>1, <1>2, <1>3, <1>4, <1>5, <1>6, <1>7, <1>8, <1>9, <1>10 DEF FireStep

-----------------------------------------------------------------------------
(* The operator.                                                           *)

(* A watermark jumps over a page that is waived as a whole.                *)
LEMMA ResetJumpInv == PollInv /\ ResetJump => PollInv'
<1> SUFFICES ASSUME PollInv, ResetJump PROVE PollInv'
  OBVIOUS
<1> DEFINE page == fire[op].todo
           marked == {page[k] : k \in DOMAIN page}
<1>1. /\ fire[op].pc = "loop" /\ mode = "watermark" /\ fire' = [fire EXCEPT ![op] = Resting]
      /\ page = <<>> => UNCHANGED <<cursor, waived>>
      /\ page # <<>> => cursor' = page[Len(page)] /\ waived' = waived \cup marked
      /\ UNCHANGED <<source, seen, ledger, exists, leaked>>
  BY DEF ResetJump
<1>2. op \in Callers /\ page \in Seq(ItemIds)
  BY OperatorApart, Typed DEF LocalStates
<1>3. marked \subseteq ItemIds
  BY <1>2
<1>4. waived \subseteq waived' /\ waived' \subseteq ItemIds
  BY <1>1, <1>3 DEF PollInv, PollTypeOK
<1>5. Kept
  BY <1>1, <1>4, LedgerStands
<1>6. CASE page = <<>>
  <2>1. cursor' \in 0..Items /\ \A i \in ItemIds : i <= cursor' => Passed(i)'
    BY <1>1, <1>5, <1>6, PositionPassed, Typed
  <2>2. QED
    BY <1>1, <1>2, <1>4, <2>1, Parks
<1>7. CASE page # <<>>
  <2>1. fire[op].fired = 0
    BY DEF PollInv, OperatorKnows
  <2>2. Listing(op) /\ BudgetLeft(op)
    BY <1>1, <2>1, Numbers DEF Listing, BudgetLeft
  <2>3. Gapless(page) /\ PassedUpTo(Current(op) - 1)
    BY <1>1, <1>2, <1>7, <2>2 DEF PollInv, CallerKnows
  <2>4. Current(op) = page[1]
    BY <1>2, <1>7 DEF Current
  <2>5. PICK n \in Nat \ {0} : n = Len(page) /\ DOMAIN page = 1..n
    BY <1>2, <1>7
  <2>6. page[n] = page[1] + n - 1 /\ page[1] \in ItemIds /\ page[n] \in ItemIds
    BY <1>2, <2>3, <2>5 DEF Gapless
  <2>7. \A i \in ItemIds : i <= page[n] => i <= page[1] - 1 \/ i \in marked
    <3> SUFFICES ASSUME NEW i \in ItemIds, i <= page[n], ~(i <= page[1] - 1) PROVE i \in marked
      OBVIOUS
    <3>1. i \in Nat /\ page[1] \in Nat
      BY <2>6, Numbers
    <3>2. i - page[1] + 1 \in 1..n
      BY <2>6, <3>1
    <3>3. page[i - page[1] + 1] = page[1] + (i - page[1] + 1) - 1
      BY <2>3, <2>5, <3>2 DEF Gapless
    <3>4. page[i - page[1] + 1] = i
      BY <3>1, <3>3
    <3>5. QED
      BY <2>5, <3>2, <3>4
  <2>8. \A i \in ItemIds : i <= page[n] => Passed(i)'
    <3>1. \A i \in marked : Passed(i)'
      BY <1>1, <1>7 DEF Passed
    <3>2. \A i \in ItemIds : i <= page[1] - 1 => Passed(i)'
      BY <1>5, <2>3, <2>4, PassedStays DEF PassedUpTo
    <3>3. QED
      BY <2>7, <3>1, <3>2
  <2>9. cursor' \in 0..Items /\ \A i \in ItemIds : i <= cursor' => Passed(i)'
    BY <1>1, <1>7, <2>5, <2>6, <2>8, Numbers DEF ItemIds
  <2>10. QED
    BY <1>1, <1>2, <1>4, <2>9, Parks
<1>8. QED
  BY <1>6, <1>7

LEMMA ResetParkInv == PollInv /\ ResetPark => PollInv'
<1> SUFFICES ASSUME PollInv, ResetPark PROVE PollInv'
  OBVIOUS
<1>1. /\ fire[op].pc = "loop" /\ mode = "next_cursor" /\ fire[op].todo = <<>>
      /\ cursor' = fire[op].next /\ fire' = [fire EXCEPT ![op] = Resting]
      /\ UNCHANGED <<source, seen, ledger, exists, history>>
  BY DEF ResetPark
<1>2. op \in Callers /\ Kept /\ ~fire[op].fresh
  BY <1>1, OperatorApart, LedgerStands DEF history, PollInv, OperatorKnows
<1>3. cursor' \in 0..Items /\ \A i \in ItemIds : i <= cursor' => Passed(i)'
  BY <1>1, <1>2, DrainedPassed
<1>4. QED
  BY <1>1, <1>2, <1>3, Parks DEF history, PollInv, PollTypeOK

(* An item that is in the seen-set is passed; another is merged.           *)
LEMMA ResetLoadInv == PollInv /\ ResetLoad => PollInv'
<1> SUFFICES ASSUME PollInv, ResetLoad PROVE PollInv'
  OBVIOUS
<1>1. /\ fire[op].pc = "loop" /\ fire[op].todo # <<>>
      /\ fire' = IF Current(op) \in fire[op].mem THEN Skip(op)
                 ELSE [fire EXCEPT ![op].pc = "store", ![op].mem = @ \cup seen]
      /\ UNCHANGED <<source, position, ledger, exists, history>>
  BY DEF ResetLoad
<1>2. op \in Callers /\ op \notin Fires /\ Listing(op) /\ fire[op] \in LocalStates
  BY <1>1, OperatorApart, Typed DEF Listing
<1>3. Kept /\ mode' = mode
  BY <1>1, LedgerStands DEF history, source
<1>4. fire[op].fired = 0 /\ ~fire[op].fresh
  BY DEF PollInv, OperatorKnows
<1>5. PICK now \in ItemIds : now = Current(op)
  BY <1>1, <1>2, Typed
<1>6. \A i \in fire[op].mem : i \in ItemIds /\ Passed(i)'
  BY <1>2, <1>3, PassedStays DEF PollInv, CallerKnows, LocalStates
<1>7. CASE now \in fire[op].mem
  <2> DEFINE state == [fire[op] EXCEPT !.todo = Tail(@), !.step = 1]
  <2>1. fire' = [fire EXCEPT ![op] = state]
    BY <1>1, <1>2, <1>5, <1>7, Typed DEF Skip
  <2>2. /\ state \in LocalStates /\ state.pc = "loop" /\ state.todo = Tail(fire[op].todo)
        /\ state.mem = fire[op].mem /\ state.next = fire[op].next /\ state.step = 1
        /\ state.fired = fire[op].fired /\ state.fresh = fire[op].fresh
    <3> DEFINE rest == Tail(fire[op].todo)
    <3>1. rest \in Seq(ItemIds) /\ 1 \in 1..(Len(WorkflowOf) + 1)
      BY <1>1, <1>2, BehindItem
    <3> HIDE DEF rest
    <3>2. QED
      BY <1>1, <1>2, <3>1 DEF rest, LocalStates
  <2> HIDE DEF state
  <2>3. state.fired >= fire[op].fired /\ \A i \in state.mem : Passed(i)'
    BY <1>4, <1>6, <2>2
  <2>4. Passed(now)'
    BY <1>6, <1>7
  <2>5. /\ fire' \in [Callers -> LocalStates] /\ \A d \in Callers \ {op} : fire'[d] = fire[d]
        /\ fire'[op] = state /\ CallerKnows(op)'
    BY <1>1, <1>2, <1>3, <1>5, <2>1, <2>2, <2>3, <2>4, MovesOn
  <2>6. OperatorKnows'
    BY <1>4, <2>2, <2>5 DEF OperatorKnows
  <2>7. QED
    BY <1>1, <1>2, <2>5, <2>6, LocalMove
<1>8. CASE now \notin fire[op].mem
  <2> DEFINE state == [fire[op] EXCEPT !.pc = "store", !.mem = @ \cup seen]
  <2>1. fire' = [fire EXCEPT ![op] = state]
    BY <1>1, <1>5, <1>8
  <2>2. seen \subseteq ItemIds /\ \A i \in seen : Passed(i)'
    BY <1>3, PassedStays DEF PollInv, PollTypeOK, NothingSkipped, Passed
  <2>3. /\ state \in LocalStates /\ state.pc = "store" /\ state.todo = fire[op].todo
        /\ state.next = fire[op].next /\ state.fired = fire[op].fired
        /\ state.fresh = fire[op].fresh /\ state.mem = fire[op].mem \cup seen
    BY <1>2, <2>2 DEF LocalStates, Pcs
  <2>4. \A i \in state.mem : Passed(i)'
    BY <1>6, <2>2, <2>3
  <2> HIDE DEF state
  <2>5. /\ fire' \in [Callers -> LocalStates] /\ \A d \in Callers \ {op} : fire'[d] = fire[d]
        /\ fire'[op] = state /\ CallerKnows(op)'
    BY <1>2, <1>3, <2>1, <2>3, <2>4, StaysAt
  <2>6. OperatorKnows'
    BY <1>1, <1>4, <2>3, <2>5 DEF OperatorKnows
  <2>7. QED
    BY <1>1, <1>2, <2>5, <2>6, LocalMove
<1>9. QED
  BY <1>7, <1>8

(* The item is put into the seen-set and waived.                           *)
LEMMA ResetStoreInv == PollInv /\ ResetStore => PollInv'
<1> SUFFICES ASSUME PollInv, ResetStore PROVE PollInv'
  OBVIOUS
<1>1. /\ fire[op].pc = "store" /\ seen' = fire[op].mem \cup {Current(op)}
      /\ fire' = [Skip(op) EXCEPT ![op].pc = "loop", ![op].mem = fire[op].mem \cup {Current(op)}]
      /\ waived' = waived \cup {Current(op)}
      /\ UNCHANGED <<source, cursor, ledger, exists, leaked>>
  BY DEF ResetStore
<1>2. /\ op \in Callers /\ op \notin Fires /\ Listing(op) /\ fire[op] \in LocalStates
      /\ fire[op].todo # <<>> /\ fire[op].fired = 0 /\ ~fire[op].fresh
  BY <1>1, OperatorApart, Typed DEF Listing, PollInv, OperatorKnows
<1>3. Kept /\ HeldByOthers(op) /\ mode' = mode
  BY <1>1, LedgerStands DEF source
<1>4. PICK now \in ItemIds : now = Current(op)
  BY <1>2, Typed
<1>5. PICK mem \in SUBSET ItemIds : mem = fire[op].mem \cup {now}
  BY <1>2, <1>4 DEF LocalStates
<1>6. Passed(now)'
  BY <1>1, <1>4 DEF Passed
<1>7. \A i \in mem : Passed(i)'
  BY <1>2, <1>3, <1>5, <1>6, PassedStays DEF PollInv, CallerKnows, LocalStates
<1> DEFINE state == [fire[op] EXCEPT !.pc = "loop", !.todo = Tail(@), !.mem = mem, !.step = 1]
<1>8. fire' = [fire EXCEPT ![op] = state]
  BY <1>1, <1>2, <1>4, <1>5, Typed DEF Skip, LocalStates
<1>9. /\ state \in LocalStates /\ state.pc = "loop" /\ state.todo = Tail(fire[op].todo)
      /\ state.mem = mem /\ state.next = fire[op].next /\ state.step = 1
      /\ state.fired = fire[op].fired /\ state.fresh = fire[op].fresh
  <2> DEFINE rest == Tail(fire[op].todo)
  <2>1. rest \in Seq(ItemIds) /\ 1 \in 1..(Len(WorkflowOf) + 1)
    BY <1>2, BehindItem
  <2> HIDE DEF rest
  <2>2. QED
    BY <1>2, <2>1 DEF rest, LocalStates, Pcs
<1> HIDE DEF state
<1>10. state.fired >= fire[op].fired
  BY <1>2, <1>9
<1>11. /\ fire' \in [Callers -> LocalStates] /\ \A d \in Callers \ {op} : fire'[d] = fire[d]
       /\ fire'[op] = state /\ CallerKnows(op)'
  BY <1>2, <1>3, <1>4, <1>6, <1>7, <1>8, <1>9, <1>10, MovesOn
<1>12. OperatorKnows'
  BY <1>2, <1>9, <1>11 DEF OperatorKnows
<1>13. seen' = mem /\ waived' \subseteq ItemIds
  BY <1>1, <1>4, <1>5 DEF PollInv, PollTypeOK
<1>14. PollTypeOK'
  BY <1>1, <1>11, <1>13, Typed, TypeKept DEF PollInv, PollTypeOK, source
<1>15. NothingSkipped'
  BY <1>1, <1>3, <1>7, <1>13, PositionPassed DEF NothingSkipped, Passed
<1>16. QED
  BY <1>2, <1>3, <1>11, <1>12, <1>14, <1>15, OneMoves

(* The operator's call waits for its next write, or is over.               *)
LEMMA OperatorWaits ==
  ASSUME PollInv, NEW pc \in {"idle", "drop", "delete", "remove"}, Kept,
         fire' = [fire EXCEPT ![op].pc = pc]
  PROVE  /\ fire' \in [Callers -> LocalStates] /\ \A d \in Callers \ {op} : fire'[d] = fire[d]
         /\ CallerKnows(op)' /\ OperatorKnows'
<1> DEFINE state == [fire[op] EXCEPT !.pc = pc]
<1>1. op \in Callers /\ fire[op] \in LocalStates /\ fire[op].fired = 0 /\ ~fire[op].fresh
  BY OperatorApart, Typed DEF PollInv, OperatorKnows
<1>2. fire' = [fire EXCEPT ![op] = state]
  OBVIOUS
<1>3. /\ state \in LocalStates /\ state.pc = pc /\ state.mem = fire[op].mem
      /\ state.fired = 0 /\ ~state.fresh
  BY <1>1 DEF LocalStates, Pcs
<1> HIDE DEF state
<1>4. /\ fire' \in [Callers -> LocalStates] /\ \A d \in Callers \ {op} : fire'[d] = fire[d]
      /\ fire'[op] = state
  BY <1>1, <1>2, <1>3, Typed
<1>5. \A i \in fire'[op].mem : Passed(i)'
  BY <1>1, <1>3, <1>4, PassedStays DEF PollInv, CallerKnows, LocalStates
<1>6. CallerKnows(op)'
  BY <1>1, <1>3, <1>4, <1>5, RestKnows
<1>7. OperatorKnows'
  BY <1>3, <1>4 DEF OperatorKnows
<1>8. QED
  BY <1>4, <1>6, <1>7

(* A date waives all items before the position.                            *)
LEMMA ResetDateInv ==
  ASSUME PollInv, NEW p \in 0..arrived, ResetDate(p)
  PROVE  PollInv'
<1>1. /\ cursor' = p /\ waived' = waived \cup (1..p)
      /\ fire' = [fire EXCEPT ![op].pc = IF mode = "watermark" THEN "idle" ELSE "drop"]
      /\ UNCHANGED <<source, seen, ledger, exists, leaked>>
  BY DEF ResetDate
<1>2. op \in Callers /\ op \notin Fires
  BY OperatorApart
<1>3. Kept /\ HeldByOthers(op) /\ mode' = mode
  BY <1>1, LedgerStands DEF source
<1>4. PICK pc \in {"idle", "drop", "delete", "remove"} : fire' = [fire EXCEPT ![op].pc = pc]
  BY <1>1
<1>5. /\ fire' \in [Callers -> LocalStates] /\ \A d \in Callers \ {op} : fire'[d] = fire[d]
      /\ CallerKnows(op)' /\ OperatorKnows'
  BY <1>3, <1>4, OperatorWaits
<1>6. p \in 0..Items /\ 1..p \subseteq ItemIds
  BY Typed, Numbers DEF ItemIds
<1>7. waived' \subseteq ItemIds
  BY <1>1, <1>6 DEF PollInv, PollTypeOK
<1>8. PollTypeOK'
  BY <1>1, <1>5, <1>6, <1>7, Typed, TypeKept DEF PollInv, PollTypeOK, source
<1>9. NothingSkipped'
  <2>1. \A i \in ItemIds : i <= p => i \in 1..p
    BY <1>6 DEF ItemIds
  <2>2. \A i \in ItemIds : i \in seen => Passed(i)'
    BY <1>3, PassedStays DEF PollInv, NothingSkipped, Passed
  <2>3. QED
    BY <1>1, <2>1, <2>2 DEF NothingSkipped, Passed
<1>10. QED
  BY <1>2, <1>3, <1>5, <1>8, <1>9, OneMoves

(* What drops the position, the seen-set or the record.                    *)
LEMMA Dropping ==
  ASSUME PollInv, UNCHANGED <<source, ledger, history>>, NEW pc \in {"idle", "drop", "delete", "remove"},
         fire' = [fire EXCEPT ![op].pc = pc], cursor' \in {0, cursor}, seen' \in {{}, seen},
         exists' \in BOOLEAN
  PROVE  PollInv'
<1>1. op \in Callers /\ op \notin Fires
  BY OperatorApart
<1>2. Kept /\ HeldByOthers(op) /\ mode' = mode
  BY LedgerStands DEF history, source
<1>3. /\ fire' \in [Callers -> LocalStates] /\ \A d \in Callers \ {op} : fire'[d] = fire[d]
      /\ CallerKnows(op)' /\ OperatorKnows'
  BY <1>2, OperatorWaits
<1>4. cursor' \in 0..Items /\ seen' \subseteq seen
  BY Typed, Numbers
<1>5. PollTypeOK'
  BY <1>3, <1>4, Typed, TypeKept DEF PollInv, PollTypeOK, source, history
<1>6. NothingSkipped'
  BY <1>2, <1>4, PositionStands
<1>7. QED
  BY <1>1, <1>2, <1>3, <1>5, <1>6, OneMoves

LEMMA DeleteCursorInv == PollInv /\ DeleteCursor => PollInv'
BY Dropping DEF DeleteCursor, PollInv, PollTypeOK

LEMMA DropSeenInv == PollInv /\ DropSeen => PollInv'
<1> SUFFICES ASSUME PollInv, DropSeen PROVE PollInv'
  OBVIOUS
<1>1. PICK pc \in {"idle", "drop", "delete", "remove"} : fire' = [fire EXCEPT ![op].pc = pc]
  BY DEF DropSeen
<1>2. QED
  BY <1>1, Dropping DEF DropSeen, PollInv, PollTypeOK

LEMMA DeleteRecordInv == PollInv /\ DeleteRecord => PollInv'
<1> SUFFICES ASSUME PollInv, DeleteRecord PROVE PollInv'
  OBVIOUS
<1>1. fire' = [fire EXCEPT ![op] = Resting] /\ exists' = FALSE
      /\ UNCHANGED <<source, position, ledger, history>>
  BY DEF DeleteRecord
<1>2. op \in Callers /\ op \notin Fires /\ Kept /\ HeldByOthers(op)
  BY <1>1, OperatorApart, LedgerStands DEF history
<1>3. /\ fire' \in [Callers -> LocalStates] /\ \A d \in Callers \ {op} : fire'[d] = fire[d]
      /\ CallerKnows(op)' /\ OperatorKnows'
  BY <1>1, <1>2, ComesToRest
<1>4. PollTypeOK'
  BY <1>1, <1>3, Typed, TypeKept DEF PollInv, PollTypeOK, source, position, history
<1>5. NothingSkipped'
  BY <1>1, <1>2, PositionStands DEF position
<1>6. QED
  BY <1>1, <1>2, <1>3, <1>4, <1>5, OneMoves DEF source

LEMMA RecreateInv == PollInv /\ Recreate => PollInv'
<1> SUFFICES ASSUME PollInv, Recreate PROVE PollInv'
  OBVIOUS
<1>1. exists' = TRUE /\ UNCHANGED <<source, position, ledger, fire, history>>
  BY DEF Recreate
<1>2. Kept /\ HeldByOthers(op)
  BY <1>1, LedgerStands DEF history
<1>3. PollTypeOK'
  BY <1>1, Typed, TypeKept DEF PollInv, PollTypeOK, source, position, history
<1>4. NothingSkipped'
  BY <1>1, <1>2, PositionStands DEF position
<1>5. QED
  BY <1>1, <1>2, <1>3, <1>4, NobodyMoves DEF source

LEMMA OperatorStepInv == PollInv /\ OperatorStep => PollInv'
<1> SUFFICES ASSUME PollInv, OperatorStep PROVE PollInv'
  OBVIOUS
<1>1. CASE ResetFetch
  BY <1>1, FetchInv, OperatorApart DEF ResetFetch
<1>2. QED
  BY <1>1, ResetJumpInv, ResetLoadInv, ResetStoreInv, ResetParkInv, DropSeenInv, DeleteRecordInv
  DEF OperatorStep

-----------------------------------------------------------------------------

LEMMA NextInv == PollInv /\ [PollNext]_pollVars => PollInv'
<1> SUFFICES ASSUME PollInv, [PollNext]_pollVars PROVE PollInv'
  OBVIOUS
<1>1. CASE UNCHANGED pollVars
  <2>1. UNCHANGED <<source, position, ledger, exists, history, fire>>
    BY <1>1 DEF pollVars, source, position, history
  <2>2. Kept /\ HeldByOthers(op)
    BY <2>1, LedgerStands DEF history
  <2>3. PollTypeOK'
    BY <2>1, Typed, TypeKept DEF PollInv, PollTypeOK, source, position, history
  <2>4. NothingSkipped'
    BY <2>1, <2>2, PositionStands DEF position
  <2>5. QED
    BY <2>1, <2>2, <2>3, <2>4, NobodyMoves DEF source
<1>2. CASE Arrive \/ BeginReset \/ DeleteCursor \/ Recreate \/ OperatorStep
  BY <1>2, ArriveInv, BeginResetInv, DeleteCursorInv, RecreateInv, OperatorStepInv
<1>3. ASSUME NEW p \in 0..arrived, ResetDate(p) PROVE PollInv'
  BY <1>3, ResetDateInv
<1>4. ASSUME NEW f \in Fires, BeginFire(f) \/ FireStep(f) \/ ActFails(f) \/ Die(f)
      PROVE  PollInv'
  BY <1>4, BeginFireInv, FireStepInv, ActFailsInv, DieInv
<1>5. ASSUME NEW i \in ItemIds, SeenExpires(i) \/ \E s \in StepIds : LeaseRunsOut(i, s)
      PROVE  PollInv'
  BY <1>5, SeenExpiresInv, LeaseRunsOutInv
<1>6. QED
  BY <1>1, <1>2, <1>3, <1>4, <1>5 DEF PollNext

(* What the callers of a poll know holds in every reachable state.         *)
THEOREM PollInvariant == PollSpec => []PollInv
<1>1. PollInit => PollInv
  BY InitInv
<1>2. PollInv /\ [PollNext]_pollVars => PollInv'
  BY NextInv
<1>3. QED
  BY <1>1, <1>2, PTL DEF PollSpec

(* A poll skips nothing: whatever fires overlap, fail or die, however they *)
(* are cut by max_items, and whoever resets or deletes the poll under      *)
(* them, an item behind the stored position or in the seen-set (poll_      *)
(* triggers.py, _fire_enabled; seen.py) ran to the end of every workflow   *)
(* or was waived by an operator.                                           *)
THEOREM NeverSkips == PollSpec => []NothingSkipped
<1>1. PollInv => NothingSkipped
  BY DEF PollInv
<1>2. QED
  BY <1>1, PollInvariant, PTL
=============================================================================
