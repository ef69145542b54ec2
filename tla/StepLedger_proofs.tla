-------------------------- MODULE StepLedger_proofs --------------------------
(***************************************************************************)
(* The ledger's invariant, the permanence of a finished step, and the      *)
(* refinement of StepOnce, for every set of steps and invocations and      *)
(* every lease at least as long as the invocation timeout.                 *)
(***************************************************************************)
EXTENDS StepLedger, TLAPS

(* The initial state has no records and no invocations.                    *)
LEMMA InitInv == Init => LedgerInv
  BY KindsAssumption, TimesAssumption
  DEF Init, LedgerInv, TypeOK, Status, Alive, LeaseCovers, HeldProcessing, Sealed,
      WritersKnown, MutualExclusion, PassedFinished

(* A step somebody holds is not free: its lease covers an invocation that  *)
(* the platform has not ended yet (the ConditionExpression of _is_pending  *)
(* against the Lambda timeout).                                            *)
LEMMA HeldNotFree ==
  ASSUME LedgerInv, NEW w \in Workers, NEW s \in held[w], s \in Exclusive
  PROVE  ~Free(s)
<1>1. w \in up /\ s \in Steps
  BY DEF LedgerInv, Alive, TypeOK
<1>2. now <= deadline[w] /\ deadline[w] <= lease[s] /\ status[s] # "none"
  BY <1>1 DEF LedgerInv, Alive, LeaseCovers
<1>3. now \in Nat /\ deadline[w] \in Nat /\ lease[s] \in Nat
  BY <1>1 DEF LedgerInv, TypeOK
<1>4. QED
  BY <1>2, <1>3 DEF Free

(* The only records a close-out, a release or a second mark touches belong *)
(* to one invocation.                                                      *)
LEMMA OneHolder ==
  ASSUME LedgerInv, NEW v \in Workers, NEW w \in Workers, NEW s \in Sealed,
         s \in held[v], s \in held[w]
  PROVE  v = w
  BY DEF LedgerInv, MutualExclusion, Sealed, OnceOnly, Exclusive

(* One theorem per conjunct of Next: the step preserves the invariant.     *)
LEMMA StartInv ==
  ASSUME LedgerInv, NEW w \in Workers, Start(w)
  PROVE  LedgerInv'
<1> USE DEF LedgerInv, Start, records
<1>1. TypeOK'
  BY TimesAssumption DEF TypeOK
<1>2. Alive'
  BY TimesAssumption DEF Alive, TypeOK
<1>3. LeaseCovers'
  <2>1. held[w] = {}
    BY DEF Alive
  <2>2. QED
    BY <2>1 DEF LeaseCovers, TypeOK
<1>4. HeldProcessing' /\ WritersKnown' /\ MutualExclusion' /\ PassedFinished'
  BY DEF HeldProcessing, WritersKnown, MutualExclusion, PassedFinished
<1>5. QED
  BY <1>1, <1>2, <1>3, <1>4

LEMMA EndInv ==
  ASSUME LedgerInv, NEW w \in Workers, End(w)
  PROVE  LedgerInv'
<1> USE DEF LedgerInv, End, records
<1>1. TypeOK'
  BY DEF TypeOK
<1>2. Alive'
  BY DEF Alive, TypeOK
<1>3. LeaseCovers' /\ HeldProcessing'
  BY DEF LeaseCovers, HeldProcessing, TypeOK
<1>4. WritersKnown' /\ MutualExclusion' /\ PassedFinished'
  BY DEF WritersKnown, MutualExclusion, PassedFinished, TypeOK
<1>5. QED
  BY <1>1, <1>2, <1>3, <1>4

LEMMA TickInv ==
  ASSUME LedgerInv, Tick
  PROVE  LedgerInv'
<1> USE DEF LedgerInv, Tick, records, invocations
<1>1. TypeOK'
  BY DEF TypeOK
<1>2. Alive'
  BY TimesAssumption DEF Alive, TypeOK
<1>3. LeaseCovers' /\ HeldProcessing'
  BY DEF LeaseCovers, HeldProcessing
<1>4. WritersKnown' /\ MutualExclusion' /\ PassedFinished'
  BY DEF WritersKnown, MutualExclusion, PassedFinished
<1>5. QED
  BY <1>1, <1>2, <1>3, <1>4

LEMMA GateInv ==
  ASSUME LedgerInv, NEW w \in Workers, NEW s \in Steps, Gate(w, s)
  PROVE  LedgerInv'
<1> USE DEF LedgerInv, Gate, LeaseUntil, CanGate
<1>1. TypeOK'
  BY TimesAssumption DEF TypeOK, Status
<1>2. Alive'
  BY DEF Alive, TypeOK
<1>3. ASSUME s \in Exclusive
      PROVE  \A v \in Workers : s \notin held[v]
  BY <1>3, HeldNotFree
<1>4. now + Lease \in Nat /\ deadline[w] <= now + Lease
  BY TimesAssumption DEF Alive, TypeOK
<1>5. LeaseCovers'
  <2> SUFFICES ASSUME NEW v \in Workers, NEW t \in held'[v] \cap Exclusive
               PROVE  status'[t] # "none" /\ deadline'[v] <= lease'[t]
    BY DEF LeaseCovers
  <2>1. CASE t = s
    <3>1. v = w
      BY <2>1, <1>3 DEF TypeOK
    <3>2. QED
      BY <2>1, <3>1, <1>4 DEF TypeOK
  <2>2. CASE t # s
    <3>1. t \in held[v] \cap Exclusive /\ t \in Steps
      BY <2>2 DEF TypeOK
    <3>2. QED
      BY <2>2, <3>1 DEF LeaseCovers, TypeOK
  <2>3. QED
    BY <2>1, <2>2
<1>6. HeldProcessing'
  BY DEF HeldProcessing, TypeOK, Sealed, OnceOnly, Exclusive
<1>7. WritersKnown'
  BY DEF WritersKnown, TypeOK
<1>8. MutualExclusion'
  BY <1>3 DEF MutualExclusion, TypeOK
<1>9. PassedFinished'
  BY DEF PassedFinished, Free, TypeOK, Finished, Sealed, OnceOnly, Exclusive
<1>10. QED
  BY <1>1, <1>2, <1>5, <1>6, <1>7, <1>8, <1>9

LEMMA GateRefusedInv ==
  ASSUME LedgerInv, NEW w \in Workers, NEW s \in Steps, GateRefused(w, s)
  PROVE  LedgerInv'
<1> USE DEF LedgerInv, GateRefused, CanGate, records
<1>1. TypeOK'
  BY DEF TypeOK
<1>2. Alive' /\ LeaseCovers' /\ HeldProcessing'
  BY DEF Alive, LeaseCovers, HeldProcessing, TypeOK
<1>3. WritersKnown' /\ MutualExclusion' /\ PassedFinished'
  BY DEF WritersKnown, MutualExclusion, PassedFinished
<1>4. QED
  BY <1>1, <1>2, <1>3

(* A refusal of a spent budget writes only metered records.                *)
LEMMA OverBudgetInv ==
  ASSUME LedgerInv, NEW w \in Workers, NEW s \in Steps, OverBudget(w, s)
  PROVE  LedgerInv'
<1> USE DEF LedgerInv, OverBudget, CanGate
<1>1. s \notin Sealed /\ s \notin Exclusive
  BY DEF Sealed, Exclusive
<1>2. TypeOK'
  BY DEF TypeOK, Status
<1>3. Alive' /\ LeaseCovers'
  BY <1>1 DEF Alive, LeaseCovers, TypeOK
<1>4. HeldProcessing' /\ PassedFinished'
  BY <1>1 DEF HeldProcessing, PassedFinished, TypeOK
<1>5. WritersKnown' /\ MutualExclusion'
  BY DEF WritersKnown, MutualExclusion, TypeOK
<1>6. QED
  BY <1>2, <1>3, <1>4, <1>5

LEMMA ReadBackInv ==
  ASSUME LedgerInv, NEW w \in Workers, NEW s \in Steps, ReadBack(w, s)
  PROVE  LedgerInv'
<1> USE DEF LedgerInv, ReadBack, ReadsFinished, records
<1>1. TypeOK'
  BY DEF TypeOK
<1>2. w \in up
  BY DEF Alive
<1>3. Alive' /\ LeaseCovers' /\ HeldProcessing'
  BY <1>2 DEF Alive, LeaseCovers, HeldProcessing, TypeOK
<1>4. WritersKnown' /\ MutualExclusion'
  BY DEF WritersKnown, MutualExclusion
<1>5. PassedFinished'
  BY DEF PassedFinished, TypeOK
<1>6. QED
  BY <1>1, <1>3, <1>4, <1>5

LEMMA CloseInv ==
  ASSUME LedgerInv, NEW w \in Workers, NEW s \in Steps,
         NEW outcome \in Outcomes(s), Close(w, s, outcome)
  PROVE  LedgerInv'
<1> USE DEF LedgerInv, Close
<1>1. outcome \in Status \ {"none"} /\ (outcome = "delayed" => s \in Pausing)
  BY DEF Outcomes, Status
<1>2. TypeOK'
  BY <1>1 DEF TypeOK
<1>3. w \in up
  BY DEF Alive
<1>4. Alive' /\ LeaseCovers'
  BY <1>1, <1>3 DEF Alive, LeaseCovers, TypeOK
<1>5. HeldProcessing'
  BY OneHolder DEF HeldProcessing, TypeOK, Sealed, OnceOnly, Exclusive
<1>6. WritersKnown'
  BY <1>1 DEF WritersKnown, TypeOK
<1>7. MutualExclusion'
  BY DEF MutualExclusion, TypeOK
<1>8. PassedFinished'
  <2>1. ASSUME s \in Sealed
        PROVE  status[s] = "processing"
    BY <2>1 DEF HeldProcessing
  <2>2. QED
    BY <2>1 DEF PassedFinished, TypeOK, Finished
<1>9. QED
  BY <1>2, <1>4, <1>5, <1>6, <1>7, <1>8

LEMMA ReleaseInv ==
  ASSUME LedgerInv, NEW w \in Workers, NEW s \in Steps, Release(w, s)
  PROVE  LedgerInv'
<1> USE DEF LedgerInv, Release
<1>1. TypeOK'
  BY DEF TypeOK, Status
<1>2. w \in up
  BY DEF Alive
<1>3. Alive'
  BY <1>2 DEF Alive, TypeOK
<1>4. LeaseCovers'
  <2> SUFFICES ASSUME NEW v \in Workers, NEW t \in held'[v] \cap Exclusive
               PROVE  status'[t] # "none" /\ deadline'[v] <= lease'[t]
    BY DEF LeaseCovers
  <2>1. t \in held[v] \cap Exclusive /\ t \in Steps
    BY DEF TypeOK
  <2>2. t # s
    BY <2>1 DEF MutualExclusion, TypeOK
  <2>3. QED
    BY <2>1, <2>2 DEF LeaseCovers, TypeOK
<1>5. HeldProcessing'
  BY OneHolder DEF HeldProcessing, TypeOK, Sealed, OnceOnly, Exclusive
<1>6. WritersKnown'
  BY DEF WritersKnown, TypeOK
<1>7. MutualExclusion'
  BY DEF MutualExclusion, TypeOK
<1>8. PassedFinished'
  <2>1. ASSUME s \in Sealed
        PROVE  status[s] = "processing"
    BY <2>1 DEF HeldProcessing
  <2>2. QED
    BY <2>1 DEF PassedFinished, TypeOK, Finished
<1>9. QED
  BY <1>1, <1>3, <1>4, <1>5, <1>6, <1>7, <1>8

LEMMA MarkHandledInv ==
  ASSUME LedgerInv, NEW w \in Workers, NEW s \in Steps, MarkHandled(w, s)
  PROVE  LedgerInv'
<1> USE DEF LedgerInv, MarkHandled
<1>1. s \in Handled /\ w \in up
  BY DEF WritersKnown, Alive
<1>2. TypeOK'
  BY DEF TypeOK, Status
<1>3. Alive' /\ LeaseCovers'
  BY <1>1 DEF Alive, LeaseCovers, TypeOK
<1>4. HeldProcessing' /\ PassedFinished'
  BY <1>1 DEF HeldProcessing, PassedFinished, TypeOK, Sealed, OnceOnly, Exclusive
<1>5. WritersKnown' /\ MutualExclusion'
  BY DEF WritersKnown, MutualExclusion, TypeOK
<1>6. QED
  BY <1>2, <1>3, <1>4, <1>5

(* Resume, cancel and replay only write steps that are not sealed.         *)
LEMMA ElsewhereInv ==
  ASSUME LedgerInv, NEW s \in Steps, Elsewhere(s)
  PROVE  LedgerInv'
<1> USE DEF LedgerInv, Elsewhere, ClosePaused, CancelPaused, MarkReused, invocations
<1>1. s \notin Sealed
  BY DEF WritersKnown, Sealed, OnceOnly, Exclusive
<1>2. TypeOK'
  BY DEF TypeOK, Status
<1>3. Alive' /\ LeaseCovers'
  BY DEF Alive, LeaseCovers, TypeOK, Exclusive
<1>4. HeldProcessing' /\ PassedFinished'
  BY <1>1 DEF HeldProcessing, PassedFinished, TypeOK, Sealed, OnceOnly, Exclusive
<1>5. WritersKnown' /\ MutualExclusion'
  BY DEF WritersKnown, MutualExclusion, TypeOK
<1>6. QED
  BY <1>2, <1>3, <1>4, <1>5

(* Every step of Next preserves the invariant.                             *)
LEMMA NextInv ==
  ASSUME LedgerInv, [Next]_vars
  PROVE  LedgerInv'
<1>1. CASE Tick
  BY <1>1, TickInv
<1>2. CASE \E w \in Workers : Start(w)
  BY <1>2, StartInv
<1>3. CASE \E w \in Workers : End(w)
  BY <1>3, EndInv
<1>4. ASSUME NEW w \in Workers, NEW s \in Steps, StepOf(w, s)
      PROVE  LedgerInv'
  BY <1>4, GateInv, GateRefusedInv, OverBudgetInv, ReadBackInv, CloseInv, ReleaseInv, MarkHandledInv
  DEF StepOf
<1>5. CASE \E s \in Steps : Elsewhere(s)
  BY <1>5, ElsewhereInv
<1>6. CASE UNCHANGED vars
  BY <1>6 DEF vars, LedgerInv, TypeOK, Alive, LeaseCovers, HeldProcessing, WritersKnown,
              MutualExclusion, PassedFinished
<1>7. QED
  BY <1>1, <1>2, <1>3, <1>4, <1>5, <1>6 DEF Next

(* The ledger's invariant holds of every reachable state: leases exclude,  *)
(* and a delivery only walks past a step that is finished.                 *)
THEOREM LedgerInvariant == Spec => []LedgerInv
<1>1. Init => LedgerInv
  BY InitInv
<1>2. LedgerInv /\ [Next]_vars => LedgerInv'
  BY NextInv
<1>3. QED
  BY <1>1, <1>2, PTL DEF Spec

(* No two invocations run one step at once (_is_pending), for every number *)
(* of steps and invocations.                                               *)
THEOREM LeasesExclude == Spec => []MutualExclusion
<1>1. LedgerInv => MutualExclusion
  BY DEF LedgerInv
<1>2. QED
  BY <1>1, LedgerInvariant, PTL

(* A step CompletedStep lets a delivery walk past is finished.             *)
THEOREM DedupeIsSound == Spec => []PassedFinished
<1>1. LedgerInv => PassedFinished
  BY DEF LedgerInv
<1>2. QED
  BY <1>1, LedgerInvariant, PTL

-----------------------------------------------------------------------------
(* Per action: what a step does to the sealed records.                     *)

(* A sealed step somebody holds reads processing.                          *)
LEMMA HeldUnfinished ==
  ASSUME LedgerInv, NEW w \in Workers, NEW s \in held[w] \cap Sealed
  PROVE  status[s] \notin Finished
  BY DEF LedgerInv, HeldProcessing, Finished

(* No step of any actor moves a sealed step off completed or filtered.     *)
LEMMA FinishedStays ==
  ASSUME LedgerInv, [Next]_vars, NEW s \in Sealed, status[s] \in Finished
  PROVE  status'[s] = status[s]
<1>1. s \in Steps /\ status \in [Steps -> Status]
  BY DEF Sealed, OnceOnly, LedgerInv, TypeOK
<1>2. ASSUME NEW w \in Workers, NEW t \in Steps, StepOf(w, t)
      PROVE  status'[s] = status[s]
  <2>1. CASE Gate(w, t)
    BY <2>1, <1>1 DEF Gate, Free, Finished
  <2>2. CASE \E outcome \in Outcomes(t) : Close(w, t, outcome)
    BY <2>2, <1>1, HeldUnfinished DEF Close
  <2>3. CASE Release(w, t)
    BY <2>3, <1>1, HeldUnfinished DEF Release
  <2>4. CASE MarkHandled(w, t)
    BY <2>4, <1>1 DEF MarkHandled, LedgerInv, WritersKnown, Sealed, OnceOnly, Exclusive
  <2>5. CASE GateRefused(w, t) \/ ReadBack(w, t)
    BY <2>5 DEF GateRefused, ReadBack, records
  <2>6. CASE OverBudget(w, t)
    BY <2>6, <1>1 DEF OverBudget, Sealed
  <2>7. QED
    BY <1>2, <2>1, <2>2, <2>3, <2>4, <2>5, <2>6 DEF StepOf
<1>3. ASSUME NEW t \in Steps, Elsewhere(t)
      PROVE  status'[s] = status[s]
  BY <1>1, <1>3 DEF Elsewhere, ClosePaused, CancelPaused, MarkReused, LedgerInv,
                    WritersKnown, Sealed, OnceOnly, Exclusive
<1>4. CASE Tick \/ (\E w \in Workers : Start(w) \/ End(w)) \/ UNCHANGED vars
  BY <1>4 DEF Tick, Start, End, records, vars
<1>5. QED
  BY <1>2, <1>3, <1>4 DEF Next

(* A finished step is finished for good: neither a redelivery nor a lease  *)
(* takeover nor a late close-out (_mark_completed, _release_action) undoes *)
(* completed or filtered.                                                  *)
THEOREM FinishedIsFinal == Spec => FinishedForGood
<1>1. LedgerInv /\ [Next]_vars =>
        [\A s \in Sealed : status[s] \in Finished => status'[s] = status[s]]_vars
  BY FinishedStays
<1>2. QED
  BY <1>1, LedgerInvariant, PTL DEF Spec, FinishedForGood

-----------------------------------------------------------------------------
(* The refinement of StepOnce.                                             *)

RunBy == [s \in Sealed |-> {w \in Workers : s \in held[w]}]
Final == {s \in Sealed : status[s] \in Finished}

(* The two variables of StepOnce do not move when neither a sealed status  *)
(* becomes final nor a sealed step changes hands.                          *)
LEMMA OnceStutter ==
  ASSUME \A w \in Workers : \A s \in Sealed : s \in held'[w] <=> s \in held[w],
         \A s \in Sealed : status'[s] \in Finished <=> status[s] \in Finished
  PROVE  UNCHANGED Once!vars
  BY DEF Once!vars

LEMMA OnceGiveUp ==
  ASSUME LedgerInv, NEW w \in Workers, NEW S \in SUBSET Sealed,
         \A v \in Workers : \A s \in Sealed :
            s \in held'[v] <=> s \in held[v] /\ ~(v = w /\ s \in S),
         \A s \in Sealed : status'[s] \in Finished <=> status[s] \in Finished
  PROVE  Once!Next
<1>1. RunBy' = [s \in Sealed |-> IF s \in S THEN RunBy[s] \ {w} ELSE RunBy[s]]
  <2> SUFFICES ASSUME NEW s \in Sealed
               PROVE  {v \in Workers : s \in held'[v]} =
                        IF s \in S THEN {v \in Workers : s \in held[v]} \ {w}
                                   ELSE {v \in Workers : s \in held[v]}
    BY DEF RunBy
  <2>1. QED
    OBVIOUS
<1>2. Final' = Final
  BY DEF Final
<1>3. Once!GiveUp(w, S)
  BY <1>1, <1>2 DEF Once!GiveUp, RunBy, Final
<1>4. QED
  BY <1>3 DEF Once!Next

(* The gate that takes a sealed step is StepOnce's Begin.                  *)
LEMMA GateBegins ==
  ASSUME LedgerInv, NEW w \in Workers, NEW s \in Sealed, Gate(w, s)
  PROVE  Once!Next
<1> s \in Steps /\ s \in Exclusive
  BY DEF Sealed, OnceOnly, Exclusive
<1> held \in [Workers -> SUBSET Steps] /\ status \in [Steps -> Status]
  BY DEF LedgerInv, TypeOK
<1>1. \A v \in Workers : s \notin held[v]
  BY HeldNotFree DEF Gate
<1>2. RunBy[s] = {} /\ s \notin Final
  BY <1>1 DEF RunBy, Final, Gate, Free, Finished
<1>3. RunBy' = [RunBy EXCEPT ![s] = {w}]
  <2> SUFFICES ASSUME NEW t \in Sealed
               PROVE  {v \in Workers : t \in held'[v]} =
                        IF t = s THEN {w} ELSE {v \in Workers : t \in held[v]}
    BY DEF RunBy
  <2>1. QED
    BY <1>1 DEF Gate
<1>4. Final' = Final
  BY <1>2 DEF Final, Gate, Finished, Sealed, OnceOnly, Exclusive
<1>5. Once!Begin(w, s)
  BY <1>2, <1>3, <1>4 DEF Once!Begin, RunBy, Final
<1>6. QED
  BY <1>5 DEF Once!Next

(* The close-out that makes a sealed step final is StepOnce's Finish.      *)
LEMMA CloseFinishes ==
  ASSUME LedgerInv, NEW w \in Workers, NEW s \in Sealed,
         NEW outcome \in Finished, Close(w, s, outcome)
  PROVE  Once!Next
<1> s \in Steps
  BY DEF Sealed, OnceOnly
<1> held \in [Workers -> SUBSET Steps] /\ status \in [Steps -> Status]
  BY DEF LedgerInv, TypeOK
<1>1. RunBy[s] = {w}
  BY OneHolder DEF RunBy, Close
<1>2. RunBy' = [RunBy EXCEPT ![s] = {}]
  <2> SUFFICES ASSUME NEW t \in Sealed
               PROVE  {v \in Workers : t \in held'[v]} =
                        IF t = s THEN {} ELSE {v \in Workers : t \in held[v]}
    BY DEF RunBy
  <2>1. QED
    BY OneHolder DEF Close
<1>3. Final' = Final \cup {s}
  BY DEF Final, Close, Sealed, OnceOnly, Exclusive
<1>4. Once!Finish(w, s)
  BY <1>1, <1>2, <1>3 DEF Once!Finish, RunBy, Final
<1>5. QED
  BY <1>4 DEF Once!Next

(* Every step of the ledger is a step of StepOnce or a stutter.            *)
LEMMA OnceStep ==
  ASSUME LedgerInv, [Next]_vars
  PROVE  [Once!Next]_(Once!vars)
<1> held \in [Workers -> SUBSET Steps] /\ status \in [Steps -> Status] /\ Sealed \subseteq Steps
  BY DEF LedgerInv, TypeOK, Sealed, OnceOnly, Exclusive
<1>1. CASE Tick \/ UNCHANGED vars \/ \E w \in Workers : Start(w)
  BY <1>1, OnceStutter DEF Tick, Start, records, invocations, vars
<1>2. ASSUME NEW w \in Workers, End(w)
      PROVE  Once!Next
  <2>1. held[w] \cap Sealed \in SUBSET Sealed
    OBVIOUS
  <2>2. \A v \in Workers : \A s \in Sealed :
          s \in held'[v] <=> s \in held[v] /\ ~(v = w /\ s \in held[w] \cap Sealed)
    BY <1>2 DEF End
  <2>3. status' = status
    BY <1>2 DEF End, records
  <2>4. QED
    BY <2>1, <2>2, <2>3, OnceGiveUp
<1>3. ASSUME NEW w \in Workers, NEW s \in Steps, StepOf(w, s)
      PROVE  [Once!Next]_(Once!vars)
  <2>1. CASE GateRefused(w, s) \/ ReadBack(w, s)
    BY <2>1, OnceStutter DEF GateRefused, ReadBack, records
  <2>2. CASE Gate(w, s)
    <3>1. CASE s \in Sealed
      BY <2>2, <3>1, GateBegins
    <3>2. CASE s \notin Sealed
      BY <2>2, <3>2, OnceStutter DEF Gate
    <3>3. QED
      BY <3>1, <3>2
  <2>3. ASSUME NEW outcome \in Outcomes(s), Close(w, s, outcome)
        PROVE  [Once!Next]_(Once!vars)
    <3>1. CASE s \notin Sealed
      BY <2>3, <3>1, OnceStutter DEF Close
    <3>2. CASE s \in Sealed /\ outcome \in Finished
      BY <2>3, <3>2, CloseFinishes
    <3>3. CASE s \in Sealed /\ outcome \notin Finished
      <4>1. {s} \in SUBSET Sealed
        BY <3>3
      <4>2. \A v \in Workers : \A t \in Sealed :
              t \in held'[v] <=> t \in held[v] /\ ~(v = w /\ t \in {s})
        BY <2>3 DEF Close
      <4>3. \A t \in Sealed : status'[t] \in Finished <=> status[t] \in Finished
        BY <2>3, <3>3, HeldUnfinished DEF Close
      <4>4. QED
        BY <4>1, <4>2, <4>3, OnceGiveUp
    <3>4. QED
      BY <3>1, <3>2, <3>3
  <2>4. CASE Release(w, s)
    <3>1. {s} \cap Sealed \in SUBSET Sealed
      OBVIOUS
    <3>2. \A v \in Workers : \A t \in Sealed :
            t \in held'[v] <=> t \in held[v] /\ ~(v = w /\ t \in {s} \cap Sealed)
      BY <2>4 DEF Release
    <3>3. \A t \in Sealed : status'[t] \in Finished <=> status[t] \in Finished
      BY <2>4, HeldUnfinished DEF Release, Finished
    <3>4. QED
      BY <3>1, <3>2, <3>3, OnceGiveUp
  <2>5. CASE MarkHandled(w, s)
    <3>1. s \notin Sealed
      BY <2>5 DEF MarkHandled, LedgerInv, WritersKnown, Sealed, OnceOnly, Exclusive
    <3>2. QED
      BY <2>5, <3>1, OnceStutter DEF MarkHandled
  <2>6. CASE OverBudget(w, s)
    BY <2>6, OnceStutter DEF OverBudget, Sealed
  <2>7. QED
    BY <1>3, <2>1, <2>2, <2>3, <2>4, <2>5, <2>6 DEF StepOf
<1>4. ASSUME NEW s \in Steps, Elsewhere(s)
      PROVE  [Once!Next]_(Once!vars)
  <2>1. s \notin Sealed
    BY <1>4 DEF Elsewhere, ClosePaused, CancelPaused, MarkReused, LedgerInv, WritersKnown, Sealed, OnceOnly, Exclusive
  <2>2. QED
    BY <1>4, <2>1, OnceStutter
    DEF Elsewhere, ClosePaused, CancelPaused, MarkReused, invocations
<1>5. QED
  BY <1>1, <1>2, <1>3, <1>4 DEF Next

(* The ledger implements StepOnce: one runner per step, and no second run  *)
(* of a finished one, from the code's reads, writes and leases alone.      *)
THEOREM LedgerImplementsStepOnce == Spec => ImplementsStepOnce
<1>1. Init => Once!Init
  BY DEF Init, Once!Init, Sealed, OnceOnly, Finished
<1>2. LedgerInv /\ [Next]_vars => [Once!Next]_(Once!vars)
  BY OnceStep
<1>3. QED
  BY <1>1, <1>2, LedgerInvariant, PTL DEF Spec, ImplementsStepOnce, Once!Spec
=============================================================================
