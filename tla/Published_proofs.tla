-------------------------- MODULE Published_proofs --------------------------
(***************************************************************************)
(* The published store, for every number of callers, events and calls and  *)
(* every threshold.  A streak counts the events that failed in it, in      *)
(* whatever order runs fail, complete and are reset; and as long as no two *)
(* calls write one revision and no deleted workflow is published again, a  *)
(* workflow that was switched off stays off and its versions stay recorded. *)
(***************************************************************************)
EXTENDS Published, FiniteSetTheorems, TLAPS

(* Nothing has failed yet.                                                 *)
LEMMA StreakInit == PubInit => StreakInv
BY FS_EmptySet DEF PubInit, StreakInv, StreakCountsEvents, NoStreak

(* Whatever leaves the counter alone, or starts it over.                   *)
LEMMA CounterStands ==
  ASSUME StreakInv, UNCHANGED counter \/ (streak' = NoStreak /\ failed' = {} /\ recounted' = 0)
  PROVE  StreakInv'
BY FS_EmptySet DEF StreakInv, StreakCountsEvents, counter, NoStreak

(* Two events are more than one.                                           *)
LEMMA TwoEvents ==
  ASSUME NEW S, IsFiniteSet(S), NEW a \in S, NEW b \in S, a # b
  PROVE  Cardinality(S) >= 2
<1>1. IsFiniteSet({a, b}) /\ Cardinality({a, b}) = 2
  <2>1. IsFiniteSet({a}) /\ Cardinality({a}) = 1
    BY FS_Singleton
  <2>2. {a} \cup {b} = {a, b} /\ b \notin {a}
    OBVIOUS
  <2>3. IsFiniteSet({a} \cup {b}) /\ Cardinality({a} \cup {b}) = Cardinality({a}) + 1
    BY <2>1, <2>2, FS_AddElement
  <2>4. QED
    BY <2>1, <2>2, <2>3
<1>2. {a, b} \subseteq S
  OBVIOUS
<1>3. Cardinality({a, b}) <= Cardinality(S) /\ Cardinality(S) \in Nat
  BY <1>2, FS_Subset, FS_CardinalityType
<1>4. QED
  BY <1>1, <1>3

(* A failed run counts, unless its event was the one counted last.         *)
LEMMA FailureInv ==
  ASSUME StreakInv, NEW e \in Editors, NEW ev \in Failers, RunFails(e, ev)
  PROVE  StreakInv'
<1>1. /\ streak \in [fails : Nat, last : Failers \cup {"nobody"}]
      /\ failed \subseteq Failers /\ IsFiniteSet(failed) /\ recounted \in Nat
      /\ streak.fails = Cardinality(failed) + recounted
      /\ Cardinality(failed) < 2 => recounted = 0
      /\ failed = {} => streak.last = "nobody"
      /\ failed # {} => streak.last \in failed
  BY DEF StreakInv, StreakCountsEvents
<1>2. /\ failed' = failed \cup {ev}
      /\ recounted' = IF ev \in failed /\ streak.last # ev THEN recounted + 1 ELSE recounted
      /\ streak.last # ev => streak' = [fails |-> streak.fails + 1, last |-> ev]
      /\ streak.last = ev => streak' = streak
  BY DEF RunFails, Counts
<1>3. Cardinality(failed) \in Nat
  BY <1>1, FS_CardinalityType
<1>4. CASE ev \notin failed
  <2>1. streak.last # ev
    BY <1>1, <1>4, PublishedAssumption
  <2>2. IsFiniteSet(failed') /\ Cardinality(failed') = Cardinality(failed) + 1
    BY <1>1, <1>2, <1>4, FS_AddElement
  <2>3. recounted' = recounted /\ streak' = [fails |-> streak.fails + 1, last |-> ev]
    BY <1>2, <1>4, <2>1
  <2>4. StreakCountsEvents'
    BY <1>1, <1>3, <2>2, <2>3 DEF StreakCountsEvents
  <2>5. QED
    BY <1>1, <1>2, <2>2, <2>3, <2>4 DEF StreakInv
<1>5. CASE ev \in failed /\ streak.last # ev
  <2>1. failed' = failed /\ streak.last \in failed
    BY <1>1, <1>2, <1>5
  <2>2. Cardinality(failed) >= 2
    BY <1>1, <1>5, <2>1, TwoEvents
  <2>3. recounted' = recounted + 1 /\ streak' = [fails |-> streak.fails + 1, last |-> ev]
    BY <1>2, <1>5
  <2>4. StreakCountsEvents'
    BY <1>1, <1>3, <2>1, <2>2, <2>3 DEF StreakCountsEvents
  <2>5. QED
    BY <1>1, <1>5, <2>1, <2>3, <2>4 DEF StreakInv
<1>6. CASE ev \in failed /\ streak.last = ev
  <2>1. failed' = failed /\ recounted' = recounted /\ streak' = streak
    BY <1>2, <1>6
  <2>2. QED
    BY <1>1, <2>1 DEF StreakInv, StreakCountsEvents
<1>7. QED
  BY <1>4, <1>5, <1>6

LEMMA StreakStep == StreakInv /\ [PubNext]_pubVars => StreakInv'
<1> SUFFICES ASSUME StreakInv, [PubNext]_pubVars PROVE StreakInv'
  OBVIOUS
<1>1. CASE UNCHANGED pubVars
  BY <1>1, CounterStands DEF pubVars, counter
<1>2. CASE Discard
  BY <1>2, CounterStands DEF Discard
<1>3. ASSUME NEW e \in Editors, EditorNext(e) PROVE StreakInv'
  <2>1. UNCHANGED counter \/ (streak' = NoStreak /\ failed' = {} /\ recounted' = 0)
    BY <1>3 DEF EditorNext, BeginDraft, PutDraft, BeginPublish, Compare, BeginRewrite,
                ResetForEnable, ReadPrevious, PutLive, PutVersion, DropPromoted,
                BeginRollback, BeginDelete, Unpublish, Kill
  <2>2. QED
    BY <2>1, CounterStands
<1>4. ASSUME NEW e \in Editors, SweepNext(e) PROVE StreakInv'
  <2>1. CASE BeginRun(e) \/ RunCompletes(e) \/ AutoPause(e)
    BY <2>1, CounterStands DEF BeginRun, RunCompletes, AutoPause
  <2>2. CASE \E ev \in Failers : RunFails(e, ev)
    BY <2>2, FailureInv
  <2>3. QED
    BY <1>4, <2>1, <2>2 DEF SweepNext
<1>5. QED
  BY <1>1, <1>2, <1>3, <1>4 DEF PubNext

(* The counter knows the event it counted last, in every reachable state.  *)
THEOREM StreakInvariant == PubSpec => []StreakInv
<1>1. PubInit => StreakInv
  BY StreakInit
<1>2. StreakInv /\ [PubNext]_pubVars => StreakInv'
  BY StreakStep
<1>3. QED
  BY <1>1, <1>2, PTL DEF PubSpec

(* A streak counts the events that failed in it, and again only those that *)
(* came back behind another; no event trips the pause alone, however often *)
(* it is redelivered.                                                      *)
THEOREM OneEventNeverTrips == PubSpec => []StreakCountsEvents
<1>1. StreakInv => StreakCountsEvents
  BY DEF StreakInv
<1>2. QED
  BY <1>1, StreakInvariant, PTL

-----------------------------------------------------------------------------
(* The live definition and its versions.                                   *)

Mine == {Ready} \cup Edits

(* Version 1 is live and recorded, and nobody is at anything.              *)
LEMMA PubInitInv == PubInit => PubInv
<1> SUFFICES ASSUME PubInit PROVE PubInv
  OBVIOUS
<1> USE DEF PubInit
<1>1. 1 \in Revisions /\ 1 \in 0..MaxRevision /\ 0 \in 0..MaxRevision
  BY PublishedAssumption DEF Revisions
<1>2. Fresh \in Definition
  BY DEF Fresh, Definition
<1>3. live.rev = 1 /\ \A r \in Revisions : versions[r] # Unknown => r = 1
  OBVIOUS
<1>4. PubTypeOK
  BY <1>1, <1>2, StreakInit DEF PubTypeOK
<1>5. \A e \in Editors : editor[e].pc = "ready" /\ ~Deciding(e)
  BY DEF Ready, Deciding
<1>6. Disables /\ VersionsKept
  BY <1>5 DEF Disables, VersionsKept
<1>7. InTurn /\ StaysOff /\ Recorded
  BY <1>3, <1>5 DEF InTurn, StaysOff, Recorded, BasedUnder
<1>8. QED
  BY <1>4, <1>6, <1>7 DEF PubInv

(* What the calls under way hold.                                          *)
LEMMA EditTyped ==
  ASSUME PubTypeOK, NEW e \in Editors
  PROVE  /\ editor[e].pc = "draft" => editor[e].base \in 0..MaxRevision /\ editor[e].on \in BOOLEAN
         /\ editor[e].pc = "compare" => editor[e].draft \in Drafts
         /\ editor[e].pc \in {"reset", "previous"} => editor[e] \in Rewrites
         /\ editor[e].pc \in {"put", "version"} => editor[e] \in Puts
<1>1. editor[e] \in {Ready} \cup Edits
  BY DEF PubTypeOK
<1>2. CASE editor[e] = Ready
  BY <1>2 DEF Ready
<1>3. CASE editor[e] \in [pc : {"draft"}, base : 0..MaxRevision, on : BOOLEAN]
  BY <1>3
<1>4. CASE editor[e] \in [pc : {"compare"}, draft : Drafts]
  BY <1>4
<1>5. CASE editor[e] \in Rewrites
  BY <1>5 DEF Rewrites
<1>6. CASE editor[e] \in Puts
  BY <1>6 DEF Puts
<1>7. CASE editor[e] \in [pc : {"promoted", "unpublish", "running", "pause"}]
  BY <1>7
<1>8. QED
  BY <1>1, <1>2, <1>3, <1>4, <1>5, <1>6, <1>7 DEF Edits

\* A call that may be under way, with a switch-off at revision off: it comes
\* from a revision that was live, and does not put the workflow on.
Fits(call, off) ==
    /\ call.pc = "draft" => call.base < live.rev + 1 /\ (off > 0 => call.base < off)
    /\ call.pc = "compare" =>
         call.draft.base < live.rev + 1 /\ (off > 0 => call.draft.base < off)
    /\ call.pc \in {"reset", "previous", "put"} =>
         call.from <= live.rev /\ (off > 0 => call.def # Fresh)
    /\ call.pc = "put" => call.from < call.rev /\ call.rev <= live.rev + 1

\* A draft that may be there.
Older(d, off) == d # NoDraft => d.base < live.rev + 1 /\ (off > 0 => d.base < off)

(* Most steps leave what is published alone and move one call, which fits. *)
LEMMA CallMoves ==
  ASSUME PubInv, NEW e \in Editors, NEW call \in Mine, NEW off \in {0, offAt},
         NEW d \in {NoDraft} \cup Drafts, draft' = d,
         editor' = [editor EXCEPT ![e] = call], offAt' = off, StreakInv',
         UNCHANGED <<live, versions, was, clashed, reborn>>, unwritten \subseteq unwritten',
         editor[e].pc = "version" => editor[e].rev \in unwritten',
         call.pc # "version",
         call.pc \in {"reset", "previous", "put"} /\ call.verb = "disable" => ~call.def.on,
         ~clashed /\ ~reborn => Fits(call, off) /\ Older(d, off)
  PROVE  PubInv'
<1>1. /\ editor'[e] = call /\ \A f \in Editors \ {e} : editor'[f] = editor[f]
      /\ live \in [rev : 0..MaxRevision, def : Definition]
      /\ offAt \in 0..MaxRevision /\ off \in 0..MaxRevision
  BY PublishedAssumption DEF PubInv, PubTypeOK
<1>2. PubTypeOK'
  BY <1>1 DEF PubInv, PubTypeOK, Mine
<1>3. Disables'
  BY <1>1 DEF PubInv, Disables, Deciding
<1>4. VersionsKept'
  <2> SUFFICES ASSUME ~clashed, ~reborn, NEW r \in Revisions,
                      r <= live.rev, r + KeptVersions > live.rev
               PROVE  \/ versions[r] = was[r] \/ r \in unwritten'
                      \/ \E f \in Editors : editor'[f].pc = "version" /\ editor'[f].rev = r
    BY DEF VersionsKept
  <2>1. \/ versions[r] = was[r] \/ r \in unwritten
        \/ \E f \in Editors : editor[f].pc = "version" /\ editor[f].rev = r
    BY DEF PubInv, VersionsKept
  <2>2. QED
    BY <1>1, <2>1
<1>5. ASSUME ~clashed, ~reborn PROVE InTurn' /\ StaysOff' /\ Recorded'
  <2> Fits(call, off) /\ Older(d, off) /\ InTurn /\ StaysOff /\ Recorded
    BY <1>5 DEF PubInv
  <2>1. InTurn'
    <3>1. BasedUnder(live.rev + 1)'
      BY <1>1 DEF InTurn, BasedUnder, Fits, Older
    <3>2. \A f \in Editors :
            /\ Deciding(f)' => editor'[f].from <= live.rev
            /\ editor'[f].pc = "put" =>
                 editor'[f].from < editor'[f].rev /\ editor'[f].rev <= live.rev + 1
      BY <1>1 DEF InTurn, Deciding, Fits
    <3>3. QED
      BY <3>1, <3>2 DEF InTurn
  <2>2. StaysOff'
    <3> SUFFICES ASSUME off > 0 PROVE /\ off <= live.rev /\ live.def # Fresh /\ BasedUnder(off)'
                                      /\ \A f \in Editors : Deciding(f)' => editor'[f].def # Fresh
      BY DEF StaysOff, BasedUnder
    <3>1. off = offAt
      OBVIOUS
    <3>2. BasedUnder(off)'
      BY <1>1, <3>1 DEF StaysOff, BasedUnder, Fits, Older
    <3>3. \A f \in Editors : Deciding(f)' => editor'[f].def # Fresh
      BY <1>1, <3>1 DEF StaysOff, Deciding, Fits
    <3>4. QED
      BY <3>1, <3>2, <3>3 DEF StaysOff
  <2>3. Recorded'
    BY <1>1 DEF Recorded
  <2>4. QED
    BY <2>1, <2>2, <2>3
<1>6. QED
  BY <1>2, <1>3, <1>4, <1>5 DEF PubInv

(* The draft and the calls under way are such.                             *)
LEMMA AllFit ==
  ASSUME PubInv, ~clashed, ~reborn, NEW off \in {0, offAt}
  PROVE  Older(draft, off) /\ \A e \in Editors : Fits(editor[e], off)
<1> InTurn /\ StaysOff
  BY DEF PubInv
<1>1. Older(draft, off)
  BY DEF InTurn, StaysOff, BasedUnder, Older
<1>2. ASSUME NEW e \in Editors PROVE Fits(editor[e], off)
  BY DEF InTurn, StaysOff, BasedUnder, Fits, Deciding
<1>3. QED
  BY <1>1, <1>2

(* The state that the steps start from.                                    *)
LEMMA PubTyped ==
  ASSUME PubInv
  PROVE  /\ live.rev \in 0..MaxRevision /\ live.def \in Definition
         /\ editor \in [Editors -> Mine] /\ draft \in {NoDraft} \cup Drafts /\ offAt \in Nat
         /\ MaxRevision \in Nat
BY PublishedAssumption DEF PubInv, PubTypeOK, Mine

(* Saving and dropping drafts.                                             *)
LEMMA DraftInv ==
  ASSUME PubInv, StreakInv', NEW e \in Editors,
         (\E on \in BOOLEAN : BeginDraft(e, on)) \/ PutDraft(e) \/ BeginPublish(e)
           \/ DropPromoted(e) \/ BeginDelete(e)
  PROVE  PubInv'
<1> USE DEF Begin, Done, notes
<1> live.rev \in 0..MaxRevision /\ draft \in {NoDraft} \cup Drafts /\ offAt \in Nat /\ PubTypeOK
  BY PubTyped DEF PubInv
<1>1. ASSUME NEW on \in BOOLEAN, BeginDraft(e, on) PROVE PubInv'
  <2> DEFINE call == [pc |-> "draft", base |-> live.rev, on |-> on]
  <2>1. call \in Mine /\ call.pc = "draft" /\ call.base = live.rev
    BY DEF Mine, Edits
  <2>2. /\ editor' = [editor EXCEPT ![e] = call] /\ editor[e] = Ready /\ offAt' = 0 /\ draft' = draft
        /\ UNCHANGED <<live, versions, was, clashed, reborn>> /\ unwritten \subseteq unwritten'
    BY <1>1 DEF BeginDraft
  <2> HIDE DEF call
  <2>3. ~clashed /\ ~reborn => Fits(call, 0) /\ Older(draft, 0)
    BY <2>1, AllFit DEF Fits
  <2>4. editor[e].pc # "version"
    BY <2>2 DEF Ready
  <2>5. call.pc # "version" /\ call.pc \notin {"reset", "previous", "put"}
    BY <2>1
  <2>6. QED
    BY <2>1, <2>2, <2>3, <2>4, <2>5, CallMoves
<1>2. CASE PutDraft(e)
  <2> DEFINE d == [base |-> editor[e].base, on |-> editor[e].on]
  <2>1. d \in Drafts /\ d.base = editor[e].base /\ editor[e].pc = "draft"
    BY <1>2, EditTyped DEF PutDraft, Drafts
  <2>2. /\ editor' = [editor EXCEPT ![e] = Ready] /\ offAt' = offAt /\ draft' = d
        /\ UNCHANGED <<live, versions, was, clashed, reborn>> /\ unwritten \subseteq unwritten'
    BY <1>2 DEF PutDraft
  <2> HIDE DEF d
  <2>3. Ready \in Mine /\ Ready.pc = "ready"
    BY DEF Mine, Ready
  <2>4. ~clashed /\ ~reborn => Fits(Ready, offAt) /\ Older(d, offAt)
    BY <2>1, <2>3, AllFit DEF Fits, Older
  <2>5. QED
    BY <2>1, <2>2, <2>3, <2>4, CallMoves
<1>3. CASE BeginPublish(e)
  <2> DEFINE call == [pc |-> "compare", draft |-> draft]
  <2>1. draft \in Drafts /\ draft # NoDraft
    BY <1>3 DEF BeginPublish
  <2>2. call \in Mine /\ call.pc = "compare" /\ call.draft = draft
    BY <2>1 DEF Mine, Edits
  <2>3. /\ editor' = [editor EXCEPT ![e] = call] /\ editor[e] = Ready /\ offAt' = offAt
        /\ draft' = draft
        /\ UNCHANGED <<live, versions, was, clashed, reborn>> /\ unwritten \subseteq unwritten'
    BY <1>3 DEF BeginPublish
  <2> HIDE DEF call
  <2>4. ~clashed /\ ~reborn => Fits(call, offAt) /\ Older(draft, offAt)
    BY <2>1, <2>2, AllFit DEF Fits, Older
  <2>5. editor[e].pc # "version"
    BY <2>3 DEF Ready
  <2>6. call.pc # "version" /\ call.pc \notin {"reset", "previous", "put"}
    BY <2>2
  <2>7. QED
    BY <2>2, <2>3, <2>4, <2>5, <2>6, CallMoves
<1>4. CASE DropPromoted(e)
  <2>1. /\ editor' = [editor EXCEPT ![e] = Ready] /\ editor[e].pc = "promoted" /\ offAt' = offAt
        /\ draft' = NoDraft
        /\ UNCHANGED <<live, versions, was, clashed, reborn>> /\ unwritten \subseteq unwritten'
    BY <1>4 DEF DropPromoted
  <2>2. Ready \in Mine /\ Ready.pc = "ready"
    BY DEF Mine, Ready
  <2>3. Fits(Ready, offAt) /\ Older(NoDraft, offAt)
    BY <2>2 DEF Fits, Older
  <2>4. editor[e].pc # "version" /\ Ready.pc # "version"
    BY <2>1, <2>2
  <2>5. QED
    BY <2>1, <2>2, <2>3, <2>4, CallMoves
<1>5. CASE BeginDelete(e)
  <2> DEFINE call == [pc |-> "unpublish"]
  <2>1. call \in Mine /\ call.pc = "unpublish"
    BY DEF Mine, Edits
  <2>2. /\ editor' = [editor EXCEPT ![e] = call] /\ editor[e] = Ready /\ offAt' = offAt
        /\ draft' = draft
        /\ UNCHANGED <<live, versions, was, clashed, reborn>> /\ unwritten \subseteq unwritten'
    BY <1>5 DEF BeginDelete
  <2> HIDE DEF call
  <2>3. ~clashed /\ ~reborn => Fits(call, offAt) /\ Older(draft, offAt)
    BY <2>1, AllFit DEF Fits
  <2>4. editor[e].pc # "version" /\ call.pc # "version"
    BY <2>1, <2>2 DEF Ready
  <2>5. QED
    BY <2>1, <2>2, <2>3, <2>4, CallMoves
<1>6. QED
  BY <1>1, <1>2, <1>3, <1>4, <1>5

(* A call that has read the definition it will put, and that definition    *)
(* keeps the switch.                                                       *)
LEMMA DecidedInv ==
  ASSUME PubInv, StreakInv', NEW e \in Editors, NEW call \in Mine, NEW off \in {0, offAt},
         call.pc \in {"reset", "previous"}, call.verb = "disable" => ~call.def.on,
         editor[e].pc # "version", offAt' = off, draft' = draft,
         editor' = [editor EXCEPT ![e] = call],
         UNCHANGED <<live, versions, was, clashed, reborn, unwritten>>,
         ~clashed /\ ~reborn => Fits(call, off)
  PROVE  PubInv'
<1>1. PICK d \in {NoDraft} \cup Drafts : d = draft
  BY PubTyped
<1>2. draft' = d /\ (~clashed /\ ~reborn => Fits(call, off) /\ Older(d, off))
  BY <1>1, AllFit
<1>3. unwritten \subseteq unwritten' /\ call.pc # "version"
  OBVIOUS
<1>4. QED
  BY <1>2, <1>3, CallMoves

(* A call goes to rewrite the live definition as it has decided to.        *)
Decides(e, pc, verb, def) ==
  \E call \in Rewrites :
     /\ call.pc = pc /\ call.verb = verb /\ call.from = live.rev /\ call.def = def
     /\ editor' = [editor EXCEPT ![e] = call]

(* The record of such a call is one of the rewrites.                       *)
LEMMA DecidesSo ==
  ASSUME PubInv, NEW e \in Editors, NEW pc \in {"reset", "previous"}, NEW verb \in Verbs,
         NEW def \in Definition,
         editor' = [editor EXCEPT ![e] =
                      [pc |-> pc, verb |-> verb, from |-> live.rev, def |-> def]]
  PROVE  Decides(e, pc, verb, def)
<1>1. live.rev \in 0..MaxRevision
  BY PubTyped
<1>2. QED
  BY <1>1 DEF Decides, Rewrites

(* The switch stays as it was, or a call of the operator has moved it.     *)
LEMMA DecideInv ==
  ASSUME PubInv, StreakInv', NEW e \in Editors, NEW off \in {0, offAt},
         NEW pc \in {"reset", "previous"}, NEW verb \in Verbs, NEW def \in Definition,
         editor[e].pc # "version", offAt' = off, draft' = draft, Decides(e, pc, verb, def),
         UNCHANGED <<live, versions, was, clashed, reborn, unwritten>>,
         verb = "disable" => ~def.on,
         ~clashed /\ ~reborn /\ off > 0 => def # Fresh
  PROVE  PubInv'
<1>1. PICK call \in Rewrites :
        /\ call.pc = pc /\ call.verb = verb /\ call.from = live.rev /\ call.def = def
        /\ editor' = [editor EXCEPT ![e] = call]
  BY DEF Decides
<1>2. call \in Mine /\ live.rev \in 0..MaxRevision
  BY PubTyped DEF Mine, Edits
<1>3. ~clashed /\ ~reborn => Fits(call, off)
  BY <1>1, <1>2, AllFit DEF Fits
<1>4. call.pc \in {"reset", "previous"} /\ (call.verb = "disable" => ~call.def.on)
  BY <1>1
<1>5. QED
  BY <1>1, <1>2, <1>3, <1>4, DecidedInv

(* A draft from before the switch-off is stale, so none is promoted.       *)
LEMMA CompareInv ==
  ASSUME PubInv, StreakInv', NEW e \in Editors, Compare(e)
  PROVE  PubInv'
<1> USE DEF notes
<1>1. /\ editor[e].pc = "compare" /\ editor[e].draft \in Drafts
      /\ live.rev \in 0..MaxRevision /\ draft \in {NoDraft} \cup Drafts /\ offAt \in Nat
  BY EditTyped, PubTyped DEF Compare, PubInv
<1>2. /\ UNCHANGED <<live, versions, was, clashed, reborn, unwritten>>
      /\ draft' = draft /\ offAt' = offAt
  BY DEF Compare
<1>3. CASE Stale(editor[e].draft)
  <2>1. editor' = [editor EXCEPT ![e] = Ready]
    BY <1>3 DEF Compare, Done
  <2>2. Ready \in Mine /\ Ready.pc = "ready"
    BY DEF Mine, Ready
  <2>3. ~clashed /\ ~reborn => Fits(Ready, offAt) /\ Older(draft, offAt)
    BY <2>2, AllFit DEF Fits
  <2>4. editor[e].pc # "version" /\ Ready.pc # "version"
    BY <1>1, <2>2
  <2>5. QED
    BY <1>1, <1>2, <2>1, <2>2, <2>3, <2>4, CallMoves
<1>4. CASE ~Stale(editor[e].draft)
  <2> DEFINE def == [on |-> editor[e].draft.on, paused |-> FALSE]
  <2>1. /\ def \in Definition
        /\ editor' = [editor EXCEPT ![e] =
             [pc |-> "previous", verb |-> "publish", from |-> live.rev, def |-> def]]
    BY <1>1, <1>4 DEF Compare, Definition, Drafts
  <2>2. ~clashed /\ ~reborn => ~(offAt > 0)
    <3>1. editor[e].draft.base \in Nat /\ ~(editor[e].draft.base < live.rev)
      BY <1>1, <1>4 DEF Stale, Drafts
    <3>2. ASSUME ~clashed, ~reborn, offAt > 0 PROVE FALSE
      <4>1. StaysOff /\ Fits(editor[e], offAt)
        BY <3>2, AllFit DEF PubInv
      <4>2. editor[e].draft.base < offAt /\ offAt <= live.rev
        BY <1>1, <3>2, <4>1 DEF Fits, StaysOff
      <4>3. QED
        BY <1>1, <3>1, <4>2
    <3>3. QED
      BY <3>2
  <2>3. "publish" \in Verbs /\ "previous" \in {"reset", "previous"}
    BY DEF Verbs
  <2> HIDE DEF def
  <2>4. editor[e].pc # "version" /\ def \in Definition
    BY <1>1, <2>1
  <2>5. Decides(e, "previous", "publish", def)
    BY <2>1, <2>3, DecidesSo
  <2>6. QED
    BY <1>2, <2>2, <2>3, <2>4, <2>5, DecideInv
<1>5. QED
  BY <1>3, <1>4

(* The switch, the tags and the rollback.                                  *)
LEMMA RewriteInv ==
  ASSUME PubInv, StreakInv', NEW e \in Editors,
         \/ \E verb \in {"enable", "disable", "tags"} : BeginRewrite(e, verb)
         \/ \E r \in Revisions : BeginRollback(e, r)
  PROVE  PubInv'
<1> USE DEF Begin, notes
<1>1. live.def \in Definition /\ offAt \in Nat
  BY PubTyped
<1>2. ASSUME NEW verb \in {"enable", "disable", "tags"}, BeginRewrite(e, verb) PROVE PubInv'
  <2> DEFINE def == Rewritten(verb)
  <2>1. /\ UNCHANGED <<live, versions, was, clashed, reborn, unwritten>>
        /\ draft' = draft /\ editor[e] = Ready
    BY <1>2 DEF BeginRewrite
  <2>2. /\ def \in Definition /\ (verb = "disable" => ~def.on)
        /\ verb = "tags" => def = live.def
    BY <1>1 DEF Rewritten, Definition
  <2>3. /\ verb \in Verbs /\ editor[e].pc # "version"
        /\ "reset" \in {"reset", "previous"} /\ "previous" \in {"reset", "previous"}
    BY <2>1 DEF Verbs, Ready
  <2>4. CASE verb = "enable"
    <3>1. /\ offAt' = 0
          /\ editor' = [editor EXCEPT ![e] =
               [pc |-> "reset", verb |-> verb, from |-> live.rev, def |-> def]]
      BY <1>2, <2>4 DEF BeginRewrite
    <3> HIDE DEF def
    <3>2. 0 \in {0, offAt} /\ (~clashed /\ ~reborn /\ 0 > 0 => def # Fresh)
      OBVIOUS
    <3>3. offAt' = 0 /\ Decides(e, "reset", verb, def)
      BY <2>2, <2>3, <3>1, DecidesSo
    <3>4. QED
      BY <2>1, <2>2, <2>3, <3>2, <3>3, DecideInv
  <2>5. CASE verb # "enable"
    <3>1. /\ offAt' = offAt
          /\ editor' = [editor EXCEPT ![e] =
               [pc |-> "previous", verb |-> verb, from |-> live.rev, def |-> def]]
      BY <1>2, <2>5 DEF BeginRewrite
    <3> HIDE DEF def
    <3>2. ~clashed /\ ~reborn /\ offAt > 0 => def # Fresh
      <4>1. CASE verb = "disable"
        BY <2>2, <4>1 DEF Fresh
      <4>2. CASE verb = "tags"
        BY <2>2, <4>2 DEF PubInv, StaysOff
      <4>3. QED
        BY <2>5, <4>1, <4>2
    <3>3. offAt' = offAt /\ Decides(e, "previous", verb, def)
      BY <2>2, <2>3, <3>1, DecidesSo
    <3>4. QED
      BY <1>1, <2>1, <2>2, <2>3, <3>2, <3>3, DecideInv
  <2>6. QED
    BY <2>4, <2>5
<1>3. ASSUME NEW r \in Revisions, BeginRollback(e, r) PROVE PubInv'
  <2> DEFINE def == [on |-> versions[r].on, paused |-> FALSE]
  <2>1. /\ UNCHANGED <<live, versions, was, clashed, reborn, unwritten>>
        /\ draft' = draft /\ offAt' = 0 /\ editor[e] = Ready
    BY <1>3 DEF BeginRollback
  <2>2. def \in Definition
    <3>1. versions[r] \in Definition
      BY <1>3 DEF BeginRollback, PubInv, PubTypeOK
    <3>2. QED
      BY <3>1 DEF Definition
  <2>3. "rollback" \in Verbs /\ editor[e].pc # "version" /\ "previous" \in {"reset", "previous"}
    BY <2>1 DEF Verbs, Ready
  <2> HIDE DEF def
  <2>4. 0 \in {0, offAt} /\ (~clashed /\ ~reborn /\ 0 > 0 => def # Fresh)
    OBVIOUS
  <2>5. "rollback" = "disable" => ~def.on
    OBVIOUS
  <2>6. Decides(e, "previous", "rollback", def)
    <3>1. editor' = [editor EXCEPT ![e] =
            [pc |-> "previous", verb |-> "rollback", from |-> live.rev, def |-> def]]
      BY <1>3 DEF BeginRollback, def
    <3>2. QED
      BY <2>2, <2>3, <3>1, DecidesSo
  <2>7. QED
    BY <2>1, <2>2, <2>3, <2>4, <2>5, <2>6, DecideInv
<1>4. QED
  BY <1>2, <1>3

(* A call that is through, or at something that puts no definition.        *)
LEMMA EndsInv ==
  ASSUME PubInv, StreakInv', NEW e \in Editors,
         NEW call \in {Ready, [pc |-> "running"], [pc |-> "pause"]},
         editor' = [editor EXCEPT ![e] = call],
         editor[e].pc = "version" => editor[e].rev \in unwritten',
         UNCHANGED <<live, versions, draft, offAt, was, clashed, reborn>>,
         unwritten \subseteq unwritten'
  PROVE  PubInv'
<1>1. draft \in {NoDraft} \cup Drafts
  BY PubTyped
<1>2. call \in Mine /\ call.pc \in {"ready", "running", "pause"}
  BY DEF Mine, Edits, Ready
<1>3. ~clashed /\ ~reborn => Fits(call, offAt) /\ Older(draft, offAt)
  BY <1>2, AllFit DEF Fits
<1>4. call.pc \notin {"version", "reset", "previous", "put"}
  BY <1>2
<1>5. QED
  BY <1>1, <1>2, <1>3, <1>4, CallMoves

(* A run comes and goes, an enable zeroes the streak, an invocation dies.  *)
LEMMA RunInv ==
  ASSUME PubInv, StreakInv', NEW e \in Editors,
         \/ BeginRun(e) \/ RunCompletes(e) \/ Kill(e)
         \/ \E ev \in Failers : RunFails(e, ev)
  PROVE  PubInv'
<1> USE DEF notes, Done
<1>1. editor \in [Editors -> Mine]
  BY PubTyped
<1>2. CASE BeginRun(e)
  <2>1. /\ editor[e] = Ready /\ editor' = [editor EXCEPT ![e] = [pc |-> "running"]]
        /\ UNCHANGED <<live, versions, draft, offAt, was, clashed, reborn, unwritten>>
    BY <1>2 DEF BeginRun, Begin
  <2>2. editor[e].pc # "version"
    BY <2>1 DEF Ready
  <2>3. QED
    BY <2>1, <2>2, EndsInv
<1>3. CASE RunCompletes(e)
  BY <1>3, EndsInv DEF RunCompletes
<1>4. CASE Kill(e)
  <2>1. /\ editor' = [editor EXCEPT ![e] = Ready]
        /\ editor[e].pc = "version" => editor[e].rev \in unwritten'
        /\ UNCHANGED <<live, versions, draft, offAt, was, clashed, reborn>>
        /\ unwritten \subseteq unwritten'
    BY <1>4 DEF Kill
  <2>2. QED
    BY <2>1, EndsInv
<1>5. ASSUME NEW ev \in Failers, RunFails(e, ev) PROVE PubInv'
  <2>1. /\ editor[e].pc = "running"
        /\ UNCHANGED <<live, versions, draft, offAt, was, clashed, reborn, unwritten>>
    BY <1>5 DEF RunFails
  <2>2. editor' = [editor EXCEPT ![e] = Ready] \/ editor' = [editor EXCEPT ![e].pc = "pause"]
    BY <1>5 DEF RunFails, Advance
  <2>3. CASE editor' = [editor EXCEPT ![e] = Ready]
    BY <2>1, <2>3, EndsInv
  <2>4. CASE editor' = [editor EXCEPT ![e].pc = "pause"]
    <3>1. editor[e] = [pc |-> "running"]
      <4>1. editor[e] \in [pc : {"promoted", "unpublish", "running", "pause"}]
        BY <1>1, <2>1 DEF Mine, Edits, Ready, Rewrites, Puts
      <4>2. QED
        BY <2>1, <4>1
    <3>2. [editor[e] EXCEPT !.pc = "pause"] = [pc |-> "pause"]
      BY <3>1
    <3>3. editor' = [editor EXCEPT ![e] = [pc |-> "pause"]]
      BY <2>4, <3>2
    <3>4. QED
      BY <2>1, <3>3, EndsInv
  <2>5. QED
    BY <2>2, <2>3, <2>4
<1>6. QED
  BY <1>2, <1>3, <1>4, <1>5

(* The streak is zeroed before an enable reads on.                         *)
LEMMA ResetInv ==
  ASSUME PubInv, StreakInv', NEW e \in Editors, ResetForEnable(e)
  PROVE  PubInv'
<1> USE DEF notes
<1>1. editor[e] \in Rewrites /\ editor[e].pc = "reset" /\ draft \in {NoDraft} \cup Drafts
  BY EditTyped, PubTyped DEF ResetForEnable, PubInv
<1> DEFINE call == [editor[e] EXCEPT !.pc = "previous"]
<1>2. /\ call \in Rewrites /\ call.pc = "previous" /\ call.verb = editor[e].verb
      /\ call.from = editor[e].from /\ call.def = editor[e].def
  BY <1>1 DEF Rewrites
<1>3. /\ editor' = [editor EXCEPT ![e] = call] /\ offAt' = offAt /\ draft' = draft
      /\ UNCHANGED <<live, versions, was, clashed, reborn, unwritten>>
  BY DEF ResetForEnable, Advance
<1> HIDE DEF call
<1>4. call \in Mine
  BY <1>2 DEF Mine, Edits
<1>5. ~clashed /\ ~reborn => Fits(call, offAt) /\ Older(draft, offAt)
  BY <1>1, <1>2, AllFit DEF Fits
<1>6. call.verb = "disable" => ~call.def.on
  BY <1>1, <1>2 DEF PubInv, Disables, Deciding
<1>7. editor[e].pc # "version" /\ call.pc # "version"
  BY <1>1, <1>2
<1>8. QED
  BY <1>1, <1>3, <1>4, <1>5, <1>6, <1>7, CallMoves

(* A call that knows the revision it will put.                             *)
LEMMA NextRevInv ==
  ASSUME PubInv, StreakInv', NEW e \in Editors, NEW verb \in Verbs, NEW from \in 0..MaxRevision,
         NEW def \in Definition, live.rev < MaxRevision,
         editor[e].pc # "version", offAt' = offAt, draft' = draft,
         editor' = [editor EXCEPT ![e] =
           [pc |-> "put", verb |-> verb, from |-> from, def |-> def, rev |-> live.rev + 1]],
         UNCHANGED <<live, versions, was, clashed, reborn, unwritten>>,
         verb = "disable" => ~def.on,
         ~clashed /\ ~reborn => from <= live.rev /\ (offAt > 0 => def # Fresh)
  PROVE  PubInv'
<1> DEFINE call == [pc |-> "put", verb |-> verb, from |-> from, def |-> def, rev |-> live.rev + 1]
<1>1. live.rev \in 0..MaxRevision /\ MaxRevision \in Nat /\ draft \in {NoDraft} \cup Drafts
  BY PubTyped
<1>2. live.rev + 1 \in Revisions
  BY <1>1 DEF Revisions
<1>3. /\ call.pc = "put" /\ call.verb = verb /\ call.from = from /\ call.def = def
      /\ call.rev = live.rev + 1 /\ call \in Mine
  BY <1>2 DEF Mine, Edits, Puts
<1>4. editor' = [editor EXCEPT ![e] = call]
  OBVIOUS
<1> HIDE DEF call
<1>5. ~clashed /\ ~reborn => Fits(call, offAt) /\ Older(draft, offAt)
  BY <1>1, <1>3, AllFit DEF Fits
<1>6. call.pc # "version"
  BY <1>3
<1>7. QED
  BY <1>1, <1>3, <1>4, <1>5, <1>6, CallMoves

LEMMA ReadPreviousInv ==
  ASSUME PubInv, StreakInv', NEW e \in Editors, ReadPrevious(e)
  PROVE  PubInv'
<1>1. editor[e] \in Rewrites /\ editor[e].pc = "previous" /\ editor \in [Editors -> Mine]
  BY EditTyped, PubTyped DEF ReadPrevious, PubInv
<1>2. PICK verb \in Verbs : verb = editor[e].verb
  BY <1>1 DEF Rewrites
<1>3. PICK from \in 0..MaxRevision : from = editor[e].from
  BY <1>1 DEF Rewrites
<1>4. PICK def \in Definition : def = editor[e].def
  BY <1>1 DEF Rewrites
<1>5. /\ live.rev < MaxRevision /\ offAt' = offAt /\ draft' = draft
      /\ UNCHANGED <<live, versions, was, clashed, reborn, unwritten>>
      /\ editor' = [editor EXCEPT ![e] =
           [pc |-> "put", verb |-> verb, from |-> from, def |-> def, rev |-> live.rev + 1]]
  BY <1>1, <1>2, <1>3, <1>4 DEF ReadPrevious, notes
<1>6. verb = "disable" => ~def.on
  BY <1>1, <1>2, <1>4 DEF PubInv, Disables, Deciding
<1>7. ~clashed /\ ~reborn => from <= live.rev /\ (offAt > 0 => def # Fresh)
  BY <1>1, <1>3, <1>4, AllFit DEF Fits
<1>8. editor[e].pc # "version"
  BY <1>1
<1>9. QED
  BY <1>2, <1>3, <1>4, <1>5, <1>6, <1>7, <1>8, NextRevInv

(* A pause is no switch-on.                                                *)
LEMMA AutoPauseInv ==
  ASSUME PubInv, StreakInv', NEW e \in Editors, AutoPause(e)
  PROVE  PubInv'
<1> USE DEF notes, Done
<1>1. /\ UNCHANGED <<live, versions, draft, offAt, was, clashed, reborn, unwritten>>
      /\ editor[e].pc = "pause" /\ live.rev < MaxRevision
  BY DEF AutoPause
<1>2. CASE live.rev = 0 \/ live.def.paused
  BY <1>1, <1>2, EndsInv DEF AutoPause
<1>3. CASE ~(live.rev = 0 \/ live.def.paused)
  <2> DEFINE def == [live.def EXCEPT !.paused = TRUE]
  <2>1. def \in Definition /\ def.paused
    BY PubTyped DEF Definition
  <2>2. def # Fresh
    BY <2>1 DEF Fresh
  <2>3. editor' = [editor EXCEPT ![e] =
          [pc |-> "put", verb |-> "pause", from |-> live.rev, def |-> def, rev |-> live.rev + 1]]
    BY <1>3 DEF AutoPause
  <2> HIDE DEF def
  <2>4. "pause" \in Verbs /\ live.rev \in 0..MaxRevision /\ live.rev <= live.rev
    BY PubTyped DEF Verbs
  <2>5. editor[e].pc # "version" /\ ("pause" = "disable" => ~def.on)
    BY <1>1
  <2>6. QED
    BY <1>1, <2>1, <2>2, <2>3, <2>4, <2>5, NextRevInv
<1>4. QED
  BY <1>2, <1>3

-----------------------------------------------------------------------------
(* The steps that change what is published.                                *)

(* A discarded draft stands in nobody's way.                               *)
LEMMA DiscardInv ==
  ASSUME PubInv, StreakInv', Discard
  PROVE  PubInv'
<1> USE DEF Discard, notes
<1>1. PubTypeOK'
  BY DEF PubInv, PubTypeOK
<1>2. Disables' /\ VersionsKept' /\ (Recorded => Recorded')
  BY DEF PubInv, Disables, Deciding, VersionsKept, Recorded
<1>3. (InTurn => InTurn') /\ (StaysOff => StaysOff')
  <2>1. \A n \in Nat : BasedUnder(n) => BasedUnder(n)'
    BY DEF BasedUnder
  <2>2. live.rev + 1 \in Nat /\ offAt \in Nat
    BY PubTyped
  <2>3. PICK n \in Nat : n = live.rev + 1
    BY <2>2
  <2>4. PICK m \in Nat : m = offAt
    BY <2>2
  <2>5. InTurn => InTurn'
    BY <2>1, <2>3 DEF InTurn, Deciding, BasedUnder
  <2>6. StaysOff => StaysOff'
    BY <2>1, <2>4 DEF StaysOff, Deciding, BasedUnder
  <2>7. QED
    BY <2>5, <2>6
<1>4. QED
  BY <1>1, <1>2, <1>3 DEF PubInv

(* A delete starts the revisions over, and nothing is promised from there. *)
LEMMA UnpublishInv ==
  ASSUME PubInv, StreakInv', NEW e \in Editors, Unpublish(e)
  PROVE  PubInv'
<1> USE DEF Unpublish, Advance
<1>1. /\ editor[e] \in [pc : {"promoted", "unpublish", "running", "pause"}]
      /\ editor \in [Editors -> Mine]
  BY PubTyped DEF Mine, Edits, Ready, Rewrites, Puts
<1> DEFINE call == [editor[e] EXCEPT !.pc = "promoted"]
<1>2. call \in Mine /\ call.pc = "promoted"
  BY <1>1 DEF Mine, Edits
<1>3. editor' = [editor EXCEPT ![e] = call]
  OBVIOUS
<1> HIDE DEF call
<1>4. live' \in [rev : 0..MaxRevision, def : Definition] /\ 0 \in 0..MaxRevision
  BY PublishedAssumption DEF PubInv, PubTypeOK
<1>5. PubTypeOK'
  BY <1>2, <1>3, <1>4 DEF PubInv, PubTypeOK, Mine
<1>6. Disables'
  BY <1>1, <1>2, <1>3 DEF PubInv, Disables, Deciding
<1>7. reborn'
  OBVIOUS
<1>8. VersionsKept'
  BY <1>7 DEF VersionsKept
<1>9. QED
  BY <1>5, <1>6, <1>7, <1>8 DEF PubInv

(* A put over the revision its call has read makes the next one.  Under a  *)
(* switch-off no put switches on; a disable that no other call can undo is *)
(* a switch-off that every draft and every call under way is older than.   *)
LEMMA PutLiveInv ==
  ASSUME PubInv, StreakInv', NEW e \in Editors, PutLive(e)
  PROVE  PubInv'
<1> USE DEF PutLive, Advance
<1>1. /\ editor[e] \in Puts /\ editor[e].pc = "put" /\ PubTypeOK /\ editor \in [Editors -> Mine]
      /\ live.rev \in 0..MaxRevision /\ offAt \in 0..MaxRevision
  BY EditTyped, PubTyped DEF PubInv, PubTypeOK
<1> DEFINE call == [editor[e] EXCEPT !.pc = "version"]
<1>2. /\ call.pc = "version" /\ call.rev = editor[e].rev /\ call.def = editor[e].def
      /\ call \in Mine
  BY <1>1 DEF Mine, Edits, Puts
<1>3. /\ editor'[e] = call /\ \A f \in Editors \ {e} : editor'[f] = editor[f]
      /\ editor' = [editor EXCEPT ![e] = call]
  BY <1>1
<1> HIDE DEF call
<1>4. PICK n \in Revisions : n = editor[e].rev
  BY <1>1 DEF Puts
<1>5. PICK def \in Definition : def = editor[e].def
  BY <1>1 DEF Puts
<1>6. /\ live' = [rev |-> n, def |-> def] /\ live'.rev = n /\ live'.def = def
      /\ was' = [was EXCEPT ![n] = def] /\ versions' = versions /\ draft' = draft
      /\ clashed' = (clashed \/ live.rev # editor[e].from)
      /\ reborn' = reborn /\ unwritten' = unwritten
      /\ n \in 0..MaxRevision /\ n \in Nat /\ MaxRevision \in Nat
  BY <1>4, <1>5, PublishedAssumption DEF Revisions
<1>7. \/ offAt' = offAt
      \/ offAt' = n /\ editor[e].verb = "disable" /\ ~Reversing(e)
  BY <1>4
<1>8. PubTypeOK'
  <2>1. was' \in [Revisions -> Definition \cup {Unknown}]
    BY <1>1, <1>6 DEF PubTypeOK
  <2>2. live' \in [rev : 0..MaxRevision, def : Definition] /\ offAt' \in 0..MaxRevision
    BY <1>1, <1>6, <1>7
  <2>3. editor' \in [Editors -> {Ready} \cup Edits]
    BY <1>1, <1>2, <1>3 DEF Mine
  <2>4. QED
    BY <1>1, <1>6, <2>1, <2>2, <2>3 DEF PubTypeOK
<1>9. Disables'
  <2>1. \A f \in Editors : Deciding(f)' => f # e /\ Deciding(f)
    BY <1>2, <1>3 DEF Deciding
  <2>2. QED
    BY <1>3, <2>1 DEF PubInv, Disables
<1>10. ASSUME ~clashed', ~reborn'
       PROVE  /\ ~clashed /\ ~reborn /\ n = live.rev + 1
              /\ InTurn /\ StaysOff /\ Recorded
  <2>1. ~clashed /\ ~reborn /\ live.rev = editor[e].from
    <3>1. ~(clashed \/ live.rev # editor[e].from)
      BY <1>6, <1>10, Zenon
    <3>2. reborn' = reborn
      BY <1>6
    <3>3. QED
      BY <1>10, <3>1, <3>2
  <2>2. InTurn /\ StaysOff /\ Recorded
    BY <2>1 DEF PubInv
  <2>3. live.rev < n /\ n <= live.rev + 1
    BY <1>1, <1>4, <2>1, <2>2 DEF InTurn
  <2>4. QED
    BY <1>1, <1>6, <2>1, <2>2, <2>3
<1>11. VersionsKept'
  <2> SUFFICES ASSUME ~clashed', ~reborn', NEW r \in Revisions, r <= n, r + KeptVersions > n
               PROVE  \/ versions[r] = was'[r] \/ r \in unwritten
                      \/ \E f \in Editors : editor'[f].pc = "version" /\ editor'[f].rev = r
    BY <1>6 DEF VersionsKept
  <2>1. CASE r = n
    BY <1>2, <1>3, <1>4, <2>1
  <2>2. CASE r # n
    <3>1. r <= live.rev /\ r + KeptVersions > live.rev
      BY <1>1, <1>6, <1>10, <2>2, PublishedAssumption DEF Revisions
    <3>2. \/ versions[r] = was[r] \/ r \in unwritten
          \/ \E f \in Editors : editor[f].pc = "version" /\ editor[f].rev = r
      BY <1>10, <3>1 DEF PubInv, VersionsKept
    <3>3. was'[r] = was[r]
      BY <1>1, <1>6, <2>2 DEF PubTypeOK
    <3>4. ASSUME NEW f \in Editors, editor[f].pc = "version", editor[f].rev = r
          PROVE  editor'[f].pc = "version" /\ editor'[f].rev = r
      BY <1>1, <1>3, <3>4
    <3>5. QED
      BY <3>2, <3>3, <3>4
  <2>3. QED
    BY <2>1, <2>2
<1>12. ASSUME ~clashed', ~reborn' PROVE InTurn' /\ StaysOff' /\ Recorded'
  <2> /\ n = live.rev + 1 /\ InTurn /\ StaysOff /\ Recorded
    BY <1>10, <1>12
  <2>1. ASSUME NEW m \in Nat, BasedUnder(m) PROVE BasedUnder(m)'
    BY <1>2, <1>3, <1>6, <2>1 DEF BasedUnder
  <2>2. BasedUnder(n)
    BY DEF InTurn
  <2>3. \A f \in Editors : Deciding(f)' => f # e /\ Deciding(f) /\ editor'[f] = editor[f]
    BY <1>2, <1>3 DEF Deciding
  <2>4. InTurn'
    <3>1. BasedUnder(n + 1)
      <4>1. draft # NoDraft => draft.base < n + 1
        BY <1>6, <2>2, PubTyped DEF BasedUnder, Drafts
      <4>2. \A f \in Editors : editor[f].pc = "draft" => editor[f].base < n + 1
        BY <1>1, <1>6, <2>2, EditTyped DEF BasedUnder
      <4>3. \A f \in Editors : editor[f].pc = "compare" => editor[f].draft.base < n + 1
        BY <1>1, <1>6, <2>2, EditTyped DEF BasedUnder, Drafts
      <4>4. QED
        BY <4>1, <4>2, <4>3 DEF BasedUnder
    <3>2. PICK m \in Nat : m = n + 1
      BY <1>6
    <3>3. BasedUnder(m)'
      BY <2>1, <3>1, <3>2
    <3>4. \A f \in Editors :
            /\ Deciding(f)' => editor'[f].from <= n
            /\ editor'[f].pc = "put" =>
                 editor'[f].from < editor'[f].rev /\ editor'[f].rev <= n + 1
      <4> SUFFICES ASSUME NEW f \in Editors, Deciding(f)'
                   PROVE  /\ editor[f].from <= n
                          /\ editor[f].pc = "put" =>
                               editor[f].from < editor[f].rev /\ editor[f].rev <= n + 1
        BY <2>3 DEF Deciding
      <4>1. /\ editor[f].from \in Nat
            /\ editor[f].pc = "put" => editor[f].rev \in Nat
        BY <1>1, <2>3, EditTyped DEF Deciding, Rewrites, Puts, Revisions
      <4>2. /\ editor[f].from <= live.rev
            /\ editor[f].pc = "put" =>
                 editor[f].from < editor[f].rev /\ editor[f].rev <= live.rev + 1
        BY <2>3 DEF InTurn
      <4>3. QED
        BY <1>1, <4>1, <4>2
    <3>5. QED
      BY <1>6, <3>2, <3>3, <3>4 DEF InTurn, BasedUnder
  <2>5. StaysOff'
    <3>1. CASE offAt' = n /\ editor[e].verb = "disable" /\ ~Reversing(e)
      <4>1. def # Fresh
        BY <1>1, <1>5, <3>1 DEF PubInv, Disables, Deciding, Fresh
      <4>2. \A f \in Editors : ~Deciding(f)'
        BY <2>3, <3>1 DEF Deciding, Reversing
      <4>3. BasedUnder(n)'
        BY <1>6, <2>1, <2>2
      <4>4. QED
        BY <1>6, <3>1, <4>1, <4>2, <4>3 DEF StaysOff, BasedUnder
    <3>2. CASE offAt' = offAt
      <4> SUFFICES ASSUME offAt > 0 PROVE StaysOff'
        BY <3>2 DEF StaysOff
      <4>1. /\ offAt <= live.rev /\ BasedUnder(offAt)
            /\ \A f \in Editors : Deciding(f) => editor[f].def # Fresh
        BY DEF StaysOff
      <4>2. def # Fresh
        BY <1>1, <1>5, <4>1 DEF Deciding
      <4>3. PICK m \in Nat : m = offAt
        BY <1>1
      <4>4. BasedUnder(m)'
        BY <2>1, <4>1, <4>3
      <4>5. \A f \in Editors : Deciding(f)' => editor'[f].def # Fresh
        BY <2>3, <4>1
      <4>6. offAt <= n
        BY <1>1, <4>1
      <4>7. QED
        BY <1>6, <3>2, <4>2, <4>3, <4>4, <4>5, <4>6 DEF StaysOff, BasedUnder
    <3>3. QED
      BY <1>7, <3>1, <3>2
  <2>6. Recorded'
    <3>1. \A r \in Revisions : versions[r] # Unknown => r <= n
      BY <1>1 DEF Recorded, Revisions
    <3>2. ASSUME NEW f \in Editors, editor'[f].pc = "version"
          PROVE  editor'[f].rev <= n /\ was'[editor'[f].rev] = editor'[f].def
      <4>1. CASE f = e
        BY <1>1, <1>2, <1>3, <1>4, <1>5, <1>6, <4>1 DEF PubTypeOK
      <4>2. CASE f # e
        <5>1. editor'[f] = editor[f] /\ editor[f] \in Puts
          BY <1>1, <1>3, <3>2, <4>2, EditTyped
        <5>2. PICK q \in Revisions : q = editor[f].rev
          BY <5>1 DEF Puts
        <5>3. q <= live.rev /\ was[q] = editor[f].def
          BY <3>2, <5>1, <5>2 DEF Recorded
        <5>4. q # n /\ q <= n
          BY <1>1, <5>3 DEF Revisions
        <5>5. was'[q] = was[q]
          BY <1>1, <1>6, <5>4 DEF PubTypeOK
        <5>6. QED
          BY <5>1, <5>2, <5>3, <5>4, <5>5
      <4>3. QED
        BY <4>1, <4>2
    <3>3. QED
      BY <1>6, <3>1, <3>2 DEF Recorded
  <2>7. QED
    BY <2>4, <2>5, <2>6
<1>13. QED
  BY <1>8, <1>9, <1>11, <1>12 DEF PubInv

(* The newest records are within the last MAX_VERSIONS revisions.          *)
LEMMA NewestKept ==
  ASSUME NEW vs, vs \subseteq Nat, NEW top \in Nat, \A r \in vs : r <= top,
         NEW s \in vs, s + KeptVersions > top
  PROVE  s \in Pruned(vs)
<1> DEFINE later == {r \in vs : r > s}
<1>1. s \in Nat /\ later \subseteq (s + 1)..top
  <2>1. s \in Nat
    OBVIOUS
  <2>2. ASSUME NEW r \in vs, r > s PROVE r \in (s + 1)..top
    <3>1. r \in Nat /\ r <= top
      OBVIOUS
    <3>2. QED
      BY <2>1, <2>2, <3>1
  <2>3. QED
    BY <2>1, <2>2
<1>2. IsFiniteSet((s + 1)..top)
  BY <1>1, FS_Interval
<1>3. Cardinality((s + 1)..top) < KeptVersions
  <2>1. Cardinality((s + 1)..top) = IF s + 1 > top THEN 0 ELSE top - (s + 1) + 1
    BY <1>1, FS_Interval
  <2>2. QED
    BY <1>1, <2>1, PublishedAssumption
<1>4. IsFiniteSet(later) /\ Cardinality(later) <= Cardinality((s + 1)..top)
  BY <1>1, <1>2, FS_Subset
<1>5. Cardinality(later) \in Nat /\ Cardinality((s + 1)..top) \in Nat
  BY <1>2, <1>4, FS_CardinalityType
<1>6. Cardinality(later) < KeptVersions
  BY <1>3, <1>4, <1>5, PublishedAssumption
<1>7. QED
  BY <1>6 DEF Pruned

(* The record of a revision is what was live as it; the newest stay.       *)
LEMMA PutVersionInv ==
  ASSUME PubInv, StreakInv', NEW e \in Editors, PutVersion(e)
  PROVE  PubInv'
<1> USE DEF notes
<1>1. /\ editor[e] \in Puts /\ editor[e].pc = "version" /\ PubTypeOK /\ editor \in [Editors -> Mine]
      /\ live.rev \in Nat
  BY EditTyped, PubTyped DEF PutVersion, PubInv
<1>2. PICK n \in Revisions : n = editor[e].rev
  BY <1>1 DEF Puts
<1>3. PICK def \in Definition : def = editor[e].def
  BY <1>1 DEF Puts
<1> DEFINE all == [versions EXCEPT ![n] = def]
           kept == Pruned({s \in Revisions : all[s] # Unknown})
<1>4. versions' = [s \in Revisions |-> IF s \in kept THEN all[s] ELSE Unknown]
  BY <1>2, <1>3 DEF PutVersion
<1>5. /\ UNCHANGED <<live, draft, offAt, was, clashed, reborn, unwritten>>
      /\ editor'[e] \in {Ready, [pc |-> "promoted"]}
      /\ \A f \in Editors \ {e} : editor'[f] = editor[f]
      /\ editor' \in [Editors -> Mine]
  <2>1. Ready \in Mine /\ [pc |-> "promoted"] \in Mine
    BY DEF Mine, Edits
  <2>2. QED
    BY <1>1, <2>1 DEF PutVersion
<1>6. editor'[e].pc \in {"ready", "promoted"}
  BY <1>5 DEF Ready
<1>7. /\ all \in [Revisions -> Definition \cup {Unknown}] /\ all[n] = def
      /\ \A s \in Revisions \ {n} : all[s] = versions[s]
  BY <1>1 DEF PubTypeOK
<1> HIDE DEF all
<1>8. PubTypeOK'
  <2>1. versions' \in [Revisions -> Definition \cup {Unknown}]
    BY <1>4, <1>7
  <2>2. QED
    BY <1>1, <1>5, <2>1 DEF PubTypeOK, Mine
<1>9. Disables'
  BY <1>5, <1>6 DEF PubInv, Disables, Deciding
<1>10. ASSUME ~clashed, ~reborn
       PROVE  /\ was[n] = def /\ n <= live.rev
              /\ \A s \in Revisions : all[s] # Unknown => s <= live.rev
              /\ InTurn /\ StaysOff /\ Recorded
  <2>1. InTurn /\ StaysOff /\ Recorded
    BY <1>10 DEF PubInv
  <2>2. was[n] = def /\ n <= live.rev
    BY <1>1, <1>2, <1>3, <2>1 DEF Recorded
  <2>3. QED
    BY <1>7, <2>1, <2>2 DEF Recorded
<1>11. VersionsKept'
  <2> SUFFICES ASSUME ~clashed, ~reborn, NEW r \in Revisions,
                      r <= live.rev, r + KeptVersions > live.rev
               PROVE  \/ versions'[r] = was[r] \/ r \in unwritten
                      \/ \E f \in Editors : editor'[f].pc = "version" /\ editor'[f].rev = r
    BY <1>5 DEF VersionsKept
  <2>1. versions'[r] = all[r]
    <3>1. CASE all[r] = Unknown
      BY <1>4, <3>1
    <3>2. CASE all[r] # Unknown
      <4> DEFINE vs == {s \in Revisions : all[s] # Unknown}
      <4>1. vs \subseteq Nat /\ r \in vs /\ \A s \in vs : s <= live.rev
        BY <1>10, <3>2 DEF Revisions
      <4>2. r \in Pruned(vs)
        <5> HIDE DEF vs
        <5>1. QED
          BY <1>1, <4>1, NewestKept
      <4>3. QED
        BY <1>4, <4>2
    <3>3. QED
      BY <3>1, <3>2
  <2>2. CASE r = n
    BY <1>7, <1>10, <2>1, <2>2
  <2>3. CASE r # n
    <3>1. \/ versions[r] = was[r] \/ r \in unwritten
          \/ \E f \in Editors : editor[f].pc = "version" /\ editor[f].rev = r
      BY DEF PubInv, VersionsKept
    <3>2. ASSUME NEW f \in Editors, editor[f].pc = "version", editor[f].rev = r
          PROVE  editor'[f].pc = "version" /\ editor'[f].rev = r
      BY <1>2, <1>5, <2>3, <3>2
    <3>3. QED
      BY <1>7, <2>1, <2>3, <3>1, <3>2
  <2>4. QED
    BY <2>2, <2>3
<1>12. ASSUME ~clashed, ~reborn PROVE InTurn' /\ StaysOff' /\ Recorded'
  <2> InTurn /\ StaysOff /\ Recorded
    BY <1>10, <1>12
  <2>1. \A n1 \in Nat : BasedUnder(n1) => BasedUnder(n1)'
    BY <1>5, <1>6 DEF BasedUnder
  <2>2. \A f \in Editors : Deciding(f)' => f # e /\ Deciding(f) /\ editor'[f] = editor[f]
    BY <1>5, <1>6 DEF Deciding
  <2>3. live.rev + 1 \in Nat /\ offAt \in Nat /\ live' = live /\ offAt' = offAt
    BY <1>1, <1>5, PubTyped
  <2>4. InTurn'
    <3>1. PICK m \in Nat : m = live.rev + 1
      BY <2>3
    <3>2. BasedUnder(m)'
      BY <2>1, <3>1 DEF InTurn
    <3>3. \A f \in Editors :
            /\ Deciding(f)' => editor'[f].from <= live.rev
            /\ editor'[f].pc = "put" =>
                 editor'[f].from < editor'[f].rev /\ editor'[f].rev <= live.rev + 1
      BY <1>5, <1>6, <2>2 DEF InTurn
    <3>4. QED
      BY <2>3, <3>1, <3>2, <3>3 DEF InTurn, BasedUnder
  <2>5. StaysOff'
    <3> SUFFICES ASSUME offAt > 0 PROVE StaysOff'
      BY <2>3 DEF StaysOff
    <3>1. PICK m \in Nat : m = offAt
      BY <2>3
    <3>2. BasedUnder(m)'
      BY <2>1, <3>1 DEF StaysOff
    <3>3. QED
      BY <2>2, <2>3, <3>1, <3>2 DEF StaysOff, BasedUnder
  <2>6. Recorded'
    <3>1. \A s \in Revisions : versions'[s] # Unknown => s <= live.rev
      BY <1>4, <1>10, <1>12
    <3>2. ASSUME NEW f \in Editors, editor'[f].pc = "version"
          PROVE  editor'[f].rev <= live.rev /\ was[editor'[f].rev] = editor'[f].def
      BY <1>5, <1>6, <3>2 DEF Recorded
    <3>3. QED
      BY <1>5, <3>1, <3>2 DEF Recorded
  <2>7. QED
    BY <2>4, <2>5, <2>6
<1>13. QED
  BY <1>5, <1>8, <1>9, <1>11, <1>12 DEF PubInv

LEMMA PubStep == PubInv /\ [PubNext]_pubVars => PubInv'
<1> SUFFICES ASSUME PubInv, [PubNext]_pubVars PROVE PubInv'
  OBVIOUS
<1>1. StreakInv'
  BY StreakStep DEF PubInv, PubTypeOK
<1>2. CASE UNCHANGED pubVars
  BY <1>2 DEF pubVars, PubInv, PubTypeOK, StreakInv, StreakCountsEvents, Disables, VersionsKept,
              InTurn, StaysOff,
              Recorded, BasedUnder, Deciding
<1>3. CASE Discard
  BY <1>1, <1>3, DiscardInv
<1>4. ASSUME NEW e \in Editors, EditorNext(e) PROVE PubInv'
  BY <1>1, <1>4, DraftInv, CompareInv, RewriteInv, ResetInv, ReadPreviousInv, PutLiveInv,
     PutVersionInv, UnpublishInv, RunInv DEF EditorNext
<1>5. ASSUME NEW e \in Editors, SweepNext(e) PROVE PubInv'
  BY <1>1, <1>5, RunInv, AutoPauseInv DEF SweepNext
<1>6. QED
  BY <1>2, <1>3, <1>4, <1>5 DEF PubNext

(* Drafts and calls under way come from revisions that were live, a        *)
(* switch-off is newer than all of them, and records are what was live.    *)
THEOREM PublishedInvariant == PubSpec => []PubInv
<1>1. PubInit => PubInv
  BY PubInitInv
<1>2. PubInv /\ [PubNext]_pubVars => PubInv'
  BY PubStep
<1>3. QED
  BY <1>1, <1>2, PTL DEF PubSpec

(* A switch-off holds, whatever draft was saved and whatever call began    *)
(* before it, as long as no put goes over a definition its writer had not  *)
(* read and no delete starts the revisions over.                           *)
THEOREM OffStaysOff == PubSpec => []SwitchHolds
<1>1. PubInv => SwitchHolds
  BY DEF PubInv, StaysOff, SwitchHolds
<1>2. QED
  BY <1>1, PublishedInvariant, PTL

(* The last MAX_VERSIONS revisions have a record that says what was live,  *)
(* but for those whose writer is at it or died before it.                  *)
THEOREM HistoryStays == PubSpec => []VersionsKept
<1>1. PubInv => VersionsKept
  BY DEF PubInv
<1>2. QED
  BY <1>1, PublishedInvariant, PTL
=============================================================================
