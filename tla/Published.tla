----------------------------- MODULE Published -----------------------------
(***************************************************************************)
(* The published definition of one workflow and everybody who rewrites it: *)
(* draft promotion, the switch, tag edits, rollback, delete, and the       *)
(* worker's auto-pause with its failure streak (triggers/published_        *)
(* workflows.py, api/designer_store/, triggers/failure_counts.py).  Every  *)
(* call reads, changes what it read and puts it back without a condition.  *)
(*                                                                         *)
(* Of a definition the model keeps the switch and the pause.               *)
(***************************************************************************)
EXTENDS Naturals, FiniteSets

CONSTANTS
    Editors,     \* invocations of the API function and of the worker
    Failers,     \* events whose runs fail
    Threshold,   \* auto_pause_after
    KeptVersions,\* MAX_VERSIONS
    MaxRevision, \* bound: the highest revision
    MaxFails,    \* bound: the length of a streak
    MaxCalls,    \* bound: calls and runs
    MaxKills     \* bound: invocations that die

ASSUME PublishedAssumption ==
    /\ Threshold \in Nat \ {0} /\ KeptVersions \in Nat \ {0} /\ MaxRevision \in Nat \ {0}
    /\ "nobody" \notin Failers

VARIABLES
    live,       \* the live item: rev (0 when absent) and the definition
    versions,   \* versions[r]: the version record #v<r>, or Unknown
    draft,      \* the draft: the revision it is based on and its switch, or NoDraft
    editor,     \* editor[e]: the call e is in
    streak,     \* the failure counter: fails and last_event
    offAt,      \* history: the revision of the switch-off nobody has meant to reverse, or 0
    was,        \* history: was[r]: the definition last made live as revision r
    clashed,    \* history: a definition was put over one its writer had not read
    reborn,     \* history: deleted and published again
    unwritten,  \* history: revisions whose writer died before the version record
    failed,     \* history: events that failed since the streak began
    recounted,  \* history: failures of one of them again, behind another's
    calls, kills

pubVars == <<live, versions, draft, editor, streak, offAt, was, clashed, reborn,
             unwritten, failed, recounted, calls, kills>>
counter == <<streak, failed, recounted>>
notes == <<was, clashed, reborn, unwritten>>

Revisions == 1..MaxRevision
Definition == [on : BOOLEAN, paused : BOOLEAN]
Unknown == [on |-> FALSE, paused |-> FALSE, missing |-> TRUE]
NoDraft == [base |-> 0, on |-> FALSE, missing |-> TRUE]
Ready == [pc |-> "ready"]
NoStreak == [fails |-> 0, last |-> "nobody"]

(* A streak is the number of events that failed in it, and one more for    *)
(* every time that one of them came back behind another: the guard of      *)
(* record_failure remembers the event counted last and no other, so a      *)
(* redelivery that follows its own failure never counts, and one event     *)
(* alone trips nothing, while a, b, a are three failures.                  *)
StreakCountsEvents ==
    /\ streak.fails = Cardinality(failed) + recounted
    /\ Cardinality(failed) < 2 => recounted = 0

\* What it rests on: the counter knows the event it counted last.
StreakInv ==
    /\ streak \in [fails : Nat, last : Failers \cup {"nobody"}]
    /\ failed \subseteq Failers /\ IsFiniteSet(failed) /\ recounted \in Nat
    /\ IF failed = {} THEN streak.last = "nobody" ELSE streak.last \in failed
    /\ StreakCountsEvents

\* What the calls under way hold.
Drafts == [base : 0..MaxRevision, on : BOOLEAN]
Verbs == {"publish", "enable", "disable", "tags", "rollback", "pause"}
Rewrites == [pc : {"reset", "previous"}, verb : Verbs, from : 0..MaxRevision, def : Definition]
Puts == [pc : {"put", "version"}, verb : Verbs, from : 0..MaxRevision, def : Definition,
         rev : Revisions]
Edits ==
    [pc : {"draft"}, base : 0..MaxRevision, on : BOOLEAN] \cup [pc : {"compare"}, draft : Drafts]
    \cup Rewrites \cup Puts \cup [pc : {"promoted", "unpublish", "running", "pause"}]

PubTypeOK ==
    /\ live \in [rev : 0..MaxRevision, def : Definition]
    /\ versions \in [Revisions -> Definition \cup {Unknown}]
    /\ was \in [Revisions -> Definition \cup {Unknown}]
    /\ draft \in {NoDraft} \cup Drafts
    /\ editor \in [Editors -> {Ready} \cup Edits]
    /\ offAt \in 0..MaxRevision /\ StreakInv

Fresh == [on |-> TRUE, paused |-> FALSE]

PubInit ==
    /\ live = [rev |-> 1, def |-> Fresh]
    /\ versions = [r \in Revisions |-> IF r = 1 THEN Fresh ELSE Unknown]
    /\ was = versions
    /\ draft = NoDraft
    /\ editor = [e \in Editors |-> Ready]
    /\ streak = NoStreak /\ failed = {} /\ recounted = 0
    /\ offAt = 0 /\ clashed = FALSE /\ reborn = FALSE /\ unwritten = {} /\ calls = 0 /\ kills = 0

Begin(e, call) ==
    /\ editor[e] = Ready /\ calls < MaxCalls
    /\ editor' = [editor EXCEPT ![e] = call] /\ calls' = calls + 1
Advance(e, pc) == editor' = [editor EXCEPT ![e].pc = pc]
Done(e) == editor' = [editor EXCEPT ![e] = Ready]

-----------------------------------------------------------------------------
(* Drafts.                                                                 *)

\* api_save without live: the base is read, the draft put, last write wins.
BeginDraft(e, on) ==
    /\ Begin(e, [pc |-> "draft", base |-> live.rev, on |-> on])
    /\ offAt' = 0
    /\ UNCHANGED <<live, versions, draft, counter, notes, kills>>

PutDraft(e) ==
    /\ editor[e].pc = "draft"
    /\ draft' = [base |-> editor[e].base, on |-> editor[e].on]
    /\ Done(e)
    /\ UNCHANGED <<live, versions, counter, offAt, notes, calls, kills>>

\* api_discard.
Discard ==
    /\ draft # NoDraft /\ draft' = NoDraft
    /\ UNCHANGED <<live, versions, editor, counter, offAt, notes, calls, kills>>

\* api_publish: the draft is read ...
BeginPublish(e) ==
    /\ draft # NoDraft
    /\ Begin(e, [pc |-> "compare", draft |-> draft])
    /\ UNCHANGED <<live, versions, draft, counter, offAt, notes, kills>>

\* ... and refused when the live revision has moved past its base.
\* Mutant: it is never refused.
StaleNever(d) == FALSE
Stale(d) == d.base < live.rev

Compare(e) ==
    /\ editor[e].pc = "compare"
    /\ LET d == editor[e].draft IN
         IF Stale(d) THEN Done(e)
         ELSE editor' = [editor EXCEPT ![e] =
                [pc |-> "previous", verb |-> "publish", from |-> live.rev,
                 def |-> [on |-> d.on, paused |-> FALSE]]]
    /\ UNCHANGED <<live, versions, draft, counter, offAt, notes, calls, kills>>

-----------------------------------------------------------------------------
(* Rewriting the live definition.                                          *)

\* api_toggle and api_tags / api_folder: the definition is read ...
Rewritten(verb) ==
    CASE verb = "enable" -> [on |-> TRUE, paused |-> FALSE]
      [] verb = "disable" -> [live.def EXCEPT !.on = FALSE]
      [] OTHER -> live.def

BeginRewrite(e, verb) ==
    /\ live.rev > 0
    /\ Begin(e, [pc |-> IF verb = "enable" THEN "reset" ELSE "previous", verb |-> verb,
                 from |-> live.rev, def |-> Rewritten(verb)])
    /\ offAt' = IF verb = "enable" THEN 0 ELSE offAt
    /\ UNCHANGED <<live, versions, draft, counter, notes, kills>>

\* ... an enable zeroes the streak ...
ResetForEnable(e) ==
    /\ editor[e].pc = "reset"
    /\ streak' = NoStreak /\ failed' = {} /\ recounted' = 0
    /\ Advance(e, "previous")
    /\ UNCHANGED <<live, versions, draft, offAt, notes, calls, kills>>

\* ... and the item is read again for its revision.
ReadPrevious(e) ==
    /\ editor[e].pc = "previous" /\ live.rev < MaxRevision
    /\ editor' = [editor EXCEPT ![e] =
         [pc |-> "put", verb |-> @.verb, from |-> @.from, def |-> @.def, rev |-> live.rev + 1]]
    /\ UNCHANGED <<live, versions, draft, counter, offAt, notes, calls, kills>>

\* api_rollback: the version's switch comes back, its pause does not.
BeginRollback(e, r) ==
    /\ live.rev > 0 /\ versions[r] # Unknown
    /\ Begin(e, [pc |-> "previous", verb |-> "rollback", from |-> live.rev,
                 def |-> [on |-> versions[r].on, paused |-> FALSE]])
    /\ offAt' = 0
    /\ UNCHANGED <<live, versions, draft, counter, notes, kills>>

\* The calls under way whose put would undo a switch-off.
Reversing(e) == \E f \in Editors \ {e} : editor[f].pc \in {"compare", "reset", "previous", "put"}

\* publish: the live item is put.
PutLive(e) ==
    /\ editor[e].pc = "put"
    /\ live' = [rev |-> editor[e].rev, def |-> editor[e].def]
    /\ was' = [was EXCEPT ![editor[e].rev] = editor[e].def]
    /\ clashed' = (clashed \/ live.rev # editor[e].from)
    /\ offAt' = IF editor[e].verb = "disable" /\ ~Reversing(e) THEN editor[e].rev ELSE offAt
    /\ Advance(e, "version")
    /\ UNCHANGED <<versions, draft, counter, reborn, unwritten, calls, kills>>

\* _prune_versions.  Mutant: one record too many goes.
PrunedShort(vs) == {r \in vs : Cardinality({s \in vs : s > r}) + 1 < KeptVersions}
Pruned(vs) == {r \in vs : Cardinality({s \in vs : s > r}) < KeptVersions}

\* The version record follows, and the history is cut to MAX_VERSIONS; then
\* the call has succeeded.
PutVersion(e) ==
    /\ editor[e].pc = "version"
    /\ LET r == editor[e].rev
           all == [versions EXCEPT ![r] = editor[e].def]
           kept == Pruned({s \in Revisions : all[s] # Unknown})
       IN  versions' = [s \in Revisions |-> IF s \in kept THEN all[s] ELSE Unknown]
    /\ editor' = [editor EXCEPT ![e] =
         IF @.verb = "publish" THEN [pc |-> "promoted"] ELSE Ready]
    /\ UNCHANGED <<live, draft, counter, offAt, notes, calls, kills>>

\* Whatever draft is there by now is removed.
DropPromoted(e) ==
    /\ editor[e].pc = "promoted"
    /\ draft' = NoDraft
    /\ Done(e)
    /\ UNCHANGED <<live, versions, counter, offAt, notes, calls, kills>>

-----------------------------------------------------------------------------
(* api_delete: the live item, then its draft; the version records stay.    *)

BeginDelete(e) ==
    /\ live.rev > 0
    /\ Begin(e, [pc |-> "unpublish"])
    /\ UNCHANGED <<live, versions, draft, counter, offAt, notes, kills>>

Unpublish(e) ==
    /\ editor[e].pc = "unpublish"
    /\ live' = [live EXCEPT !.rev = 0]
    /\ offAt' = 0 /\ reborn' = TRUE
    /\ Advance(e, "promoted")
    /\ UNCHANGED <<versions, draft, counter, was, clashed, unwritten, calls, kills>>

-----------------------------------------------------------------------------
(* The worker.                                                             *)

\* A sweep matches the workflow.
BeginRun(e) ==
    /\ live.rev > 0 /\ live.def = Fresh
    /\ Begin(e, [pc |-> "running"])
    /\ UNCHANGED <<live, versions, draft, counter, offAt, notes, kills>>

RunCompletes(e) ==
    /\ editor[e].pc = "running"
    /\ streak' = NoStreak /\ failed' = {} /\ recounted' = 0
    /\ Done(e)
    /\ UNCHANGED <<live, versions, draft, offAt, notes, calls, kills>>

\* record_failure: the event counted last does not count again.
\* Mutant: every failure counts.
CountsAlways(ev) == TRUE
Counts(ev) == streak.last # ev

\* The failure path of a delivery; a redelivery of ev comes here again.
RunFails(e, ev) ==
    /\ editor[e].pc = "running" /\ streak.fails < MaxFails
    /\ failed' = failed \cup {ev}
    /\ recounted' = IF ev \in failed /\ streak.last # ev THEN recounted + 1 ELSE recounted
    /\ IF Counts(ev)
         THEN /\ streak' = [fails |-> streak.fails + 1, last |-> ev]
              /\ IF streak'.fails >= Threshold THEN Advance(e, "pause") ELSE Done(e)
         ELSE Done(e) /\ UNCHANGED streak
    /\ UNCHANGED <<live, versions, draft, offAt, notes, calls, kills>>

\* api_auto_pause: one read, unless there is nothing to pause.
AutoPause(e) ==
    /\ editor[e].pc = "pause" /\ live.rev < MaxRevision
    /\ IF live.rev = 0 \/ live.def.paused THEN Done(e)
       ELSE editor' = [editor EXCEPT ![e] =
              [pc |-> "put", verb |-> "pause", from |-> live.rev,
               def |-> [live.def EXCEPT !.paused = TRUE], rev |-> live.rev + 1]]
    /\ UNCHANGED <<live, versions, draft, counter, offAt, notes, calls, kills>>

\* An invocation dies, or a call of the table fails.
Kill(e) ==
    /\ editor[e] # Ready /\ kills < MaxKills
    /\ kills' = kills + 1
    /\ unwritten' = IF editor[e].pc = "version" THEN unwritten \cup {editor[e].rev} ELSE unwritten
    /\ Done(e)
    /\ UNCHANGED <<live, versions, draft, counter, offAt, was, clashed, reborn, calls>>

-----------------------------------------------------------------------------

EditorNext(e) ==
    \/ \E on \in BOOLEAN : BeginDraft(e, on)
    \/ PutDraft(e) \/ BeginPublish(e) \/ Compare(e)
    \/ \E verb \in {"enable", "disable", "tags"} : BeginRewrite(e, verb)
    \/ ResetForEnable(e) \/ ReadPrevious(e) \/ PutLive(e) \/ PutVersion(e) \/ DropPromoted(e)
    \/ \E r \in Revisions : BeginRollback(e, r)
    \/ BeginDelete(e) \/ Unpublish(e) \/ Kill(e)

SweepNext(e) ==
    \/ BeginRun(e) \/ RunCompletes(e) \/ AutoPause(e)
    \/ \E ev \in Failers : RunFails(e, ev)

PubNext == Discard \/ \E e \in Editors : EditorNext(e) \/ SweepNext(e)

PubSpec == PubInit /\ [][PubNext]_pubVars

-----------------------------------------------------------------------------

(* A switch-off holds until somebody enables, rolls back, deletes or saves *)
(* a new draft: no draft saved before it is promoted over it, and the      *)
(* auto-pause keeps it (api_publish's stale guard, api_auto_pause).  Calls *)
(* under way at the switch, two calls that put over each other's unread    *)
(* definition, and a delete, after which the revisions start over, break   *)
(* it.                                                                     *)
SwitchHolds == offAt > 0 /\ ~clashed /\ ~reborn => ~(live.rev > 0 /\ live.def = Fresh)

(* The last MAX_VERSIONS revisions can be rolled back to, each as it was   *)
(* live, unless its writer died before the version record; calls that      *)
(* overwrite each other, and a former life of a deleted workflow, whose    *)
(* higher revisions outlive the new ones in _prune_versions, break it.     *)
VersionsKept ==
    ~clashed /\ ~reborn =>
        \A r \in Revisions :
            r <= live.rev /\ r + KeptVersions > live.rev =>
                \/ versions[r] = was[r] \/ r \in unwritten
                \/ \E e \in Editors : editor[e].pc = "version" /\ editor[e].rev = r

\* What SwitchHolds and VersionsKept rest on, while no put went over another
\* and no delete started the revisions over.  Drafts and calls under way come
\* from revisions that were live; a switch-off is live, or what replaced it is
\* no switch-on, and every draft is older and nobody is about to put the
\* workflow on; a version that waits for its record is the one that was live.
BasedUnder(n) ==
    /\ draft # NoDraft => draft.base < n
    /\ \A e \in Editors :
         /\ editor[e].pc = "draft" => editor[e].base < n
         /\ editor[e].pc = "compare" => editor[e].draft.base < n
Deciding(e) == editor[e].pc \in {"reset", "previous", "put"}
Disables == \A e \in Editors : Deciding(e) /\ editor[e].verb = "disable" => ~editor[e].def.on
InTurn ==
    /\ BasedUnder(live.rev + 1)
    /\ \A e \in Editors :
         /\ Deciding(e) => editor[e].from <= live.rev
         /\ editor[e].pc = "put" => editor[e].from < editor[e].rev /\ editor[e].rev <= live.rev + 1
StaysOff == offAt > 0 =>
    /\ offAt <= live.rev /\ live.def # Fresh /\ BasedUnder(offAt)
    /\ \A e \in Editors : Deciding(e) => editor[e].def # Fresh
Recorded ==
    /\ \A r \in Revisions : versions[r] # Unknown => r <= live.rev
    /\ \A e \in Editors : editor[e].pc = "version" =>
         editor[e].rev <= live.rev /\ was[editor[e].rev] = editor[e].def
PubInv ==
    /\ PubTypeOK /\ Disables /\ VersionsKept
    /\ ~clashed /\ ~reborn => InTurn /\ StaysOff /\ Recorded
=============================================================================
