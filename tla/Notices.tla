------------------------------- MODULE Notices -------------------------------
(***************************************************************************)
(* The mails about failed runs of one workflow (engine/notify.py, and      *)
(* _emit_failure_notice of engine/worker.py): a conditional put claims the *)
(* mail, a failed send drops the claim, and the notice that the failure    *)
(* paused the workflow follows the one about the run.  The workflow has an *)
(* address to write to.                                                    *)
(***************************************************************************)
EXTENDS Naturals, Functions

CONSTANTS
    FailedRuns,     \* runs of the workflow that fail
    Parked,         \* the ones that fail in a continuation
    Reporters,      \* invocations that report failures concurrently
    NoKey,          \* the id of an envelope without an id
    MaxReports,     \* bound: failing deliveries, from the third receive of a run on
    MaxMishaps      \* bound: calls that fail or lose their reply, invocations that die

ASSUME NoticesAssumption == Parked \subseteq FailedRuns /\ NoKey \notin FailedRuns

VARIABLES
    claims,     \* the notice items of the executions table
    mails,      \* mails[r][kind]: mails that went out
    reporter,   \* reporter[w]: the notice an invocation is at
    reports,    \* reports[r]: failing deliveries of r that reported it
    pauses,     \* runs whose failure paused the workflow
    unheard,    \* history: mails that went out under a call that failed
    stranded,   \* history: claims that nobody will drop or honour
    missed,     \* history: notices whose latest attempt came to nothing
    mishaps

noticeVars == <<claims, mails, reporter, reports, pauses, unheard, stranded, missed, mishaps>>

Kinds == {"failure", "pause"}
Off == [pc |-> "off"]

NoticeTypeOK ==
    /\ claims \cup stranded \subseteq Kinds \X (FailedRuns \cup {NoKey})
    /\ pauses \subseteq FailedRuns
    /\ mails \in [FailedRuns -> [Kinds -> Nat]] /\ unheard \in [FailedRuns -> [Kinds -> Nat]]
    /\ reporter \in [Reporters -> {Off} \cup
         [pc : {"claim", "send", "release"}, run : FailedRuns, kind : Kinds, paused : BOOLEAN]]

NoticeInit ==
    /\ claims = {} /\ stranded = {} /\ missed = {} /\ pauses = {}
    /\ mails = [r \in FailedRuns |-> [k \in Kinds |-> 0]]
    /\ unheard = [r \in FailedRuns |-> [k \in Kinds |-> 0]]
    /\ reporter = [w \in Reporters |-> Off]
    /\ reports = [r \in FailedRuns |-> 0] /\ mishaps = 0

\* event.get("id"): the envelope of a continuation has none of its own.
Id(r) == IF r \in Parked THEN NoKey ELSE r
KeyOf(w) == <<reporter[w].kind, Id(reporter[w].run)>>
NoticeOf(w) == <<reporter[w].kind, reporter[w].run>>

Stands(w, pc) == reporter[w].pc = pc
Goes(w, pc) == reporter' = [reporter EXCEPT ![w].pc = pc]

\* Behind the notice about the run comes the one about the pause, if this very
\* failure paused the workflow.
NoticeDone(w) ==
    reporter' = [reporter EXCEPT ![w] =
        IF @.kind = "failure" /\ @.paused THEN [@ EXCEPT !.pc = "claim", !.kind = "pause"] ELSE Off]

Sent(count, w) == [count EXCEPT ![reporter[w].run][reporter[w].kind] = @ + 1]
Mishap == mishaps < MaxMishaps /\ mishaps' = mishaps + 1

\* Whether the conditional put passes.  Mutant: the put has no condition.
UnclaimedAtAll(w) == TRUE
Unclaimed(w) == KeyOf(w) \notin claims

-----------------------------------------------------------------------------

\* A delivery of r fails for good.  _auto_pause_on_failure counts an event once.
Report(w, r, paused) ==
    /\ reporter[w] = Off /\ FoldFunction(+, 0, reports) < MaxReports
    /\ paused => r \notin pauses
    /\ reports' = [reports EXCEPT ![r] = @ + 1]
    /\ pauses' = IF paused THEN pauses \cup {r} ELSE pauses
    /\ reporter' = [reporter EXCEPT ![w] =
         [pc |-> "claim", run |-> r, kind |-> "failure", paused |-> paused]]
    /\ missed' = IF \A v \in Reporters : reporter[v] = Off THEN missed \ {<<"failure", r>>} ELSE missed
    /\ UNCHANGED <<claims, mails, unheard, stranded, mishaps>>

\* _claim_notice: the put passes ...
Claim(w) ==
    /\ Stands(w, "claim") /\ Unclaimed(w)
    /\ claims' = claims \cup {KeyOf(w)}
    /\ Goes(w, "send")
    /\ UNCHANGED <<mails, reports, pauses, unheard, stranded, missed, mishaps>>

\* ... or the mail is somebody else's business ...
ClaimRefused(w) ==
    /\ Stands(w, "claim") /\ ~Unclaimed(w)
    /\ NoticeDone(w)
    /\ UNCHANGED <<claims, mails, reports, pauses, unheard, stranded, missed, mishaps>>

\* ... or its own claim refuses it: the reply was lost and the client retried ...
ClaimUnheard(w) ==
    /\ Stands(w, "claim") /\ Unclaimed(w) /\ Mishap
    /\ claims' = claims \cup {KeyOf(w)} /\ stranded' = stranded \cup {KeyOf(w)}
    /\ NoticeDone(w)
    /\ UNCHANGED <<mails, reports, pauses, unheard, missed>>

\* ... or it raises, and no notice behind it is tried.
ClaimRaises(w) ==
    /\ Stands(w, "claim") /\ Mishap
    /\ reporter' = [reporter EXCEPT ![w] = Off]
    /\ missed' = missed \cup {NoticeOf(w)} \cup
         (IF reporter[w].paused THEN {<<"pause", reporter[w].run>>} ELSE {})
    /\ UNCHANGED <<claims, mails, reports, pauses, unheard, stranded>>

Send(w) ==
    /\ Stands(w, "send")
    /\ mails' = Sent(mails, w)
    /\ NoticeDone(w)
    /\ UNCHANGED <<claims, reports, pauses, unheard, stranded, missed, mishaps>>

\* The call to SES fails, with the mail out or not.
SendFails(w) ==
    /\ Stands(w, "send") /\ Mishap
    /\ \/ mails' = Sent(mails, w) /\ unheard' = Sent(unheard, w)
       \/ UNCHANGED <<mails, unheard>>
    /\ missed' = missed \cup {NoticeOf(w)}
    /\ Goes(w, "release")
    /\ UNCHANGED <<claims, reports, pauses, stranded>>

\* Mutant: the claim stays.
KeepClaim(w) ==
    /\ Stands(w, "release")
    /\ NoticeDone(w)
    /\ UNCHANGED <<claims, mails, reports, pauses, unheard, stranded, missed, mishaps>>

\* _release_notice: the next attempt may send.
ReleaseNotice(w) ==
    /\ Stands(w, "release")
    /\ claims' = claims \ {KeyOf(w)}
    /\ NoticeDone(w)
    /\ UNCHANGED <<mails, reports, pauses, unheard, stranded, missed, mishaps>>

ReleaseFails(w) ==
    /\ Stands(w, "release") /\ Mishap
    /\ stranded' = stranded \cup {KeyOf(w)}
    /\ NoticeDone(w)
    /\ UNCHANGED <<claims, mails, reports, pauses, unheard, missed>>

\* The invocation dies: what it claimed stays, what it would have said is lost.
Dies(w) ==
    /\ reporter[w] # Off /\ Mishap
    /\ stranded' = IF Stands(w, "claim") THEN stranded ELSE stranded \cup {KeyOf(w)}
    /\ missed' = missed \cup {NoticeOf(w)} \cup
         (IF reporter[w].paused THEN {<<"pause", reporter[w].run>>} ELSE {})
    /\ reporter' = [reporter EXCEPT ![w] = Off]
    /\ UNCHANGED <<claims, mails, reports, pauses, unheard>>

NoticeNext == \E w \in Reporters :
    \/ \E r \in FailedRuns, paused \in BOOLEAN : Report(w, r, paused)
    \/ Claim(w) \/ ClaimRefused(w) \/ ClaimUnheard(w) \/ ClaimRaises(w)
    \/ Send(w) \/ SendFails(w) \/ ReleaseNotice(w) \/ ReleaseFails(w) \/ Dies(w)

NoticeSpec == NoticeInit /\ [][NoticeNext]_noticeVars

-----------------------------------------------------------------------------

(* Delivery is at most once per run, however often it is redelivered and   *)
(* by how many invocations at once: a second mail goes out only when the   *)
(* call that sent the first one failed without saying that it had.         *)
OneMail ==
    \A r \in FailedRuns, k \in Kinds : mails[r][k] <= 1 + unheard[r][k]

\* What OneMail rests on: the claim that is being honoured or dropped is there
\* and is nobody else's, and no mail went out under a claim that is not there
\* or is still to be honoured.
Holds(w) == reporter[w].pc \in {"send", "release"}
HoldersClaim ==
    \A w \in Reporters : Holds(w) =>
        /\ KeyOf(w) \in claims
        /\ \A v \in Reporters : Holds(v) /\ KeyOf(v) = KeyOf(w) => v = w
Untold(r, k) == mails[r][k] = unheard[r][k]
ClaimTells ==
    \A r \in FailedRuns, k \in Kinds :
        <<k, Id(r)>> \notin claims \/ (\E w \in Reporters : Holds(w) /\ KeyOf(w) = <<k, Id(r)>>)
          => Untold(r, k)
NoticeInv == NoticeTypeOK /\ OneMail /\ HoldersClaim /\ ClaimTells

\* One claim stands for all parked runs of the workflow.
SharedClaim(r) == r \in Parked /\ \E q \in Parked \ {r} : reports[q] > 0

Due(r, k) == (k = "failure" /\ reports[r] > 0) \/ (k = "pause" /\ r \in pauses)
Told(r, k) ==
    mails[r][k] > 0 \/ <<k, r>> \in missed \/ <<k, Id(r)>> \in stranded \/ SharedClaim(r)

(* A failed run is told, and a failed send is made good by the next        *)
(* delivery that reports the run alone: the claim is not left behind.  The *)
(* exceptions are a claim that its holder could neither honour nor drop,   *)
(* and the runs that fail in a continuation: the claim reads the id of the *)
(* envelope, which has none, so the first of them speaks for all.  A       *)
(* notice of a pause gets one attempt: no later delivery pauses again.     *)
FailedIsTold ==
    (\A w \in Reporters : reporter[w] = Off) =>
        \A r \in FailedRuns, k \in Kinds : Due(r, k) => Told(r, k)

\* What it rests on: a notice that is due was told, or somebody is still at it,
\* and a claim is being honoured, or was honoured, or nobody will.
IsAt(w, r, k) ==
    /\ reporter[w] # Off /\ reporter[w].run = r
    /\ reporter[w].kind = k \/ (k = "pause" /\ reporter[w].kind = "failure" /\ reporter[w].paused)
Honoured(k, id) ==
    \/ <<k, id>> \in stranded
    \/ \E w \in Reporters : Holds(w) /\ KeyOf(w) = <<k, id>>
    \/ \E r \in FailedRuns : Id(r) = id /\ mails[r][k] > 0
TellInv ==
    /\ reports \in [FailedRuns -> Nat]
    /\ \A w \in Reporters : reporter[w] # Off => reports[reporter[w].run] > 0
    /\ \A r \in FailedRuns, k \in Kinds : mails[r][k] > 0 => reports[r] > 0
    /\ \A w \in Reporters : Stands(w, "release") => NoticeOf(w) \in missed
    /\ \A r \in FailedRuns, k \in Kinds : <<k, Id(r)>> \in claims => Honoured(k, Id(r))
    /\ \A r \in FailedRuns, k \in Kinds :
         Due(r, k) => Told(r, k) \/ \E w \in Reporters : IsAt(w, r, k)
=============================================================================
