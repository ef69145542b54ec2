--------------------------- MODULE Notices_proofs ---------------------------
(***************************************************************************)
(* The notices, for every number of failing runs, continuations and        *)
(* invocations and any number of mishaps: at most one mail for a run,      *)
(* except behind a send that failed with the mail out, and no failure that *)
(* stays untold while its notices are due and nothing goes wrong.          *)
(***************************************************************************)
EXTENDS Notices, TLAPS

Reporting == [pc : {"claim", "send", "release"}, run : FailedRuns, kind : Kinds, paused : BOOLEAN]

(* Nobody has claimed or sent anything.                                    *)
LEMMA NoticeInitInv == NoticeInit => NoticeInv
<1> SUFFICES ASSUME NoticeInit PROVE NoticeInv
  OBVIOUS
<1> USE DEF NoticeInit
<1>1. NoticeTypeOK
  BY DEF NoticeTypeOK
<1>2. OneMail /\ ClaimTells
  BY DEF OneMail, ClaimTells, Untold
<1>3. HoldersClaim
  BY DEF HoldersClaim, Holds, Off
<1>4. QED
  BY <1>1, <1>2, <1>3 DEF NoticeInv

-----------------------------------------------------------------------------
(* What the steps have in common.                                          *)

(* An id of a run, or none.                                                *)
LEMMA KeysTyped ==
  ASSUME NoticeInv, NEW w \in Reporters, reporter[w] # Off
  PROVE  /\ reporter[w] \in Reporting
         /\ KeyOf(w) \in Kinds \X (FailedRuns \cup {NoKey})
         /\ NoticeOf(w) \in Kinds \X FailedRuns
BY DEF NoticeInv, NoticeTypeOK, Reporting, KeyOf, NoticeOf, Id

(* An invocation that ends a notice begins the next one or is through.     *)
LEMMA DoneLetsGo ==
  ASSUME NoticeInv, NEW w \in Reporters, reporter[w] # Off, NoticeDone(w)
  PROVE  /\ reporter' \in [Reporters -> {Off} \cup Reporting]
         /\ ~Holds(w)'
         /\ \A v \in Reporters \ {w} : reporter'[v] = reporter[v]
<1>1. reporter \in [Reporters -> {Off} \cup Reporting] /\ reporter[w] \in Reporting
  BY KeysTyped DEF NoticeInv, NoticeTypeOK, Reporting
<1>2. [reporter[w] EXCEPT !.pc = "claim", !.kind = "pause"] \in Reporting
  BY <1>1 DEF Reporting, Kinds
<1>3. reporter'[w] = Off \/ reporter'[w] = [reporter[w] EXCEPT !.pc = "claim", !.kind = "pause"]
  BY <1>1 DEF NoticeDone
<1>4. reporter'[w].pc \in {"off", "claim"}
  <2>1. CASE reporter'[w] = Off
    BY <2>1 DEF Off
  <2>2. CASE reporter'[w] = [reporter[w] EXCEPT !.pc = "claim", !.kind = "pause"]
    <3>1. reporter'[w].pc = "claim"
      BY <1>1, <2>2 DEF Reporting
    <3>2. QED
      BY <3>1
  <2>3. QED
    BY <1>3, <2>1, <2>2
<1>5. ~Holds(w)'
  BY <1>4 DEF Holds
<1>6. QED
  BY <1>1, <1>2, <1>3, <1>5 DEF NoticeDone

(* An invocation that lets its claim lie takes nothing from the others.    *)
LEMMA LettingGo ==
  ASSUME NoticeInv, NEW w \in Reporters, ~Holds(w)',
         \A v \in Reporters \ {w} : reporter'[v] = reporter[v],
         claims \subseteq claims', mails' = mails, unheard' = unheard
  PROVE  OneMail' /\ HoldersClaim' /\ ClaimTells'
<1>1. \A v \in Reporters : Holds(v)' => Holds(v) /\ KeyOf(v)' = KeyOf(v)
  BY DEF Holds, KeyOf, Id
<1>2. OneMail'
  BY DEF NoticeInv, OneMail
<1>3. HoldersClaim'
  BY <1>1 DEF NoticeInv, HoldersClaim
<1>4. ClaimTells'
  BY <1>1 DEF NoticeInv, ClaimTells, Untold, Id
<1>5. QED
  BY <1>2, <1>3, <1>4

-----------------------------------------------------------------------------
(* The steps that let a claim lie, or have none.                           *)

(* A delivery fails and begins with the notice about its run.              *)
LEMMA ReportInv ==
  ASSUME NoticeInv, NEW w \in Reporters, NEW r \in FailedRuns, NEW paused \in BOOLEAN,
         Report(w, r, paused)
  PROVE  NoticeInv'
<1> USE DEF Report
<1>1. [pc |-> "claim", run |-> r, kind |-> "failure", paused |-> paused] \in Reporting
  BY DEF Reporting, Kinds
<1>2. NoticeTypeOK'
  BY <1>1 DEF NoticeInv, NoticeTypeOK, Reporting
<1>3. ~Holds(w)' /\ \A v \in Reporters \ {w} : reporter'[v] = reporter[v]
  BY DEF Holds, NoticeInv, NoticeTypeOK
<1>4. QED
  BY <1>2, <1>3, LettingGo DEF NoticeInv

(* The claim is refused, or its reply is lost, or the claim stays behind.  *)
LEMMA NoticeEndsInv ==
  ASSUME NoticeInv, NEW w \in Reporters, ClaimRefused(w) \/ ClaimUnheard(w) \/ ReleaseFails(w)
  PROVE  NoticeInv'
<1> USE DEF ClaimRefused, ClaimUnheard, ReleaseFails
<1>1. reporter[w] # Off /\ NoticeDone(w)
  BY DEF Stands, Off
<1>2. /\ reporter' \in [Reporters -> {Off} \cup Reporting]
      /\ ~Holds(w)' /\ \A v \in Reporters \ {w} : reporter'[v] = reporter[v]
  BY <1>1, DoneLetsGo
<1>3. /\ claims' \cup stranded' \subseteq Kinds \X (FailedRuns \cup {NoKey})
      /\ claims \subseteq claims' /\ mails' = mails /\ unheard' = unheard /\ pauses' = pauses
  <2>1. KeyOf(w) \in Kinds \X (FailedRuns \cup {NoKey})
    BY <1>1, KeysTyped
  <2>2. QED
    BY <2>1 DEF NoticeInv, NoticeTypeOK
<1>4. NoticeTypeOK'
  BY <1>2, <1>3 DEF NoticeInv, NoticeTypeOK, Reporting
<1>5. QED
  BY <1>2, <1>3, <1>4, LettingGo DEF NoticeInv

(* The invocation breaks off, on a claim that raises or altogether.        *)
LEMMA BreaksOffInv ==
  ASSUME NoticeInv, NEW w \in Reporters, ClaimRaises(w) \/ Dies(w)
  PROVE  NoticeInv'
<1> USE DEF ClaimRaises, Dies
<1>1. reporter' = [reporter EXCEPT ![w] = Off]
  OBVIOUS
<1>2. ~Holds(w)' /\ \A v \in Reporters \ {w} : reporter'[v] = reporter[v]
  BY <1>1 DEF Holds, Off, NoticeInv, NoticeTypeOK
<1>3. claims' = claims /\ stranded' \subseteq stranded \cup {KeyOf(w)}
  OBVIOUS
<1>4. KeyOf(w) \in Kinds \X (FailedRuns \cup {NoKey})
  BY KeysTyped DEF Stands, Off
<1>5. NoticeTypeOK'
  BY <1>1, <1>3, <1>4 DEF NoticeInv, NoticeTypeOK
<1>6. QED
  BY <1>2, <1>5, LettingGo DEF NoticeInv

-----------------------------------------------------------------------------
(* The steps of a claim that is honoured or dropped.                       *)

(* The put passes: the claim was not there, so nothing went out under it.  *)
LEMMA ClaimInv ==
  ASSUME NoticeInv, NEW w \in Reporters, Claim(w)
  PROVE  NoticeInv'
<1> USE DEF Claim, Stands, Goes, Unclaimed
<1>1. /\ reporter[w] \in Reporting /\ reporter[w].pc = "claim"
      /\ KeyOf(w) \in Kinds \X (FailedRuns \cup {NoKey}) /\ KeyOf(w) \notin claims
  BY KeysTyped DEF Off
<1>2. /\ reporter'[w] = [reporter[w] EXCEPT !.pc = "send"]
      /\ \A v \in Reporters \ {w} : reporter'[v] = reporter[v]
  BY DEF NoticeInv, NoticeTypeOK
<1>3. NoticeTypeOK'
  <2>1. [reporter[w] EXCEPT !.pc = "send"] \in Reporting
    BY <1>1 DEF Reporting
  <2>2. QED
    BY <1>1, <2>1 DEF NoticeInv, NoticeTypeOK, Reporting
<1>4. \A v \in Reporters : KeyOf(v)' = KeyOf(v)
  BY <1>1, <1>2 DEF KeyOf, Id, Reporting
<1>5. \A v \in Reporters \ {w} : Holds(v)' = Holds(v) /\ (Holds(v) => KeyOf(v) # KeyOf(w))
  BY <1>1, <1>2 DEF Holds, NoticeInv, HoldersClaim
<1>6. HoldersClaim'
  BY <1>4, <1>5 DEF NoticeInv, HoldersClaim
<1>7. ClaimTells'
  <2> SUFFICES ASSUME NEW r \in FailedRuns, NEW k \in Kinds,
                      \/ <<k, Id(r)>> \notin claims'
                      \/ \E v \in Reporters : Holds(v)' /\ KeyOf(v)' = <<k, Id(r)>>
               PROVE  Untold(r, k)
    BY DEF ClaimTells, Untold, Id
  <2>1. CASE <<k, Id(r)>> \notin claims
    BY <2>1 DEF NoticeInv, ClaimTells
  <2>2. CASE <<k, Id(r)>> \in claims
    <3>1. PICK v \in Reporters : Holds(v)' /\ KeyOf(v) = <<k, Id(r)>>
      BY <2>2, <1>4
    <3>2. Holds(v)
      BY <3>1, <2>2, <1>1, <1>5
    <3>3. QED
      BY <3>1, <3>2 DEF NoticeInv, ClaimTells
  <2>3. QED
    BY <2>1, <2>2
<1>8. OneMail'
  BY DEF NoticeInv, OneMail
<1>9. QED
  BY <1>3, <1>6, <1>7, <1>8 DEF NoticeInv

(* The claim of a holder covers its run, and nothing went out under it.    *)
LEMMA HolderUntold ==
  ASSUME NoticeInv, NEW w \in Reporters, Holds(w)
  PROVE  /\ reporter[w] \in Reporting
         /\ KeyOf(w) \in claims
         /\ Untold(reporter[w].run, reporter[w].kind)
<1>1. reporter[w] \in Reporting
  BY KeysTyped DEF Holds, Off
<1>2. KeyOf(w) \in claims
  BY DEF NoticeInv, HoldersClaim
<1>3. KeyOf(w) = <<reporter[w].kind, Id(reporter[w].run)>>
  BY DEF KeyOf
<1>4. reporter[w].run \in FailedRuns /\ reporter[w].kind \in Kinds
  BY <1>1 DEF Reporting
<1>5. QED
  BY <1>1, <1>2, <1>3, <1>4 DEF NoticeInv, ClaimTells

(* A count grows at the notice of w, and nowhere else.                     *)
LEMMA SentCounts ==
  ASSUME NEW count \in [FailedRuns -> [Kinds -> Nat]], NEW w \in Reporters,
         reporter[w] \in Reporting
  PROVE  /\ Sent(count, w) \in [FailedRuns -> [Kinds -> Nat]]
         /\ Sent(count, w)[reporter[w].run][reporter[w].kind]
              = count[reporter[w].run][reporter[w].kind] + 1
         /\ \A r \in FailedRuns, k \in Kinds :
              r # reporter[w].run \/ k # reporter[w].kind => Sent(count, w)[r][k] = count[r][k]
<1> DEFINE r == reporter[w].run
           k == reporter[w].kind
<1>1. r \in FailedRuns /\ k \in Kinds
  BY DEF Reporting
<1>2. Sent(count, w) = [count EXCEPT ![r] = [count[r] EXCEPT ![k] = count[r][k] + 1]]
  BY <1>1 DEF Sent
<1>3. [count[r] EXCEPT ![k] = count[r][k] + 1] \in [Kinds -> Nat]
  BY <1>1
<1>4. QED
  BY <1>1, <1>2, <1>3

(* The mail goes out: the only one under its claim, which stays.           *)
LEMMA SendInv ==
  ASSUME NoticeInv, NEW w \in Reporters, Send(w)
  PROVE  NoticeInv'
<1> USE DEF Send, Stands
<1>1. /\ reporter[w] \in Reporting /\ KeyOf(w) \in claims
      /\ Untold(reporter[w].run, reporter[w].kind) /\ Holds(w)
  BY HolderUntold DEF Holds
<1>2. /\ reporter' \in [Reporters -> {Off} \cup Reporting]
      /\ ~Holds(w)' /\ \A v \in Reporters \ {w} : reporter'[v] = reporter[v]
  BY DoneLetsGo DEF Off
<1>3. mails \in [FailedRuns -> [Kinds -> Nat]] /\ unheard \in [FailedRuns -> [Kinds -> Nat]]
  BY DEF NoticeInv, NoticeTypeOK
<1>4. /\ mails' \in [FailedRuns -> [Kinds -> Nat]]
      /\ mails'[reporter[w].run][reporter[w].kind] = mails[reporter[w].run][reporter[w].kind] + 1
      /\ \A r \in FailedRuns, k \in Kinds :
           r # reporter[w].run \/ k # reporter[w].kind => mails'[r][k] = mails[r][k]
  BY <1>1, <1>3, SentCounts
<1>5. NoticeTypeOK'
  BY <1>2, <1>4 DEF NoticeInv, NoticeTypeOK, Reporting
<1>6. \A v \in Reporters : Holds(v)' => v # w /\ Holds(v) /\ KeyOf(v)' = KeyOf(v) /\ KeyOf(v) # KeyOf(w)
  BY <1>1, <1>2 DEF Holds, KeyOf, Id, NoticeInv, HoldersClaim
<1>7. HoldersClaim'
  BY <1>6 DEF NoticeInv, HoldersClaim
<1>8. OneMail'
  <2> SUFFICES ASSUME NEW r \in FailedRuns, NEW k \in Kinds PROVE mails'[r][k] <= 1 + unheard[r][k]
    BY DEF OneMail
  <2>1. CASE r = reporter[w].run /\ k = reporter[w].kind
    BY <2>1, <1>1, <1>3, <1>4 DEF Untold
  <2>2. CASE r # reporter[w].run \/ k # reporter[w].kind
    BY <2>2, <1>4 DEF NoticeInv, OneMail
  <2>3. QED
    BY <2>1, <2>2
<1>9. ClaimTells'
  <2> SUFFICES ASSUME NEW r \in FailedRuns, NEW k \in Kinds,
                      \/ <<k, Id(r)>> \notin claims
                      \/ \E v \in Reporters : Holds(v)' /\ KeyOf(v)' = <<k, Id(r)>>
               PROVE  mails'[r][k] = unheard[r][k]
    BY DEF ClaimTells, Untold, Id
  <2>1. Untold(r, k)
    BY <1>6 DEF NoticeInv, ClaimTells
  <2>2. <<k, Id(r)>> # KeyOf(w)
    BY <1>1, <1>6
  <2>3. r # reporter[w].run \/ k # reporter[w].kind
    BY <2>2 DEF KeyOf
  <2>4. QED
    BY <2>1, <2>3, <1>4 DEF Untold
<1>10. QED
  BY <1>5, <1>7, <1>8, <1>9 DEF NoticeInv

(* A send that fails: a mail that is out all the same is counted as such.  *)
LEMMA SendFailsInv ==
  ASSUME NoticeInv, NEW w \in Reporters, SendFails(w)
  PROVE  NoticeInv'
<1> USE DEF SendFails, Stands, Goes
<1>1. reporter[w] \in Reporting /\ KeyOf(w) \in claims /\ Holds(w)
  BY HolderUntold DEF Holds
<1>2. /\ reporter'[w] = [reporter[w] EXCEPT !.pc = "release"]
      /\ \A v \in Reporters \ {w} : reporter'[v] = reporter[v]
  BY DEF NoticeInv, NoticeTypeOK
<1>3. mails \in [FailedRuns -> [Kinds -> Nat]] /\ unheard \in [FailedRuns -> [Kinds -> Nat]]
  BY DEF NoticeInv, NoticeTypeOK
<1>4. /\ mails' \in [FailedRuns -> [Kinds -> Nat]] /\ unheard' \in [FailedRuns -> [Kinds -> Nat]]
      /\ \A r \in FailedRuns, k \in Kinds :
           \/ mails'[r][k] = mails[r][k] /\ unheard'[r][k] = unheard[r][k]
           \/ mails'[r][k] = mails[r][k] + 1 /\ unheard'[r][k] = unheard[r][k] + 1
  <2>1. CASE UNCHANGED <<mails, unheard>>
    BY <2>1, <1>3
  <2>2. CASE mails' = Sent(mails, w) /\ unheard' = Sent(unheard, w)
    <3>1. /\ mails' \in [FailedRuns -> [Kinds -> Nat]]
          /\ mails'[reporter[w].run][reporter[w].kind]
               = mails[reporter[w].run][reporter[w].kind] + 1
          /\ \A r \in FailedRuns, k \in Kinds :
               r # reporter[w].run \/ k # reporter[w].kind => mails'[r][k] = mails[r][k]
      BY <2>2, <1>1, <1>3, SentCounts
    <3>2. /\ unheard' \in [FailedRuns -> [Kinds -> Nat]]
          /\ unheard'[reporter[w].run][reporter[w].kind]
               = unheard[reporter[w].run][reporter[w].kind] + 1
          /\ \A r \in FailedRuns, k \in Kinds :
               r # reporter[w].run \/ k # reporter[w].kind => unheard'[r][k] = unheard[r][k]
      BY <2>2, <1>1, <1>3, SentCounts
    <3>3. QED
      BY <3>1, <3>2
  <2>3. QED
    BY <2>1, <2>2
<1>5. NoticeTypeOK'
  <2>1. [reporter[w] EXCEPT !.pc = "release"] \in Reporting
    BY <1>1 DEF Reporting
  <2>2. QED
    BY <1>4, <2>1 DEF NoticeInv, NoticeTypeOK, Reporting
<1>6. \A v \in Reporters : Holds(v)' = Holds(v) /\ KeyOf(v)' = KeyOf(v)
  BY <1>1, <1>2 DEF Holds, KeyOf, Id, Reporting
<1>7. HoldersClaim'
  BY <1>6 DEF NoticeInv, HoldersClaim
<1>8. OneMail'
  BY <1>3, <1>4 DEF NoticeInv, OneMail
<1>9. ClaimTells'
  BY <1>4, <1>6 DEF NoticeInv, ClaimTells, Untold, Id
<1>10. QED
  BY <1>5, <1>7, <1>8, <1>9 DEF NoticeInv

(* The claim is dropped: nothing went out under it that is not accounted.  *)
LEMMA ReleaseInv ==
  ASSUME NoticeInv, NEW w \in Reporters, ReleaseNotice(w)
  PROVE  NoticeInv'
<1> USE DEF ReleaseNotice, Stands
<1>1. Holds(w) /\ reporter[w] # Off /\ NoticeDone(w)
  BY DEF Holds, Off
<1>2. /\ reporter' \in [Reporters -> {Off} \cup Reporting]
      /\ ~Holds(w)' /\ \A v \in Reporters \ {w} : reporter'[v] = reporter[v]
  BY <1>1, DoneLetsGo
<1>3. \A v \in Reporters : Holds(v)' => Holds(v) /\ KeyOf(v)' = KeyOf(v) /\ KeyOf(v) # KeyOf(w)
  BY <1>1, <1>2 DEF Holds, KeyOf, Id, NoticeInv, HoldersClaim
<1>4. HoldersClaim'
  BY <1>3 DEF NoticeInv, HoldersClaim
<1>5. OneMail'
  BY DEF NoticeInv, OneMail
<1>6. ClaimTells'
  <2> SUFFICES ASSUME NEW r \in FailedRuns, NEW k \in Kinds,
                      \/ <<k, Id(r)>> \notin claims'
                      \/ \E v \in Reporters : Holds(v)' /\ KeyOf(v)' = <<k, Id(r)>>
               PROVE  Untold(r, k)
    BY DEF ClaimTells, Untold, Id
  <2>1. CASE <<k, Id(r)>> = KeyOf(w)
    BY <1>1, <2>1 DEF NoticeInv, ClaimTells
  <2>2. CASE <<k, Id(r)>> # KeyOf(w)
    BY <1>3, <2>2 DEF NoticeInv, ClaimTells
  <2>3. QED
    BY <2>1, <2>2
<1>7. NoticeTypeOK'
  BY <1>2 DEF NoticeInv, NoticeTypeOK, Reporting
<1>8. QED
  BY <1>4, <1>5, <1>6, <1>7 DEF NoticeInv

-----------------------------------------------------------------------------
(* The theorems.                                                           *)

LEMMA NoticeStep == NoticeInv /\ [NoticeNext]_noticeVars => NoticeInv'
<1> SUFFICES ASSUME NoticeInv, [NoticeNext]_noticeVars PROVE NoticeInv'
  OBVIOUS
<1>1. CASE NoticeNext
  <2> PICK w \in Reporters :
        \/ \E r \in FailedRuns, paused \in BOOLEAN : Report(w, r, paused)
        \/ Claim(w) \/ ClaimRefused(w) \/ ClaimUnheard(w) \/ ClaimRaises(w)
        \/ Send(w) \/ SendFails(w) \/ ReleaseNotice(w) \/ ReleaseFails(w) \/ Dies(w)
    BY <1>1 DEF NoticeNext
  <2> QED
    BY ReportInv, ClaimInv, NoticeEndsInv, BreaksOffInv, SendInv, SendFailsInv, ReleaseInv
<1>2. CASE UNCHANGED noticeVars
  BY <1>2 DEF noticeVars, NoticeInv, NoticeTypeOK, OneMail, HoldersClaim, ClaimTells,
              Holds, KeyOf, Untold, Id
<1>3. QED
  BY <1>1, <1>2

(* Claims and mails agree in every reachable state.                        *)
THEOREM NoticeInvariant == NoticeSpec => []NoticeInv
<1>1. NoticeInit => NoticeInv
  BY NoticeInitInv
<1>2. NoticeInv /\ [NoticeNext]_noticeVars => NoticeInv'
  BY NoticeStep
<1>3. QED
  BY <1>1, <1>2, PTL DEF NoticeSpec

(* However many invocations report a run, one mail goes out for it, unless *)
(* a send failed with the mail out.                                        *)
THEOREM MailedOnce == NoticeSpec => []OneMail
<1>1. NoticeInv => OneMail
  BY DEF NoticeInv
<1>2. QED
  BY <1>1, NoticeInvariant, PTL

-----------------------------------------------------------------------------
(* A failed run is told.                                                   *)

(* A claim that was honoured tells every run it speaks for.                *)
LEMMA HonouredTells ==
  ASSUME NoticeInv, TellInv, NEW r \in FailedRuns, NEW k \in Kinds, Honoured(k, Id(r))
  PROVE  Told(r, k) \/ \E v \in Reporters : Holds(v) /\ IsAt(v, r, k)
<1>1. ASSUME NEW q \in FailedRuns, Id(q) = Id(r), q # r, reports[q] > 0
      PROVE  SharedClaim(r)
  BY <1>1, NoticesAssumption DEF SharedClaim, Id
<1>2. CASE <<k, Id(r)>> \in stranded
  BY <1>2 DEF Told
<1>3. ASSUME NEW v \in Reporters, Holds(v), KeyOf(v) = <<k, Id(r)>>
      PROVE  Told(r, k) \/ (Holds(v) /\ IsAt(v, r, k))
  <2>1. reporter[v] # Off /\ reporter[v] \in Reporting
    BY <1>3, KeysTyped DEF Holds, Off
  <2>2. /\ reporter[v].run \in FailedRuns /\ reporter[v].kind = k /\ Id(reporter[v].run) = Id(r)
        /\ reports[reporter[v].run] > 0
    BY <1>3, <2>1 DEF KeyOf, TellInv, Reporting
  <2>3. CASE reporter[v].run = r
    BY <1>3, <2>1, <2>2, <2>3 DEF IsAt
  <2>4. CASE reporter[v].run # r
    BY <1>1, <2>2, <2>4 DEF Told
  <2>5. QED
    BY <2>3, <2>4
<1>4. ASSUME NEW q \in FailedRuns, Id(q) = Id(r), mails[q][k] > 0
      PROVE  Told(r, k)
  <2>1. reports[q] > 0
    BY <1>4 DEF TellInv
  <2>2. QED
    BY <1>1, <1>4, <2>1 DEF Told
<1>5. QED
  BY <1>2, <1>3, <1>4 DEF Honoured

\* A step that takes nothing back: mails, strandings and reports only grow, and
\* so do the missed notices.
Grows ==
    /\ \A r \in FailedRuns, k \in Kinds : mails[r][k] > 0 => mails'[r][k] > 0
    /\ stranded \subseteq stranded' /\ missed \subseteq missed'
    /\ reports' = reports /\ pauses' = pauses

(* The notices that are due stay told; those of the mover are told now, or *)
(* it is still at them.                                                    *)
LEMMA TellKept ==
  ASSUME NoticeInv, TellInv, NEW w \in Reporters, reporter[w] # Off,
         \A v \in Reporters \ {w} : reporter'[v] = reporter[v], Grows,
         reporter'[w] # Off => reporter'[w].run = reporter[w].run,
         Stands(w, "release")' => NoticeOf(w)' \in missed',
         \A r \in FailedRuns, k \in Kinds : mails'[r][k] > 0 => reports[r] > 0,
         \A r \in FailedRuns, k \in Kinds : <<k, Id(r)>> \in claims' => Honoured(k, Id(r))',
         \A r \in FailedRuns, k \in Kinds : IsAt(w, r, k) =>
            Told(r, k)' \/ IsAt(w, r, k)' \/ \E v \in Reporters \ {w} : IsAt(v, r, k)
  PROVE  TellInv'
<1>1. \A v \in Reporters : reporter'[v] # Off => reports'[reporter'[v].run] > 0
  BY DEF TellInv, Grows
<1>2. \A v \in Reporters : Stands(v, "release")' => NoticeOf(v)' \in missed'
  <2> SUFFICES ASSUME NEW v \in Reporters, v # w, Stands(v, "release")'
               PROVE  NoticeOf(v)' \in missed'
    OBVIOUS
  <2>1. reporter'[v] = reporter[v] /\ Stands(v, "release")
    BY DEF Stands
  <2>2. QED
    BY <2>1 DEF TellInv, NoticeOf, Grows
<1>3. \A r \in FailedRuns, k \in Kinds : Told(r, k) => Told(r, k)'
  BY DEF Told, Grows, SharedClaim, Id
<1>4. \A v \in Reporters \ {w}, r \in FailedRuns, k \in Kinds : IsAt(v, r, k) => IsAt(v, r, k)'
  BY DEF IsAt
<1>5. \A r \in FailedRuns, k \in Kinds :
        Due(r, k)' => Told(r, k)' \/ \E v \in Reporters : IsAt(v, r, k)'
  <2> SUFFICES ASSUME NEW r \in FailedRuns, NEW k \in Kinds, Due(r, k)'
               PROVE  Told(r, k)' \/ \E v \in Reporters : IsAt(v, r, k)'
    OBVIOUS
  <2>1. Due(r, k)
    BY DEF Due, Grows
  <2>2. Told(r, k) \/ \E v \in Reporters : IsAt(v, r, k)
    BY <2>1 DEF TellInv
  <2>3. CASE Told(r, k)
    BY <1>3, <2>3
  <2>4. ASSUME NEW v \in Reporters, v # w, IsAt(v, r, k)
        PROVE  \E u \in Reporters : IsAt(u, r, k)'
    BY <1>4, <2>4
  <2>5. CASE IsAt(w, r, k)
    BY <2>4, <2>5
  <2>6. QED
    BY <2>2, <2>3, <2>4, <2>5
<1>6. reports' \in [FailedRuns -> Nat]
  BY DEF TellInv, Grows
<1>7. \A r \in FailedRuns, k \in Kinds : mails'[r][k] > 0 => reports'[r] > 0
  BY DEF Grows
<1>8. \A r \in FailedRuns, k \in Kinds : <<k, Id(r)>> \in claims' => Honoured(k, Id(r))'
  OBVIOUS
<1>9. QED
  BY <1>1, <1>2, <1>5, <1>6, <1>7, <1>8 DEF TellInv, Id

(* The claims of the others are honoured as they were.                     *)
LEMMA HonouredStays ==
  ASSUME NoticeInv, TellInv, NEW w \in Reporters,
         \A v \in Reporters \ {w} : reporter'[v] = reporter[v], Grows,
         NEW k, NEW id, Honoured(k, id), k \in Kinds,
         (Holds(w) /\ KeyOf(w) = <<k, id>>) => Honoured(k, id)'
  PROVE  Honoured(k, id)'
<1>1. CASE <<k, id>> \in stranded
  BY <1>1 DEF Honoured, Grows
<1>2. ASSUME NEW v \in Reporters, v # w, Holds(v), KeyOf(v) = <<k, id>>
      PROVE  Honoured(k, id)'
  <2>1. Holds(v)' /\ KeyOf(v)' = KeyOf(v)
    BY <1>2 DEF Holds, KeyOf, Id
  <2>2. QED
    BY <1>2, <2>1 DEF Honoured
<1>3. ASSUME NEW r \in FailedRuns, Id(r) = id, mails[r][k] > 0
      PROVE  Honoured(k, id)'
  BY <1>3 DEF Honoured, Grows, Id
<1>4. QED
  BY <1>1, <1>2, <1>3 DEF Honoured

(* The end of a notice leaves the one about the pause.                     *)
LEMMA DoneLeavesPause ==
  ASSUME NoticeInv, NEW w \in Reporters, reporter[w] # Off, NoticeDone(w)
  PROVE  /\ reporter'[w] # Off => reporter'[w].run = reporter[w].run
         /\ ~Stands(w, "release")'
         /\ \A r \in FailedRuns, k \in Kinds :
              IsAt(w, r, k) => IsAt(w, r, k)' \/ (r = reporter[w].run /\ k = reporter[w].kind)
<1>1. reporter[w] \in Reporting
  BY KeysTyped
<1>2. CASE reporter[w].kind = "failure" /\ reporter[w].paused
  <2> DEFINE next == [reporter[w] EXCEPT !.pc = "claim", !.kind = "pause"]
  <2>1. /\ next.pc = "claim" /\ next.kind = "pause" /\ next.run = reporter[w].run
        /\ next.paused = reporter[w].paused
    BY <1>1 DEF Reporting
  <2>2. reporter'[w] = next
    BY <1>2 DEF NoticeDone, NoticeInv, NoticeTypeOK
  <2>3. next # Off
    BY <2>1 DEF Off
  <2> HIDE DEF next
  <2>4. ~Stands(w, "release")'
    BY <2>1, <2>2 DEF Stands
  <2>5. QED
    BY <2>1, <2>2, <2>3, <2>4 DEF IsAt
<1>3. CASE ~(reporter[w].kind = "failure" /\ reporter[w].paused)
  <2>1. reporter'[w] = Off
    BY <1>3 DEF NoticeDone, NoticeInv, NoticeTypeOK
  <2>2. QED
    BY <1>3, <2>1 DEF IsAt, Stands, Off
<1>4. QED
  BY <1>2, <1>3

(* A step that ends a notice which is told now.                            *)
LEMMA EndsTold ==
  ASSUME NoticeInv, TellInv, NEW w \in Reporters, reporter[w] # Off, NoticeDone(w), Grows,
         NEW run \in FailedRuns, run = reporter[w].run,
         NEW kind \in Kinds, kind = reporter[w].kind,
         \A r \in FailedRuns, k \in Kinds : mails'[r][k] > 0 => reports[r] > 0,
         \A r \in FailedRuns, k \in Kinds : <<k, Id(r)>> \in claims' => Honoured(k, Id(r))',
         Told(run, kind)' \/ \E v \in Reporters \ {w} : IsAt(v, run, kind)
  PROVE  TellInv'
<1>1. \A v \in Reporters \ {w} : reporter'[v] = reporter[v]
  BY DoneLetsGo
<1>2. /\ reporter'[w] # Off => reporter'[w].run = reporter[w].run
      /\ ~Stands(w, "release")'
      /\ \A r \in FailedRuns, k \in Kinds :
           IsAt(w, r, k) => IsAt(w, r, k)' \/ (r = run /\ k = kind)
  BY DoneLeavesPause
<1>3. \A r \in FailedRuns, k \in Kinds : IsAt(w, r, k) =>
        Told(r, k)' \/ IsAt(w, r, k)' \/ \E v \in Reporters \ {w} : IsAt(v, r, k)
  BY <1>2
<1>4. Stands(w, "release")' => NoticeOf(w)' \in missed'
  BY <1>2
<1>5. QED
  BY <1>1, <1>2, <1>3, <1>4, TellKept

(* Nothing is due before a delivery fails.                                 *)
LEMMA TellInitInv == NoticeInit => TellInv
BY DEF NoticeInit, TellInv, Due, Stands, Off

(* A delivery that fails is at the notices that are due now.  It takes a   *)
(* missed one back only while nobody is at any other.                      *)
LEMMA ReportTells ==
  ASSUME NoticeInv, TellInv, NEW w \in Reporters, NEW r \in FailedRuns, NEW paused \in BOOLEAN,
         Report(w, r, paused)
  PROVE  TellInv'
<1> DEFINE begin == [pc |-> "claim", run |-> r, kind |-> "failure", paused |-> paused]
<1>1. /\ reporter[w] = Off /\ reporter'[w] = begin
      /\ \A v \in Reporters \ {w} : reporter'[v] = reporter[v]
  BY DEF Report, NoticeInv, NoticeTypeOK
<1>2. /\ begin.pc = "claim" /\ begin.run = r /\ begin.kind = "failure" /\ begin.paused = paused
      /\ begin # Off /\ Off.pc = "off"
  BY DEF Off
<1> HIDE DEF begin
<1>3. /\ reports \in [FailedRuns -> Nat] /\ reports' \in [FailedRuns -> Nat]
      /\ reports'[r] > 0 /\ \A q \in FailedRuns : reports[q] > 0 => reports'[q] > 0
  <2>1. reports' = [reports EXCEPT ![r] = reports[r] + 1]
    BY DEF Report
  <2>2. reports \in [FailedRuns -> Nat]
    BY DEF TellInv
  <2>3. QED
    BY <2>1, <2>2
<1>4. /\ mails' = mails /\ claims' = claims /\ stranded' = stranded
      /\ pauses' = IF paused THEN pauses \cup {r} ELSE pauses
      /\ \/ missed' = missed
         \/ missed' = missed \ {<<"failure", r>>} /\ \A v \in Reporters : reporter[v] = Off
  BY DEF Report
<1>5. \A v \in Reporters : reporter'[v] # Off => reports'[reporter'[v].run] > 0
  <2> SUFFICES ASSUME NEW v \in Reporters, reporter'[v] # Off
               PROVE  reports'[reporter'[v].run] > 0
    OBVIOUS
  <2>1. CASE v = w
    BY <1>1, <1>2, <1>3, <2>1
  <2>2. CASE v # w
    <3>1. reporter'[v] = reporter[v] /\ reporter[v] \in Reporting
      BY <1>1, <2>2, KeysTyped
    <3>2. reporter[v].run \in FailedRuns /\ reports[reporter[v].run] > 0
      BY <3>1 DEF Reporting, TellInv
    <3>3. QED
      BY <3>1, <3>2, <1>3
  <2>3. QED
    BY <2>1, <2>2
<1>6. \A v \in Reporters : Stands(v, "release")' => NoticeOf(v)' \in missed'
  <2> SUFFICES ASSUME NEW v \in Reporters, Stands(v, "release")'
               PROVE  NoticeOf(v)' \in missed'
    OBVIOUS
  <2>1. v # w
    BY <1>1, <1>2 DEF Stands
  <2>2. reporter'[v] = reporter[v] /\ Stands(v, "release")
    BY <1>1, <2>1 DEF Stands
  <2>3. missed' = missed
    BY <1>2, <1>4, <2>2 DEF Stands
  <2>4. QED
    BY <2>2, <2>3 DEF TellInv, NoticeOf
<1>7. \A q \in FailedRuns, k \in Kinds : <<k, Id(q)>> \in claims' => Honoured(k, Id(q))'
  <2> SUFFICES ASSUME NEW q \in FailedRuns, NEW k \in Kinds, <<k, Id(q)>> \in claims
               PROVE  Honoured(k, Id(q))'
    BY <1>4 DEF Id
  <2>1. Honoured(k, Id(q))
    BY DEF TellInv
  <2>2. ASSUME NEW v \in Reporters, Holds(v), KeyOf(v) = <<k, Id(q)>>
        PROVE  Honoured(k, Id(q))'
    <3>1. v # w
      BY <1>1, <1>2, <2>2 DEF Holds
    <3>2. Holds(v)' /\ KeyOf(v)' = KeyOf(v)
      BY <1>1, <2>2, <3>1 DEF Holds, KeyOf, Id
    <3>3. QED
      BY <2>2, <3>2 DEF Honoured, Id
  <2>3. QED
    BY <1>4, <2>1, <2>2 DEF Honoured, Id
<1>8. ASSUME NEW q \in FailedRuns, NEW k \in Kinds, Due(q, k)'
      PROVE  Told(q, k)' \/ \E v \in Reporters : IsAt(v, q, k)'
  <2>1. CASE q = r /\ (k = "failure" \/ (k = "pause" /\ paused))
    BY <1>1, <1>2, <2>1 DEF IsAt
  <2>2. CASE ~(q = r /\ (k = "failure" \/ (k = "pause" /\ paused)))
    <3>1. Due(q, k)
      <4>1. reports'[q] = reports[q] \/ q = r
        BY DEF Report, TellInv
      <4>2. QED
        BY <1>4, <1>8, <2>2, <4>1 DEF Due
    <3>2. CASE Told(q, k)
      <4>1. <<k, q>> \in missed => <<k, q>> \in missed'
        <5>1. CASE k = "failure"
          <6>1. q # r
            BY <2>2, <5>1
          <6>2. QED
            BY <6>1, <1>4
        <5>2. CASE k # "failure"
          BY <5>2, <1>4
        <5>3. QED
          BY <5>1, <5>2
      <4>2. SharedClaim(q) => SharedClaim(q)'
        BY <1>3, NoticesAssumption DEF SharedClaim
      <4>3. QED
        BY <3>2, <4>1, <4>2, <1>4 DEF Told, Id
    <3>3. ASSUME NEW v \in Reporters, IsAt(v, q, k)
          PROVE  \E u \in Reporters : IsAt(u, q, k)'
      <4>1. v # w
        BY <1>1, <3>3 DEF IsAt
      <4>2. QED
        BY <1>1, <3>3, <4>1 DEF IsAt
    <3>4. QED
      BY <3>1, <3>2, <3>3 DEF TellInv
  <2>3. QED
    BY <2>1, <2>2
<1>9. \A q \in FailedRuns, k \in Kinds : mails'[q][k] > 0 => reports'[q] > 0
  BY <1>3, <1>4 DEF TellInv
<1>10. QED
  BY <1>3, <1>5, <1>6, <1>7, <1>8, <1>9 DEF TellInv

(* The put passes: whoever holds the claim has still to honour it.         *)
LEMMA ClaimTellsOn ==
  ASSUME NoticeInv, TellInv, NEW w \in Reporters, Claim(w)
  PROVE  TellInv'
<1> USE DEF Claim, Goes
<1>1. reporter[w].pc = "claim" /\ reporter[w] # Off /\ reporter[w] \in Reporting
  BY KeysTyped DEF Stands, Off
<1> DEFINE next == [reporter[w] EXCEPT !.pc = "send"]
<1>2. /\ reporter'[w] = next
      /\ \A v \in Reporters \ {w} : reporter'[v] = reporter[v]
  BY DEF NoticeInv, NoticeTypeOK
<1>3. /\ next.pc = "send" /\ next.run = reporter[w].run /\ next.kind = reporter[w].kind
      /\ next.paused = reporter[w].paused /\ next # Off
  BY <1>1 DEF Reporting, Off
<1> HIDE DEF next
<1>4. Grows
  BY DEF Grows
<1>5. Holds(w)' /\ KeyOf(w)' = KeyOf(w) /\ ~Holds(w)
  BY <1>1, <1>2, <1>3 DEF Holds, KeyOf, Id
<1>6. ASSUME NEW r \in FailedRuns, NEW k \in Kinds, <<k, Id(r)>> \in claims'
      PROVE  Honoured(k, Id(r))'
  <2>1. CASE <<k, Id(r)>> = KeyOf(w)
    BY <1>5, <2>1 DEF Honoured, Id
  <2>2. CASE <<k, Id(r)>> # KeyOf(w)
    <3>1. Honoured(k, Id(r))
      BY <1>6, <2>2 DEF TellInv
    <3> DEFINE id == Id(r)
    <3>2. Honoured(k, id) /\ (Holds(w) /\ KeyOf(w) = <<k, id>> => Honoured(k, id)')
      BY <3>1, <1>5
    <3> HIDE DEF id
    <3>3. PICK i : i = id
      OBVIOUS
    <3>4. Honoured(k, i)'
      BY <3>2, <3>3, <1>2, <1>4, <1>5, HonouredStays
    <3>5. QED
      BY <3>3, <3>4 DEF id, Id
  <2>3. QED
    BY <2>1, <2>2
<1>7. \A r \in FailedRuns, k \in Kinds : IsAt(w, r, k) => IsAt(w, r, k)'
  BY <1>2, <1>3 DEF IsAt
<1>8. ~Stands(w, "release")'
  BY <1>2, <1>3 DEF Stands
<1>9. \A r \in FailedRuns, k \in Kinds : mails'[r][k] > 0 => reports[r] > 0
  BY DEF TellInv
<1>10. QED
  BY <1>1, <1>2, <1>3, <1>4, <1>6, <1>7, <1>8, <1>9, TellKept

(* A claim that was honoured is, unless its holder lets it go: then it is  *)
(* stranded, or its mail is out.                                           *)
LEMMA StillHonoured ==
  ASSUME NoticeInv, TellInv, NEW w \in Reporters,
         \A v \in Reporters \ {w} : reporter'[v] = reporter[v], Grows,
         claims' \subseteq claims \cup stranded',
         Holds(w) /\ KeyOf(w) \in claims' =>
            \/ KeyOf(w) \in stranded'
            \/ mails'[reporter[w].run][reporter[w].kind] > 0
            \/ Holds(w)' /\ KeyOf(w)' = KeyOf(w)
  PROVE  \A r \in FailedRuns, k \in Kinds : <<k, Id(r)>> \in claims' => Honoured(k, Id(r))'
<1> SUFFICES ASSUME NEW r \in FailedRuns, NEW k \in Kinds, <<k, Id(r)>> \in claims',
                    NEW id, id = Id(r)
             PROVE  Honoured(k, id)'
  BY DEF Id
<1>1. CASE <<k, id>> \in stranded'
  BY <1>1 DEF Honoured
<1>2. CASE <<k, id>> \notin stranded'
  <2>1. Honoured(k, id)
    BY <1>2 DEF TellInv
  <2>2. ASSUME Holds(w), KeyOf(w) = <<k, id>> PROVE Honoured(k, id)'
    <3>1. CASE mails'[reporter[w].run][reporter[w].kind] > 0
      <4>1. reporter[w] \in Reporting
        BY <2>2, KeysTyped DEF Holds, Off
      <4>2. /\ reporter[w].run \in FailedRuns /\ Id(reporter[w].run) = id
            /\ reporter[w].kind = k
        BY <2>2, <4>1 DEF KeyOf, Reporting
      <4>3. PICK q \in FailedRuns : q = reporter[w].run
        BY <4>2
      <4>4. Id(q) = id /\ mails'[q][k] > 0
        BY <3>1, <4>2, <4>3
      <4>5. QED
        BY <4>4 DEF Honoured, Id
    <3>2. CASE Holds(w)' /\ KeyOf(w)' = KeyOf(w)
      BY <2>2, <3>2 DEF Honoured
    <3>3. QED
      BY <1>2, <2>2, <3>1, <3>2
  <2>3. QED
    BY <2>1, <2>2, HonouredStays
<1>3. QED
  BY <1>1, <1>2

(* A step that ends a notice without a mail changes no count of mails.     *)
LEMMA MailsReported ==
  ASSUME TellInv, mails' = mails
  PROVE  \A r \in FailedRuns, k \in Kinds : mails'[r][k] > 0 => reports[r] > 0
BY DEF TellInv

(* A refused claim is the business of its holder, or was.                  *)
LEMMA ClaimRefusedTells ==
  ASSUME NoticeInv, TellInv, NEW w \in Reporters, ClaimRefused(w)
  PROVE  TellInv'
<1> USE DEF ClaimRefused
<1>1. /\ reporter[w] # Off /\ reporter[w] \in Reporting /\ ~Holds(w)
      /\ \A v \in Reporters \ {w} : reporter'[v] = reporter[v]
  <2>1. reporter[w].pc = "claim" /\ reporter[w] # Off
    BY DEF Stands, Off
  <2>2. QED
    BY <2>1, KeysTyped, DoneLetsGo DEF Holds
<1>2. Grows
  BY DEF Grows
<1>3. \A r \in FailedRuns, k \in Kinds : <<k, Id(r)>> \in claims' => Honoured(k, Id(r))'
  BY <1>1, <1>2, StillHonoured
<1>4. PICK run \in FailedRuns : run = reporter[w].run
  BY <1>1 DEF Reporting
<1>5. PICK kind \in Kinds : kind = reporter[w].kind
  BY <1>1 DEF Reporting
<1>6. Told(run, kind) \/ \E v \in Reporters : Holds(v) /\ IsAt(v, run, kind)
  <2>1. <<kind, Id(run)>> \in claims
    BY <1>4, <1>5 DEF Unclaimed, KeyOf
  <2>2. Honoured(kind, Id(run))
    BY <2>1 DEF TellInv
  <2>3. QED
    BY <2>2, HonouredTells
<1>7. Told(run, kind)' \/ \E v \in Reporters \ {w} : IsAt(v, run, kind)
  <2>1. Told(run, kind) => Told(run, kind)'
    BY DEF Told, SharedClaim, Id
  <2>2. QED
    BY <1>1, <1>6, <2>1
<1>8. QED
  BY <1>1, <1>2, <1>3, <1>4, <1>5, <1>7, MailsReported, EndsTold

(* A claim whose reply was lost, or that cannot be dropped, is stranded.   *)
LEMMA StrandedTells ==
  ASSUME NoticeInv, TellInv, NEW w \in Reporters, ClaimUnheard(w) \/ ReleaseFails(w)
  PROVE  TellInv'
<1> USE DEF ClaimUnheard, ReleaseFails
<1>1. /\ reporter[w] # Off /\ reporter[w] \in Reporting /\ NoticeDone(w)
      /\ \A v \in Reporters \ {w} : reporter'[v] = reporter[v]
  <2>1. reporter[w] # Off /\ NoticeDone(w)
    BY DEF Stands, Off
  <2>2. QED
    BY <2>1, KeysTyped, DoneLetsGo
<1>2. Grows
  BY DEF Grows
<1>3. KeyOf(w) \in stranded' /\ claims' \subseteq claims \cup stranded'
  OBVIOUS
<1>4. \A r \in FailedRuns, k \in Kinds : <<k, Id(r)>> \in claims' => Honoured(k, Id(r))'
  BY <1>1, <1>2, <1>3, StillHonoured
<1>5. PICK run \in FailedRuns : run = reporter[w].run
  BY <1>1 DEF Reporting
<1>6. PICK kind \in Kinds : kind = reporter[w].kind
  BY <1>1 DEF Reporting
<1>7. Told(run, kind)'
  <2>1. <<kind, Id(run)>> \in stranded'
    BY <1>3, <1>5, <1>6 DEF KeyOf
  <2>2. QED
    BY <2>1 DEF Told, Id
<1>8. mails' = mails
  OBVIOUS
<1>9. QED
  BY <1>1, <1>2, <1>4, <1>5, <1>6, <1>7, <1>8, MailsReported, EndsTold

(* An invocation that breaks off has missed what it was at.                *)
LEMMA BreaksOffTells ==
  ASSUME NoticeInv, TellInv, NEW w \in Reporters, ClaimRaises(w) \/ Dies(w)
  PROVE  TellInv'
<1> USE DEF ClaimRaises, Dies
<1>1. /\ reporter[w] # Off /\ reporter[w] \in Reporting /\ reporter'[w] = Off
      /\ \A v \in Reporters \ {w} : reporter'[v] = reporter[v]
  <2>1. reporter[w] # Off /\ reporter' = [reporter EXCEPT ![w] = Off]
    BY DEF Stands, Off
  <2>2. QED
    BY <2>1, KeysTyped DEF NoticeInv, NoticeTypeOK
<1>2. Grows
  BY DEF Grows
<1>3. Holds(w) => KeyOf(w) \in stranded'
  BY DEF Holds, Stands
<1>4. claims' = claims /\ mails' = mails
  OBVIOUS
<1>5. \A r \in FailedRuns, k \in Kinds : <<k, Id(r)>> \in claims' => Honoured(k, Id(r))'
  BY <1>1, <1>2, <1>3, <1>4, StillHonoured
<1>6. \A r \in FailedRuns, k \in Kinds : IsAt(w, r, k) => Told(r, k)'
  <2> SUFFICES ASSUME NEW r \in FailedRuns, NEW k \in Kinds, IsAt(w, r, k)
               PROVE  <<k, r>> \in missed'
    BY DEF Told, Id
  <2>1. CASE reporter[w].kind = k
    BY <2>1 DEF IsAt, NoticeOf
  <2>2. CASE k = "pause" /\ reporter[w].paused
    BY <2>2 DEF IsAt
  <2>3. QED
    BY <2>1, <2>2 DEF IsAt
<1>7. ~Stands(w, "release")'
  BY <1>1 DEF Stands, Off
<1>8. QED
  BY <1>1, <1>2, <1>4, <1>5, <1>6, <1>7, MailsReported, TellKept

(* The mail of a sender tells its run.                                     *)
LEMMA SendTells ==
  ASSUME NoticeInv, TellInv, NEW w \in Reporters, Send(w)
  PROVE  TellInv'
<1> USE DEF Send
<1>1. /\ reporter[w] # Off /\ reporter[w] \in Reporting
      /\ \A v \in Reporters \ {w} : reporter'[v] = reporter[v]
  <2>1. reporter[w] # Off
    BY DEF Stands, Off
  <2>2. QED
    BY <2>1, KeysTyped, DoneLetsGo
<1>2. PICK run \in FailedRuns : run = reporter[w].run
  BY <1>1 DEF Reporting
<1>3. PICK kind \in Kinds : kind = reporter[w].kind
  BY <1>1 DEF Reporting
<1>4. mails \in [FailedRuns -> [Kinds -> Nat]]
  BY DEF NoticeInv, NoticeTypeOK
<1>5. /\ mails'[run][kind] = mails[run][kind] + 1
      /\ \A r \in FailedRuns, k \in Kinds : r # run \/ k # kind => mails'[r][k] = mails[r][k]
  BY <1>1, <1>2, <1>3, <1>4, SentCounts
<1>6. mails'[run][kind] > 0
  BY <1>4, <1>5
<1>7. Grows
  BY <1>5, <1>6 DEF Grows
<1>8. \A r \in FailedRuns, k \in Kinds : mails'[r][k] > 0 => reports[r] > 0
  BY <1>1, <1>2, <1>5 DEF TellInv
<1>9. \A r \in FailedRuns, k \in Kinds : <<k, Id(r)>> \in claims' => Honoured(k, Id(r))'
  BY <1>1, <1>2, <1>3, <1>6, <1>7, StillHonoured
<1>10. Told(run, kind)'
  BY <1>6 DEF Told
<1>11. QED
  BY <1>1, <1>2, <1>3, <1>7, <1>8, <1>9, <1>10, EndsTold

(* A send that fails leaves the notice to be dropped, and missed.          *)
LEMMA SendFailsTells ==
  ASSUME NoticeInv, TellInv, NEW w \in Reporters, SendFails(w)
  PROVE  TellInv'
<1> USE DEF SendFails, Goes
<1>1. reporter[w].pc = "send" /\ reporter[w] # Off /\ reporter[w] \in Reporting
  BY KeysTyped DEF Stands, Off
<1> DEFINE next == [reporter[w] EXCEPT !.pc = "release"]
<1>2. /\ reporter'[w] = next
      /\ \A v \in Reporters \ {w} : reporter'[v] = reporter[v]
  BY DEF NoticeInv, NoticeTypeOK
<1>3. /\ next.pc = "release" /\ next.run = reporter[w].run /\ next.kind = reporter[w].kind
      /\ next.paused = reporter[w].paused /\ next # Off
  BY <1>1 DEF Reporting, Off
<1> HIDE DEF next
<1>4. mails \in [FailedRuns -> [Kinds -> Nat]]
  BY DEF NoticeInv, NoticeTypeOK
<1>5. PICK run \in FailedRuns : run = reporter[w].run
  BY <1>1 DEF Reporting
<1>6. \A r \in FailedRuns, k \in Kinds :
        \/ mails'[r][k] = mails[r][k]
        \/ mails'[r][k] = mails[r][k] + 1 /\ r = run
  <2>1. CASE mails' = mails
    BY <2>1
  <2>2. CASE mails' = Sent(mails, w)
    <3>1. PICK kind \in Kinds : kind = reporter[w].kind
      BY <1>1 DEF Reporting
    <3>2. /\ mails'[run][kind] = mails[run][kind] + 1
          /\ \A r \in FailedRuns, k \in Kinds : r # run \/ k # kind => mails'[r][k] = mails[r][k]
      BY <1>1, <1>4, <1>5, <2>2, <3>1, SentCounts
    <3>3. QED
      BY <3>2
  <2>3. QED
    BY <2>1, <2>2
<1>7. Grows
  BY <1>4, <1>6 DEF Grows
<1>8. \A r \in FailedRuns, k \in Kinds : mails'[r][k] > 0 => reports[r] > 0
  BY <1>1, <1>5, <1>6 DEF TellInv
<1>9. Holds(w)' /\ KeyOf(w)' = KeyOf(w)
  BY <1>2, <1>3 DEF Holds, KeyOf, Id
<1>10. \A r \in FailedRuns, k \in Kinds : <<k, Id(r)>> \in claims' => Honoured(k, Id(r))'
  BY <1>2, <1>7, <1>9, StillHonoured
<1>11. NoticeOf(w)' \in missed'
  <2>1. NoticeOf(w) \in missed'
    OBVIOUS
  <2>2. NoticeOf(w)' = NoticeOf(w)
    BY <1>2, <1>3 DEF NoticeOf
  <2>3. QED
    BY <2>1, <2>2
<1>12. \A r \in FailedRuns, k \in Kinds : IsAt(w, r, k) => IsAt(w, r, k)'
  BY <1>2, <1>3 DEF IsAt
<1>13. QED
  BY <1>1, <1>2, <1>3, <1>7, <1>8, <1>10, <1>11, <1>12, TellKept

(* A dropped claim is gone, and its notice was missed.                     *)
LEMMA ReleaseTells ==
  ASSUME NoticeInv, TellInv, NEW w \in Reporters, ReleaseNotice(w)
  PROVE  TellInv'
<1> USE DEF ReleaseNotice
<1>1. /\ reporter[w] # Off /\ reporter[w] \in Reporting
      /\ \A v \in Reporters \ {w} : reporter'[v] = reporter[v]
  <2>1. reporter[w] # Off
    BY DEF Stands, Off
  <2>2. QED
    BY <2>1, KeysTyped, DoneLetsGo
<1>2. Grows
  BY DEF Grows
<1>3. KeyOf(w) \notin claims' /\ claims' \subseteq claims \cup stranded' /\ mails' = mails
  OBVIOUS
<1>4. \A r \in FailedRuns, k \in Kinds : <<k, Id(r)>> \in claims' => Honoured(k, Id(r))'
  BY <1>1, <1>2, <1>3, StillHonoured
<1>5. PICK run \in FailedRuns : run = reporter[w].run
  BY <1>1 DEF Reporting
<1>6. PICK kind \in Kinds : kind = reporter[w].kind
  BY <1>1 DEF Reporting
<1>7. Told(run, kind)'
  <2>1. <<kind, run>> \in missed'
    BY <1>5, <1>6 DEF TellInv, NoticeOf
  <2>2. QED
    BY <2>1 DEF Told, Id
<1>8. QED
  BY <1>1, <1>2, <1>3, <1>4, <1>5, <1>6, <1>7, MailsReported, EndsTold

LEMMA TellStep == NoticeInv /\ TellInv /\ [NoticeNext]_noticeVars => TellInv'
<1> SUFFICES ASSUME NoticeInv, TellInv, [NoticeNext]_noticeVars PROVE TellInv'
  OBVIOUS
<1>1. CASE NoticeNext
  <2> PICK w \in Reporters :
        \/ \E r \in FailedRuns, paused \in BOOLEAN : Report(w, r, paused)
        \/ Claim(w) \/ ClaimRefused(w) \/ ClaimUnheard(w) \/ ClaimRaises(w)
        \/ Send(w) \/ SendFails(w) \/ ReleaseNotice(w) \/ ReleaseFails(w) \/ Dies(w)
    BY <1>1 DEF NoticeNext
  <2> QED
    BY ReportTells, ClaimTellsOn, ClaimRefusedTells, StrandedTells, BreaksOffTells,
       SendTells, SendFailsTells, ReleaseTells
<1>2. CASE UNCHANGED noticeVars
  BY <1>2 DEF noticeVars, TellInv, Stands, NoticeOf, Honoured, Holds, KeyOf, Id, Due, Told,
              SharedClaim, IsAt
<1>3. QED
  BY <1>1, <1>2

(* A claim is being honoured, or was, or nobody will, and every notice     *)
(* that is due was told or has an invocation at it.                        *)
THEOREM TellInvariant == NoticeSpec => []TellInv
<1>1. NoticeInit => TellInv
  BY TellInitInv
<1>2. NoticeInv /\ TellInv /\ [NoticeNext]_noticeVars => TellInv'
  BY TellStep
<1>3. QED
  BY <1>1, <1>2, NoticeInvariant, PTL DEF NoticeSpec

(* Once the invocations are through, every run that a delivery failed for  *)
(* was told, was missed by its latest attempt, or has a claim that nobody  *)
(* could honour or that speaks for another parked run.                     *)
THEOREM FailuresAreTold == NoticeSpec => []FailedIsTold
<1>1. TellInv => FailedIsTold
  BY DEF TellInv, FailedIsTold, IsAt
<1>2. QED
  BY <1>1, TellInvariant, PTL
=============================================================================
