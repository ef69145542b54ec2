------------------------- MODULE Credentials_proofs -------------------------
(***************************************************************************)
(* What stands for a user.  The stored credential of a connection, for     *)
(* every number of refreshers, tokens, versions and revocations: the       *)
(* record keeps its shape, no refresh puts tokens back behind a revoke     *)
(* while versions grow, and what is stored works.  Then one pairing of a   *)
(* device, for every number of browsers, CLI processes and secrets and     *)
(* every budget: the invariant of the grant and its sessions, its three    *)
(* consequences, and the permanence of a decision.                         *)
(***************************************************************************)
EXTENDS Credentials, DeviceGrant, TLAPS

(* A connected connection with its first token.                            *)
LEMMA CredInitInv == CredInit => CredInv
<1> SUFFICES ASSUME CredInit PROVE CredInv
  OBVIOUS
<1> USE DEF CredInit
<1>1. cred \in [ver : Nat, tok : Nat, live : BOOLEAN]
  OBVIOUS
<1>2. user \in [Refreshers -> {Unused} \cup Using]
  BY DEF Using
<1>3. CredTypeOK
  BY <1>1, <1>2 DEF CredTypeOK, Using
<1>4. VersionGrows /\ RevokedStaysEmpty
  BY DEF VersionGrows, RevokedStaysEmpty
<1>5. QED
  BY <1>3, <1>4 DEF CredInv

(* What a call does with what it read.                                     *)
LEMMA ReadingTyped ==
  ASSUME CredInv, NEW again \in BOOLEAN
  PROVE  /\ Reading(again) \in {Unused} \cup Using
         /\ Reading(again) # Unused =>
              (cred.tok # 0 \/ cred.live) /\ Reading(again).ver = cred.ver
<1>1. CASE cred.tok = 0 /\ ~cred.live
  BY <1>1 DEF Reading, Unused
<1>2. CASE cred.tok # 0 \/ cred.live
  BY <1>2 DEF Reading, Using, CredInv, CredTypeOK
<1>3. QED
  BY <1>1, <1>2

-----------------------------------------------------------------------------
(* A refresher.                                                            *)

(* The record is read, for the first time or again behind a conflict: it   *)
(* has tokens, so nobody has revoked it.                                   *)
LEMMA ReadInv ==
  ASSUME CredInv, NEW w \in Refreshers, NEW again \in BOOLEAN,
         user' = [user EXCEPT ![w] = Reading(again)] \/ user' = [user EXCEPT ![w] = Unused],
         UNCHANGED <<oauth, cred, status, admin, consent, past>>
  PROVE  CredInv'
<1> USE DEF oauth, past
<1>1. user' \in [Refreshers -> {Unused} \cup Using]
  BY ReadingTyped DEF CredInv, CredTypeOK, Using
<1>2. CredTypeOK'
  BY <1>1 DEF CredInv, CredTypeOK, Using
<1>3. \A v \in Refreshers : user'[v] # Unused =>
        \/ user[v] # Unused /\ user'[v] = user[v]
        \/ (cred.tok # 0 \/ cred.live) /\ user'[v].ver = cred.ver
  BY ReadingTyped DEF CredInv, CredTypeOK
<1>4. VersionGrows'
  BY <1>3 DEF CredInv, VersionGrows, RevokedStaysEmpty, CredTypeOK
<1>5. QED
  BY <1>2, <1>4 DEF CredInv, RevokedStaysEmpty

(* The provider is asked; the version the call read stays what it was.     *)
LEMMA ProviderInv ==
  ASSUME CredInv, NEW w \in Refreshers, Verify(w) \/ Reject(w) \/ Exchange(w)
  PROVE  CredInv'
<1> USE DEF past
<1>1. user[w] # Unused /\ user[w] \in Using
  BY DEF Verify, Reject, Exchange, Unused, CredInv, CredTypeOK, Using
<1>2. /\ UNCHANGED <<cred, status, admin, consent, past>> /\ rotates' = rotates
      /\ issued' \in Nat /\ honoured' \subseteq Nat
      /\ \E next \in {Unused} \cup Using :
           /\ user' = [user EXCEPT ![w] = next]
           /\ next # Unused => next.ver = user[w].ver
  <2>1. CASE Verify(w) \/ Reject(w)
    <3>1. [user[w] EXCEPT !.pc = "exchange", !.again = FALSE] \in Using
      BY <1>1 DEF Using
    <3>2. [user[w] EXCEPT !.pc = "exchange", !.again = FALSE].ver = user[w].ver
      BY <1>1 DEF Using
    <3>3. QED
      BY <2>1, <3>1, <3>2 DEF Verify, Reject, oauth, CredInv, CredTypeOK
  <2>2. CASE Exchange(w) /\ user[w].tok \notin honoured
    BY <2>2 DEF Exchange, CredInv, CredTypeOK
  <2>3. CASE Exchange(w) /\ user[w].tok \in honoured
    <3>1. issued' \in Nat /\ honoured' \subseteq Nat
      BY <2>3 DEF Exchange, CredInv, CredTypeOK
    <3>2. Keep(user[w].tok, issued') \in Nat
      BY <2>3, <1>1, <3>1 DEF Keep, Using, Exchange, CredInv, CredTypeOK
    <3>3. user' = [user EXCEPT ![w] =
                     [user[w] EXCEPT !.pc = "store", !.tok = Keep(user[w].tok, issued')]]
      BY <2>3, <1>1 DEF Exchange, CredInv, CredTypeOK, Using
    <3>4. [user[w] EXCEPT !.pc = "store", !.tok = Keep(user[w].tok, issued')] \in Using
      BY <1>1, <3>2 DEF Using
    <3>5. [user[w] EXCEPT !.pc = "store", !.tok = Keep(user[w].tok, issued')].ver = user[w].ver
      BY <1>1 DEF Using
    <3>6. QED
      BY <2>3, <3>1, <3>3, <3>4, <3>5 DEF Exchange
  <2>4. QED
    BY <2>1, <2>2, <2>3
<1>3. CredTypeOK'
  BY <1>2 DEF CredInv, CredTypeOK, Using
<1>4. VersionGrows'
  BY <1>1, <1>2 DEF CredInv, CredTypeOK, VersionGrows
<1>5. QED
  BY <1>2, <1>3, <1>4 DEF CredInv, RevokedStaysEmpty

(* The conditional put passes: the version grows, and behind a revoke it   *)
(* does not pass.                                                          *)
LEMMA StoreInv ==
  ASSUME CredInv, NEW w \in Refreshers, Store(w)
  PROVE  CredInv'
<1> USE DEF oauth, past
<1>1. user[w] # Unused /\ user[w] \in Using
  BY DEF Store, Unused, CredInv, CredTypeOK, Using
<1>2. cred' = [ver |-> user[w].ver + 1, tok |-> user[w].tok, live |-> TRUE]
  BY DEF Store
<1>3. user[w].tok \in Nat /\ user[w].ver \in Nat
  BY <1>1 DEF Using
<1>4. CredTypeOK'
  BY <1>1, <1>2, <1>3 DEF Store, CredInv, CredTypeOK, Using
<1>5. ~rewound => ~cleared /\ user[w].ver = cred.ver
  BY <1>1 DEF Store, PutPasses, CredInv, CredTypeOK, VersionGrows, Using
<1>6. VersionGrows'
  BY <1>1, <1>2, <1>5 DEF Store, CredInv, CredTypeOK, VersionGrows, Using
<1>7. QED
  BY <1>4, <1>5, <1>6 DEF Store, CredInv, RevokedStaysEmpty

(* Every step of a call, a put that fails and a break-off included.        *)
LEMMA RefresherInv ==
  ASSUME CredInv, NEW w \in Refreshers,
         Ask(w) \/ Verify(w) \/ Reject(w) \/ Exchange(w) \/ Store(w) \/ Conflict(w)
           \/ Abandon(w)
  PROVE  CredInv'
<1>1. CASE Ask(w)
  BY <1>1, ReadInv DEF Ask
<1>2. CASE Conflict(w)
  <2>1. CASE user[w].again
    BY <1>2, <2>1, ReadInv DEF Conflict
  <2>2. CASE ~user[w].again
    BY <1>2, <2>2, ReadInv DEF Conflict
  <2>3. QED
    BY <2>1, <2>2
<1>3. CASE Abandon(w)
  <2>1. CredTypeOK'
    BY <1>3 DEF Abandon, oauth, CredInv, CredTypeOK
  <2>2. \A v \in Refreshers : user'[v] # Unused => user'[v] = user[v]
    BY <1>3 DEF Abandon, CredInv, CredTypeOK
  <2>3. VersionGrows' /\ RevokedStaysEmpty'
    BY <1>3, <2>2 DEF Abandon, CredInv, VersionGrows, RevokedStaysEmpty
  <2>4. QED
    BY <2>1, <2>3 DEF CredInv
<1>4. QED
  BY <1>1, <1>2, <1>3, ProviderInv, StoreInv

-----------------------------------------------------------------------------
(* The operator, the consent and the clock.                                *)

(* The steps that touch neither the record nor what is known of it.        *)
LEMMA RecordStands ==
  ASSUME CredInv, UNCHANGED <<cred, user, cleared, rewound>>
  PROVE  VersionGrows' /\ RevokedStaysEmpty'
BY DEF CredInv, VersionGrows, RevokedStaysEmpty

LEMMA ClockInv ==
  ASSUME CredInv, AccessExpires
  PROVE  CredInv'
<1> USE DEF AccessExpires, oauth, past
<1>1. /\ cred' \in [ver : Nat, tok : Nat, live : BOOLEAN]
      /\ cred'.ver = cred.ver /\ cred'.tok = cred.tok /\ ~cred'.live
  BY DEF CredInv, CredTypeOK
<1>2. CredTypeOK'
  BY <1>1 DEF CredInv, CredTypeOK
<1>3. VersionGrows' /\ RevokedStaysEmpty'
  BY <1>1 DEF CredInv, VersionGrows, RevokedStaysEmpty
<1>4. QED
  BY <1>2, <1>3 DEF CredInv

(* A revoke or delete under way that has not reached the record.           *)
LEMMA EndingInv ==
  ASSUME CredInv,
         (\E aim \in {"revoke", "delete"} : BeginEnd(aim)) \/ RevokeAtProvider
           \/ ClearConflict \/ RemoveConnection
  PROVE  CredInv'
<1> USE DEF oauth, past
<1>1. VersionGrows' /\ RevokedStaysEmpty'
  BY RecordStands DEF BeginEnd, RevokeAtProvider, ClearConflict, RemoveConnection
<1>2. CredTypeOK'
  <2>1. ASSUME NEW aim \in {"revoke", "delete"}, BeginEnd(aim) PROVE CredTypeOK'
    <3>1. admin' \in Ending /\ ends' \in Nat
      BY <2>1 DEF BeginEnd, Ending, CredInv, CredTypeOK
    <3>2. QED
      BY <2>1, <3>1 DEF BeginEnd, Ending, CredInv, CredTypeOK
  <2>2. CASE RevokeAtProvider
    <3>1. admin \in Ending
      BY <2>2 DEF RevokeAtProvider, Unused, Ending, CredInv, CredTypeOK
    <3>2. [admin EXCEPT !.pc = "clear"] \in Ending /\ admin.tok \in Nat
      BY <3>1 DEF Ending
    <3>3. QED
      BY <2>2, <3>2 DEF RevokeAtProvider, Ending, CredInv, CredTypeOK
  <2>3. CASE ClearConflict
    <3>1. admin \in Ending
      BY <2>3 DEF ClearConflict, Unused, Ending, CredInv, CredTypeOK
    <3>2. [admin EXCEPT !.pc = "mark"] \in Ending
      BY <3>1 DEF Ending
    <3>3. CASE admin.tries > 1
      <4>1. admin.tries = 2 /\ cred.ver \in Nat
        BY <3>1, <3>3 DEF Ending, CredInv, CredTypeOK
      <4>2. admin.tries - 1 \in 1..2
        BY <4>1
      <4>3. [admin EXCEPT !.ver = cred.ver, !.tries = admin.tries - 1] \in Ending
        BY <3>1, <4>1, <4>2 DEF Ending
      <4>4. admin' = [admin EXCEPT !.ver = cred.ver, !.tries = admin.tries - 1]
        BY <2>3, <3>3 DEF ClearConflict
      <4>5. QED
        BY <2>3, <4>3, <4>4 DEF ClearConflict, CredInv, CredTypeOK
    <3>4. CASE ~(admin.tries > 1)
      BY <2>3, <3>2, <3>4 DEF ClearConflict, Ending, CredInv, CredTypeOK
    <3>5. QED
      BY <3>3, <3>4
  <2>4. CASE RemoveConnection
    BY <2>4 DEF RemoveConnection, CredInv, CredTypeOK
  <2>5. QED
    BY <2>1, <2>2, <2>3, <2>4
<1>3. QED
  BY <1>1, <1>2 DEF CredInv

(* The record is emptied under its version, and that version is new: every *)
(* reading from before is older.                                           *)
LEMMA ClearInv ==
  ASSUME CredInv, ClearStored
  PROVE  CredInv'
<1> USE DEF oauth, past
<1>1. admin \in Ending
  BY DEF ClearStored, Unused, Ending, CredInv, CredTypeOK
<1>2. cred' = [ver |-> admin.ver + 1, tok |-> 0, live |-> FALSE] /\ cleared' = TRUE
  BY DEF ClearStored, Emptied
<1>3. CredTypeOK'
  <2>1. [admin EXCEPT !.pc = "mark"] \in Ending
    BY <1>1 DEF Ending
  <2>2. cred' \in [ver : Nat, tok : Nat, live : BOOLEAN] /\ ~cred'.live
    BY <1>1, <1>2 DEF Ending
  <2>3. QED
    BY <1>2, <2>1, <2>2 DEF ClearStored, Ending, CredInv, CredTypeOK
<1>4. ~rewound => admin.ver = cred.ver
  BY DEF ClearStored, PutPasses, CredInv, VersionGrows
<1>5. VersionGrows'
  <2>1. cred'.ver = admin.ver + 1 /\ admin.ver \in Nat
    BY <1>1, <1>2 DEF Ending
  <2>2. user' = user /\ rewound' = rewound
    BY DEF ClearStored
  <2>3. ASSUME ~rewound, NEW w \in Refreshers, user[w] # Unused
        PROVE  user[w].ver < cred'.ver
    <3>1. user[w].ver \in Nat /\ user[w].ver <= cred.ver
      BY <2>3 DEF CredInv, CredTypeOK, VersionGrows, Using
    <3>2. QED
      BY <1>4, <2>1, <2>3, <3>1
  <2>4. ASSUME NEW w \in Refreshers, user[w] # Unused PROVE user[w].ver \in Nat
    BY <2>4 DEF CredInv, CredTypeOK, Using
  <2>5. QED
    BY <2>1, <2>2, <2>3, <2>4 DEF VersionGrows
<1>6. QED
  BY <1>2, <1>3, <1>5 DEF CredInv, RevokedStaysEmpty

(* A delete ends the line of versions.                                     *)
LEMMA MarkInv ==
  ASSUME CredInv, MarkEnded
  PROVE  CredInv'
<1> USE DEF oauth, past
<1>1. admin \in Ending
  BY DEF MarkEnded, Unused, Ending, CredInv, CredTypeOK
<1>2. CASE admin.aim = "revoke"
  <2>1. VersionGrows' /\ RevokedStaysEmpty'
    BY <1>2, RecordStands DEF MarkEnded
  <2>2. CredTypeOK'
    BY <1>2 DEF MarkEnded, CredInv, CredTypeOK
  <2>3. QED
    BY <2>1, <2>2 DEF CredInv
<1>3. CASE admin.aim # "revoke"
  <2>1. [admin EXCEPT !.pc = "remove"] \in Ending
    BY <1>1 DEF Ending
  <2>2. Empty \in [ver : Nat, tok : Nat, live : BOOLEAN] /\ ~Empty.live
    BY DEF Empty
  <2>3. CredTypeOK'
    BY <1>3, <2>1, <2>2 DEF MarkEnded, CredInv, CredTypeOK
  <2>4. VersionGrows' /\ RevokedStaysEmpty'
    BY <1>3 DEF MarkEnded, VersionGrows, RevokedStaysEmpty
  <2>5. QED
    BY <2>3, <2>4 DEF CredInv
<1>4. QED
  BY <1>2, <1>3

(* What a consent under way holds.                                         *)
LEMMA ConsentTyped ==
  ASSUME CredInv
  PROVE  /\ consent.pc = "code" => consent.old \in Nat
         /\ consent.pc \in {"version", "put"} => consent.tok \in Nat /\ consent.new \in BOOLEAN
         /\ consent.pc = "put" => consent.ver \in Nat
<1>1. consent \in {Unused} \cup Consenting
  BY DEF CredInv, CredTypeOK
<1>2. CASE consent = Unused
  BY <1>2 DEF Unused
<1>3. CASE consent \in [pc : {"version"}, tok : Nat, new : BOOLEAN]
  BY <1>3
<1>4. CASE consent \in [pc : {"put"}, tok : Nat, new : BOOLEAN, ver : Nat]
  BY <1>4
<1>5. CASE consent \in [pc : {"connect"}]
  BY <1>5
<1>6. CASE consent \in [pc : {"code"}, old : Nat]
  BY <1>6
<1>7. QED
  BY <1>1, <1>2, <1>3, <1>4, <1>5, <1>6 DEF Consenting

(* A consent that has not reached the record, and leaves its call well     *)
(* formed.                                                                 *)
LEMMA ConsentApart ==
  ASSUME CredInv,
         issued' \in Nat, honoured' \subseteq Nat,
         status' \in {"connected", "revoked", "gone"},
         consent' \in {Unused} \cup Consenting, consents' \in Nat,
         UNCHANGED <<rotates, cred, user, admin>>,
         UNCHANGED <<cleared, rewound, withdrawn, reused, ends, lost>>
  PROVE  CredInv'
<1>1. VersionGrows' /\ RevokedStaysEmpty'
  BY RecordStands
<1>2. CredTypeOK'
  BY DEF CredInv, CredTypeOK
<1>3. QED
  BY <1>1, <1>2 DEF CredInv

(* A consent puts without a condition: over a version that is not older    *)
(* than its own it breaks the line.                                        *)
LEMMA ConsentInv ==
  ASSUME CredInv,
         BeginConsent \/ ExchangeCode \/ ReadVersion \/ PutConsent \/ MarkConnected \/ ConsentFails
  PROVE  CredInv'
<1> USE DEF oauth, past
<1>1. /\ issued \in Nat /\ honoured \subseteq Nat /\ cred.ver \in Nat /\ cred.tok \in Nat
      /\ status \in {"connected", "revoked", "gone"} /\ consents \in Nat
  BY DEF CredInv, CredTypeOK
<1>2. CASE BeginConsent
  <2>1. consent' \in Consenting /\ consents' \in Nat
    BY <1>1, <1>2 DEF BeginConsent, Consenting
  <2>2. /\ UNCHANGED <<rotates, issued, honoured, cred, status, user, admin>>
        /\ UNCHANGED <<cleared, rewound, withdrawn, reused, ends, lost>>
    BY <1>2 DEF BeginConsent
  <2>3. QED
    BY <1>1, <2>1, <2>2, ConsentApart
<1>3. CASE ExchangeCode
  <2>1. consent.old \in Nat
    BY <1>3, ConsentTyped DEF ExchangeCode
  <2>2. ASSUME issued' = issued + 1, honoured' = honoured \cup {issued'},
               consent' = [pc |-> "version", tok |-> issued', new |-> TRUE]
        PROVE  issued' \in Nat /\ honoured' \subseteq Nat /\ consent' \in Consenting
    BY <1>1, <2>2 DEF Consenting
  <2>3. ASSUME issued' = issued, honoured' = honoured,
               consent' = [pc |-> "version", tok |-> consent.old, new |-> FALSE]
        PROVE  issued' \in Nat /\ honoured' \subseteq Nat /\ consent' \in Consenting
    BY <1>1, <2>1, <2>3 DEF Consenting
  <2>4. issued' \in Nat /\ honoured' \subseteq Nat /\ consent' \in Consenting
    BY <1>3, <2>2, <2>3, Zenon DEF ExchangeCode
  <2>5. UNCHANGED <<rotates, cred, status, user, admin, past>>
    BY <1>3 DEF ExchangeCode
  <2>6. QED
    BY <1>1, <2>4, <2>5, ConsentApart
<1>4. CASE ReadVersion
  <2>1. consent.tok \in Nat /\ consent.new \in BOOLEAN
    BY <1>4, ConsentTyped DEF ReadVersion
  <2>2. consent' \in Consenting
    BY <1>1, <1>4, <2>1 DEF ReadVersion, Consenting
  <2>3. UNCHANGED <<oauth, cred, status, user, admin, past>>
    BY <1>4 DEF ReadVersion
  <2>4. QED
    BY <1>1, <2>2, <2>3, ConsentApart
<1>5. CASE MarkConnected
  <2>1. /\ status' = "connected" /\ consent' = Unused
        /\ UNCHANGED <<oauth, cred, user, admin, past>>
    BY <1>5 DEF MarkConnected
  <2>2. QED
    BY <1>1, <2>1, ConsentApart
<1>6. CASE ConsentFails
  <2>1. consent' = Unused /\ UNCHANGED <<oauth, cred, status, user, admin, past>>
    BY <1>6 DEF ConsentFails
  <2>2. QED
    BY <1>1, <2>1, ConsentApart
<1>7. CASE PutConsent
  <2>1. consent.tok \in Nat /\ consent.ver \in Nat
    BY <1>7, ConsentTyped DEF PutConsent
  <2>2. /\ cred' = [ver |-> consent.ver, tok |-> consent.tok, live |-> TRUE]
        /\ ~cleared' /\ rewound' = (rewound \/ consent.ver <= cred.ver)
    BY <1>7 DEF PutConsent
  <2>3. CredTypeOK'
    <3>1. cred' \in [ver : Nat, tok : Nat, live : BOOLEAN]
      BY <2>1, <2>2
    <3>4. reused' \subseteq reused \cup {consent.tok} /\ reused \subseteq Nat
      BY <1>7, Zenon DEF PutConsent, CredInv, CredTypeOK
    <3>2. [pc |-> "connect"] \in Consenting
      BY DEF Consenting
    <3>3. QED
      BY <1>7, <2>1, <2>2, <3>1, <3>2, <3>4 DEF PutConsent, CredInv, CredTypeOK
  <2>4. VersionGrows'
    <3> SUFFICES ASSUME ~rewound'
                 PROVE  cred'.ver > 0 /\ \A w \in Refreshers : user[w] # Unused => user[w].ver <= cred'.ver
      BY <1>7, <2>2 DEF PutConsent, VersionGrows
    <3>1. cred.ver \in Nat /\ cred'.ver \in Nat /\ cred'.ver = consent.ver
      BY <2>1, <2>2 DEF CredInv, CredTypeOK
    <3>2. ~rewound /\ cred'.ver > cred.ver
      <4>1. ~(rewound \/ consent.ver <= cred.ver)
        BY <2>2, Zenon
      <4>2. ~rewound /\ ~(cred'.ver <= cred.ver)
        BY <3>1, <4>1
      <4>3. QED
        BY <3>1, <4>2
    <3>3. \A w \in Refreshers : user[w] # Unused => user[w].ver \in Nat
      BY DEF CredInv, CredTypeOK, Using
    <3>4. QED
      BY <3>1, <3>2, <3>3 DEF CredInv, VersionGrows
  <2>5. QED
    BY <2>2, <2>3, <2>4 DEF CredInv, RevokedStaysEmpty
<1>8. QED
  BY <1>7, <1>2, <1>4, <1>5, <1>6, <1>3

-----------------------------------------------------------------------------
(* The theorems.                                                           *)

LEMMA CredStep == CredInv /\ [CredNext]_credVars => CredInv'
<1> SUFFICES ASSUME CredInv, [CredNext]_credVars PROVE CredInv'
  OBVIOUS
<1>1. CASE CredNext
  BY <1>1, ClockInv, RefresherInv, EndingInv, ClearInv, MarkInv, ConsentInv DEF CredNext
<1>2. CASE UNCHANGED credVars
  BY <1>2 DEF credVars, CredInv, CredTypeOK, VersionGrows, RevokedStaysEmpty
<1>3. QED
  BY <1>1, <1>2

(* The record keeps its shape, and versions grow until a consent or a      *)
(* delete breaks their line.                                               *)
THEOREM CredInvariant == CredSpec => []CredInv
<1>1. CredInit => CredInv
  BY CredInitInv
<1>2. CredInv /\ [CredNext]_credVars => CredInv'
  BY CredStep
<1>3. QED
  BY <1>1, <1>2, PTL DEF CredSpec

(* No refresh under way puts tokens back behind a revoke.                  *)
THEOREM RevokeIsFinal == CredSpec => []RevokedStaysEmpty
<1>1. CredInv => RevokedStaysEmpty
  BY DEF CredInv
<1>2. QED
  BY <1>1, CredInvariant, PTL

-----------------------------------------------------------------------------
(* The token the provider accepts.                                         *)

(* The first token is stored and accepted.                                 *)
LEMMA TokenInitInv == CredInit => TokenInv
<1> SUFFICES ASSUME CredInit PROVE TokenInv
  OBVIOUS
<1> USE DEF CredInit
<1>1. cred.tok = 1 /\ issued = 1 /\ honoured = {1} /\ withdrawn = {}
  OBVIOUS
<1>2. \A w \in Refreshers : ~Asks(w) /\ ~Storing(w)
  BY DEF Asks, Storing, Unused
<1>3. ~Granting /\ consent.pc # "code"
  BY DEF Granting, Unused
<1>4. \A w \in Refreshers : user[w].pc \notin {"exchange", "store"}
  BY DEF Unused
<1>5. QED
  BY <1>1, <1>2, <1>3, <1>4 DEF TokenInv, Issued, Kept, Rotated, Good

(* What the calls under way hold.                                          *)
LEMMA HoldsTyped ==
  ASSUME CredInv
  PROVE  /\ \A w \in Refreshers : Storing(w) => Asks(w)
         /\ \A w \in Refreshers : Asks(w) =>
              user[w] \in Using /\ user[w].tok \in Nat /\ user[w].ver \in Nat
         /\ Granting => consent.tok \in Nat /\ consent.new \in BOOLEAN /\ consent.pc # "code"
         /\ consent.pc = "code" => consent.old \in Nat
         /\ issued \in Nat /\ cred.tok \in Nat /\ cred.ver \in Nat /\ lost \in Nat
<1>1. \A w \in Refreshers : Storing(w) => Asks(w)
  BY DEF Storing, Asks, Unused
<1>2. \A w \in Refreshers : Asks(w) =>
        user[w] \in Using /\ user[w].tok \in Nat /\ user[w].ver \in Nat
  BY DEF Asks, CredInv, CredTypeOK, Using
<1>3. QED
  BY <1>1, <1>2, ConsentTyped DEF Granting, CredInv, CredTypeOK

(* The steps that leave the record and the calls where they were.          *)
LEMMA QuietTokens ==
  ASSUME CredInv, TokenInv, rotates' = rotates, issued' = issued, lost' = lost, user' = user,
         \A tok : Good(tok) => Good(tok)', reused' = reused,
         cred'.tok = cred.tok, cred'.ver = cred.ver,
         Granting' => Granting /\ consent'.tok = consent.tok /\ consent'.new = consent.new,
         consent'.pc = "code" =>
           \/ consent.pc = "code" /\ consent'.old = consent.old
           \/ consent'.old = cred.tok
  PROVE  TokenInv'
<1>1. Issued'
  BY DEF TokenInv, Issued, Asks
<1>2. CASE rotates
  <2>1. Rotated
    BY <1>2 DEF TokenInv
  <2>2. Rotated'
    BY <2>1 DEF Rotated, Asks, Storing
  <2>3. QED
    BY <1>1, <1>2, <2>2 DEF TokenInv
<1>3. CASE ~rotates
  BY <1>1, <1>3 DEF TokenInv, Kept
<1>4. QED
  BY <1>2, <1>3

(* The record is emptied, by a revoke or a delete.                         *)
LEMMA EmptiedTokens ==
  ASSUME CredInv, TokenInv,
         UNCHANGED <<rotates, issued, honoured, withdrawn, reused, lost, user, consent>>,
         cred'.tok = 0
  PROVE  TokenInv'
<1>1. Issued'
  BY HoldsTyped DEF TokenInv, Issued, Asks, Granting
<1>2. CASE rotates
  <2>1. Rotated
    BY <1>2 DEF TokenInv
  <2>2. /\ \A w \in Refreshers : Storing(w) => user[w].tok # 0
        /\ Granting /\ consent.new => consent.tok # 0
    BY DEF TokenInv, Issued, Storing
  <2>3. \A w \in Refreshers : (Storing(w)' <=> Storing(w)) /\ (Asks(w)' <=> Asks(w))
    BY DEF Storing, Asks
  <2>4. (Granting' <=> Granting) /\ \A tok : Good(tok) => tok \in honoured' \cup withdrawn'
    BY DEF Granting, Good
  <2>5. Rotated'
    BY <2>1, <2>2, <2>3, <2>4 DEF Rotated, Good
  <2>6. QED
    BY <1>1, <1>2, <2>5 DEF TokenInv
<1>3. CASE ~rotates
  BY <1>1, <1>3 DEF TokenInv, Kept, Good
<1>4. QED
  BY <1>2, <1>3

(* A call that stores nothing now, and does not leave a write behind that  *)
(* would have passed: it is through, or at a token it read.                *)
LEMMA ReadingTokens ==
  ASSUME CredInv, TokenInv, NEW w \in Refreshers,
         UNCHANGED <<rotates, issued, honoured, withdrawn, reused, cred, consent>>,
         \A v \in Refreshers \ {w} : user'[v] = user[v],
         ~Storing(w)', user'[w].pc = "exchange" => user'[w].tok # 0,
         lost' >= lost, lost' \in Nat,
         Storing(w) /\ user[w].ver = cred.ver => lost' > 0,
         Asks(w)' => \/ user'[w].tok = cred.tok /\ user'[w].ver = cred.ver
                     \/ Asks(w) /\ user'[w].tok = user[w].tok /\ user'[w].ver = user[w].ver
  PROVE  TokenInv'
<1>1. /\ \A v \in Refreshers : Asks(v)' =>
           \/ user'[v].tok = cred.tok /\ user'[v].ver = cred.ver
           \/ Asks(v) /\ user'[v].tok = user[v].tok /\ user'[v].ver = user[v].ver
      /\ \A v \in Refreshers : Storing(v)' => v # w /\ Storing(v) /\ user'[v] = user[v]
      /\ Granting' = Granting
  BY DEF Asks, Storing, Granting
<1>2. Issued'
  <2>1. \A v \in Refreshers : user'[v].pc \in {"exchange", "store"} => user'[v].tok # 0
    BY DEF TokenInv, Issued, Storing
  <2>2. QED
    BY <1>1, <2>1 DEF TokenInv, Issued
<1>3. CASE rotates
  <2>1. Rotated
    BY <1>3 DEF TokenInv
  <2>2. \A v \in Refreshers : Asks(v)' /\ user'[v].tok = cred.tok =>
          user'[v].ver = cred.ver \/ cred.tok \in reused \cup {0}
    BY <1>1, <2>1 DEF Rotated
  <2>3. \A v \in Refreshers : Storing(v)' =>
          /\ Good(user[v].tok) /\ user[v].tok # cred.tok /\ user'[v] = user[v]
          /\ \A u \in Refreshers \ {v} : Asks(u)' => user'[u].tok # user[v].tok
          /\ Granting => user[v].tok # consent.tok
          /\ consent.pc = "code" => user[v].tok # consent.old
    <3> SUFFICES ASSUME NEW v \in Refreshers, Storing(v)'
                 PROVE  /\ Good(user[v].tok) /\ user[v].tok # cred.tok /\ user'[v] = user[v]
                        /\ \A u \in Refreshers \ {v} : Asks(u)' => user'[u].tok # user[v].tok
                        /\ Granting => user[v].tok # consent.tok
                        /\ consent.pc = "code" => user[v].tok # consent.old
      OBVIOUS
    <3>1. Storing(v) /\ user'[v] = user[v]
      BY <1>1
    <3>2. /\ Good(user[v].tok) /\ user[v].tok # cred.tok
          /\ \A u \in Refreshers \ {v} : Asks(u) => user[u].tok # user[v].tok
          /\ Granting => user[v].tok # consent.tok
          /\ consent.pc = "code" => user[v].tok # consent.old
      BY <2>1, <3>1 DEF Rotated
    <3>3. QED
      BY <1>1, <3>1, <3>2
  <2>4. Granting /\ consent.new =>
          /\ Good(consent.tok) /\ consent.tok # cred.tok
          /\ \A v \in Refreshers : Asks(v)' => user'[v].tok # consent.tok
    BY <1>1, <2>1 DEF Rotated
  <2>5. cred.tok # 0 =>
          \/ Good(cred.tok) \/ lost' > 0 \/ cred.tok \in reused
          \/ \E v \in Refreshers : Storing(v)' /\ user'[v].ver = cred.ver
    <3>1. lost > 0 => lost' > 0
      BY HoldsTyped
    <3>2. ASSUME NEW v \in Refreshers, Storing(v), user[v].ver = cred.ver
          PROVE  lost' > 0 \/ (Storing(v)' /\ user'[v].ver = cred.ver)
      BY <3>2 DEF Storing
    <3>3. QED
      BY <2>1, <3>1, <3>2 DEF Rotated
  <2>6. Rotated'
    BY <1>1, <2>2, <2>3, <2>4, <2>5 DEF Rotated, Good
  <2>7. QED
    BY <1>2, <1>3, <2>6 DEF TokenInv
<1>4. CASE ~rotates
  BY <1>2, <1>4 DEF TokenInv, Kept, Good
<1>5. QED
  BY <1>3, <1>4

(* The provider replaces the token it is shown: whoever showed the stored  *)
(* one will store its successor, which nobody else has.                    *)
LEMMA ExchangeTokens ==
  ASSUME CredInv, TokenInv, NEW w \in Refreshers, Exchange(w)
  PROVE  TokenInv'
<1> USE DEF past
<1>1. /\ Asks(w) /\ ~Storing(w) /\ user[w] \in Using /\ user[w].tok \in Nat \ {0}
      /\ issued \in Nat /\ user \in [Refreshers -> {Unused} \cup Using]
  <2>1. Asks(w) /\ ~Storing(w)
    BY DEF Exchange, Asks, Storing, Unused
  <2>2. user[w].tok # 0
    BY DEF TokenInv, Issued, Exchange
  <2>3. QED
    BY <2>1, <2>2, HoldsTyped DEF CredInv, CredTypeOK
<1>2. UNCHANGED <<rotates, cred, consent, withdrawn, reused, lost>>
  BY DEF Exchange
<1>3. CASE user[w].tok \notin honoured
  <2>1. user' = [user EXCEPT ![w] = Unused] /\ UNCHANGED <<issued, honoured>>
    BY <1>3 DEF Exchange
  <2>2. /\ \A v \in Refreshers \ {w} : user'[v] = user[v]
        /\ ~Asks(w)' /\ ~Storing(w)' /\ user'[w].pc # "exchange"
    BY <1>1, <2>1 DEF Asks, Storing, Unused
  <2>3. QED
    BY <1>1, <1>2, <2>1, <2>2, HoldsTyped, ReadingTokens
<1>4. CASE user[w].tok \in honoured
  <2> DEFINE old == user[w].tok
             new == Keep(old, issued')
             next == [user[w] EXCEPT !.pc = "store", !.tok = new]
  <2>1. user' = [user EXCEPT ![w] = next]
    BY <1>1, <1>4 DEF Exchange, Using
  <2>2. /\ user'[w] = next /\ next.pc = "store" /\ next.tok = new /\ next.ver = user[w].ver
        /\ \A v \in Refreshers \ {w} : user'[v] = user[v]
    BY <1>1, <2>1 DEF Using
  <2> HIDE DEF next
  <2>3. /\ \A v \in Refreshers \ {w} : (Asks(v)' <=> Asks(v)) /\ (Storing(v)' <=> Storing(v))
        /\ Storing(w)' /\ Asks(w)' /\ (Granting' <=> Granting)
    <3>1. Unused.pc = "idle"
      BY DEF Unused
    <3>2. Storing(w)' /\ Asks(w)'
      BY <2>2, <3>1 DEF Asks, Storing
    <3>3. \A v \in Refreshers \ {w} : (Asks(v)' <=> Asks(v)) /\ (Storing(v)' <=> Storing(v))
      BY <2>2 DEF Asks, Storing
    <3>4. QED
      BY <1>2, <3>2, <3>3 DEF Granting
  <2>4. CASE rotates
    <3>1. issued' = issued + 1 /\ honoured' = (honoured \ {old}) \cup {issued'} /\ new = issued'
      BY <1>4, <2>4 DEF Exchange, Keep
    <3>2. \A tok : Good(tok) /\ tok # old => Good(tok)'
      BY <1>2, <3>1 DEF Good
    <3>3. new \in honoured'
      BY <3>1
    <3> Issued /\ Rotated
      BY <2>4 DEF TokenInv
    <3>4. /\ cred.tok < new
          /\ \A v \in Refreshers : Asks(v) => user[v].tok < new
          /\ Granting => consent.tok < new
          /\ consent.pc = "code" => consent.old < new
          /\ new = issued' /\ issued < issued'
      BY <1>1, <3>1, HoldsTyped DEF Issued
    <3> HIDE DEF new
    <3>5. Issued'
      BY <1>1, <1>2, <2>2, <2>3, <3>1, <3>4, HoldsTyped DEF Issued
    <3>6. cred.tok # new /\ \A v \in Refreshers : Asks(v) => user[v].tok # new
      BY <3>4, HoldsTyped
    <3>7. /\ Granting => consent.tok # new
          /\ consent.pc = "code" => consent.old # new
      BY <3>4, HoldsTyped
    <3>8. \A v \in Refreshers : Asks(v)' /\ user'[v].tok = cred'.tok =>
            user'[v].ver = cred'.ver \/ cred'.tok \in reused' \cup {0}
      BY <1>2, <2>2, <2>3, <3>6 DEF Rotated
    <3>9. \A v \in Refreshers : Storing(v)' =>
            /\ user'[v].tok \in honoured' \cup withdrawn' /\ user'[v].tok # cred'.tok
            /\ \A u \in Refreshers \ {v} : Asks(u)' => user'[u].tok # user'[v].tok
            /\ Granting => user'[v].tok # consent.tok
            /\ consent.pc = "code" => user'[v].tok # consent.old
      <4> SUFFICES ASSUME NEW v \in Refreshers, Storing(v)'
                   PROVE  /\ user'[v].tok \in honoured' \cup withdrawn'
                          /\ user'[v].tok # cred'.tok
                          /\ \A u \in Refreshers \ {v} : Asks(u)' => user'[u].tok # user'[v].tok
                          /\ Granting => user'[v].tok # consent.tok
                          /\ consent.pc = "code" => user'[v].tok # consent.old
        OBVIOUS
      <4>1. CASE v = w
        <5>1. user'[v].tok = new
          BY <2>2, <4>1
        <5>2. \A u \in Refreshers \ {v} : Asks(u)' => user'[u].tok # new
          BY <2>2, <2>3, <3>6, <4>1
        <5>3. QED
          BY <1>2, <3>3, <3>6, <3>7, <5>1, <5>2 DEF Good
      <4>2. CASE v # w
        <5>1. Storing(v) /\ user'[v] = user[v] /\ Asks(v)
          BY <2>2, <2>3, <4>2, HoldsTyped
        <5>2. /\ Good(user[v].tok) /\ user[v].tok # cred.tok /\ user[v].tok # old
              /\ \A u \in Refreshers \ {v} : Asks(u) => user[u].tok # user[v].tok
              /\ Granting => user[v].tok # consent.tok
              /\ consent.pc = "code" => user[v].tok # consent.old
          BY <1>1, <4>2, <5>1 DEF Rotated
        <5>3. \A u \in Refreshers \ {v} : Asks(u)' => user'[u].tok # user[v].tok
          BY <2>2, <2>3, <3>6, <5>1, <5>2
        <5>4. QED
          BY <1>2, <3>2, <5>1, <5>2, <5>3 DEF Good
      <4>3. QED
        BY <4>1, <4>2
    <3>10. Granting' /\ consent'.new =>
            /\ consent'.tok \in honoured' \cup withdrawn' /\ consent'.tok # cred'.tok
            /\ \A v \in Refreshers : Asks(v)' => user'[v].tok # consent'.tok
      <4> SUFFICES ASSUME Granting, consent.new
                   PROVE  /\ consent.tok \in honoured' \cup withdrawn' /\ consent.tok # cred.tok
                          /\ \A v \in Refreshers : Asks(v)' => user'[v].tok # consent.tok
        BY <1>2, <2>3
      <4>1. /\ Good(consent.tok) /\ consent.tok # cred.tok /\ consent.tok # old
            /\ \A v \in Refreshers : Asks(v) => user[v].tok # consent.tok
        BY <1>1 DEF Rotated
      <4>2. \A v \in Refreshers : Asks(v)' => user'[v].tok # consent.tok
        BY <2>2, <2>3, <3>7, <4>1
      <4>3. QED
        BY <1>2, <3>2, <4>1, <4>2 DEF Good
    <3>11. cred.tok # 0 =>
            \/ cred.tok \in honoured' \cup withdrawn' \/ lost > 0 \/ cred.tok \in reused
            \/ \E v \in Refreshers : Storing(v)' /\ user'[v].ver = cred.ver
      <4>1. CASE cred.tok = old
        <5>1. user[w].ver = cred.ver \/ cred.tok \in reused
          BY <1>1, <4>1 DEF Rotated
        <5>2. QED
          BY <2>2, <2>3, <5>1
      <4>2. CASE cred.tok # old
        <5>1. Good(cred.tok) => cred.tok \in honoured' \cup withdrawn'
          BY <1>2, <3>2, <4>2 DEF Good
        <5>2. ASSUME NEW v \in Refreshers, Storing(v), user[v].ver = cred.ver
              PROVE  Storing(v)' /\ user'[v].ver = cred.ver
          BY <1>1, <2>2, <2>3, <5>2
        <5>3. QED
          BY <5>1, <5>2 DEF Rotated
      <4>3. QED
        BY <4>1, <4>2
    <3>12. Rotated'
      <4>1. cred' = cred /\ consent' = consent /\ reused' = reused /\ lost' = lost
        BY <1>2
      <4>2. \A v \in Refreshers : Storing(v)' =>
              /\ Good(user[v].tok)' /\ user'[v].tok # cred'.tok
              /\ \A u \in Refreshers \ {v} : Asks(u)' => user'[u].tok # user'[v].tok
              /\ Granting' => user'[v].tok # consent'.tok
              /\ consent'.pc = "code" => user'[v].tok # consent'.old
        BY <2>3, <3>9, <4>1 DEF Good
      <4>3. Granting' /\ consent'.new =>
              /\ Good(consent.tok)' /\ consent'.tok # cred'.tok
              /\ \A v \in Refreshers : Asks(v)' => user'[v].tok # consent'.tok
        BY <3>10 DEF Good
      <4>4. QED
        BY <3>8, <3>11, <4>1, <4>2, <4>3 DEF Rotated, Good
    <3>13. QED
      BY <1>2, <2>4, <3>5, <3>12 DEF TokenInv
  <2>5. CASE ~rotates
    <3>1. issued' = issued /\ honoured' = honoured /\ new = old
      BY <1>4, <2>5 DEF Exchange, Keep
    <3>2. Issued'
      BY <1>1, <1>2, <2>2, <2>3, <3>1 DEF TokenInv, Issued
    <3>3. Kept'
      BY <1>2, <2>5, <3>1 DEF TokenInv, Kept, Good
    <3>4. QED
      BY <1>2, <2>5, <3>2, <3>3 DEF TokenInv
  <2>6. QED
    BY <2>4, <2>5
<1>5. QED
  BY <1>3, <1>4

(* A token that is put is accepted and was nobody else's, or a consent     *)
(* kept it.                                                                *)
LEMMA PutTokens ==
  ASSUME CredInv, TokenInv, UNCHANGED <<rotates, issued, honoured, withdrawn, lost>>,
         reused \subseteq reused', cred'.tok \in Nat, cred'.tok <= issued,
         rotates => Good(cred'.tok) \/ cred'.tok \in reused',
         \A w \in Refreshers : Asks(w)' => Asks(w) /\ user'[w] = user[w],
         Granting' => Granting /\ consent' = consent,
         consent'.pc = "code" => consent' = consent,
         rotates => \A w \in Refreshers : Asks(w)' =>
           user[w].tok # cred'.tok \/ (cred'.tok \in reused' /\ ~Storing(w)),
         rotates /\ Granting' /\ consent.new => consent.tok # cred'.tok
  PROVE  TokenInv'
<1>1. \A w \in Refreshers : user'[w].pc \in {"exchange", "store"} =>
        Asks(w)' /\ user'[w] = user[w]
  BY DEF Asks, Unused
<1>2. Issued'
  BY <1>1 DEF TokenInv, Issued
<1>3. CASE rotates
  <2>1. Rotated
    BY <1>3 DEF TokenInv
  <2>2. \A w \in Refreshers : Storing(w)' => Asks(w)' /\ Storing(w) /\ user'[w] = user[w]
    BY <1>1 DEF Storing
  <2>3. \A w \in Refreshers : Asks(w)' /\ user'[w].tok = cred'.tok =>
          user'[w].ver = cred'.ver \/ cred'.tok \in reused' \cup {0}
    BY <1>3
  <2>4. ASSUME NEW w \in Refreshers, Storing(w)'
        PROVE  /\ user'[w].tok \in honoured' \cup withdrawn' /\ user'[w].tok # cred'.tok
               /\ \A v \in Refreshers \ {w} : Asks(v)' => user'[v].tok # user'[w].tok
               /\ Granting' => user'[w].tok # consent'.tok
               /\ consent'.pc = "code" => user'[w].tok # consent'.old
    <3>1. Storing(w) /\ user'[w] = user[w] /\ Asks(w)'
      BY <2>2, <2>4
    <3>2. /\ Good(user[w].tok)
          /\ \A v \in Refreshers \ {w} : Asks(v) => user[v].tok # user[w].tok
          /\ Granting => user[w].tok # consent.tok
          /\ consent.pc = "code" => user[w].tok # consent.old
      BY <2>1, <3>1 DEF Rotated
    <3>3. user[w].tok # cred'.tok
      BY <1>3, <3>1
    <3>4. QED
      BY <3>1, <3>2, <3>3 DEF Good
  <2>5. Granting' /\ consent'.new =>
          /\ consent'.tok \in honoured' \cup withdrawn' /\ consent'.tok # cred'.tok
          /\ \A w \in Refreshers : Asks(w)' => user'[w].tok # consent'.tok
    BY <1>3, <2>1 DEF Rotated, Good
  <2>6. cred'.tok \in honoured' \cup withdrawn' \/ cred'.tok \in reused'
    BY <1>3 DEF Good
  <2>7. Rotated'
    BY <2>3, <2>4, <2>5, <2>6 DEF Rotated, Good
  <2>8. QED
    BY <1>2, <1>3, <2>7 DEF TokenInv
<1>4. CASE ~rotates
  BY <1>2, <1>4 DEF TokenInv, Kept, Good
<1>5. QED
  BY <1>3, <1>4

(* A refreshed token is stored.  With a provider that keeps tokens it may  *)
(* be the one that is there.                                               *)
LEMMA StoreTokens ==
  ASSUME CredInv, TokenInv, NEW w \in Refreshers, Store(w)
  PROVE  TokenInv'
<1> USE DEF oauth, past
<1>1. Storing(w) /\ Asks(w) /\ user[w].tok \in Nat
  BY HoldsTyped DEF Store, Storing
<1>2. /\ cred' = [ver |-> user[w].ver + 1, tok |-> user[w].tok, live |-> TRUE]
      /\ user' = [user EXCEPT ![w] = Unused]
      /\ UNCHANGED <<rotates, issued, honoured, withdrawn, reused, lost, consent>>
  BY DEF Store
<1>3. /\ cred'.tok = user[w].tok
      /\ \A v \in Refreshers : Asks(v)' => v # w /\ Asks(v) /\ user'[v] = user[v]
      /\ \A v \in Refreshers : Storing(v)' => v # w /\ Storing(v)
      /\ Granting' <=> Granting
  BY <1>2 DEF CredInv, CredTypeOK, Asks, Storing, Granting, Unused
<1>4. cred'.tok <= issued /\ Issued'
  <2>1. \A v \in Refreshers : user'[v].pc \in {"exchange", "store"} =>
          user'[v] = user[v]
    BY <1>3 DEF Asks, Unused
  <2>2. QED
    BY <1>1, <1>2, <1>3, <2>1 DEF TokenInv, Issued
<1>5. CASE rotates
  <2>1. Rotated
    BY <1>5 DEF TokenInv
  <2>2. /\ Good(cred'.tok)
        /\ \A v \in Refreshers : Asks(v)' => user[v].tok # cred'.tok
        /\ Granting => consent.tok # cred'.tok
    BY <1>1, <1>3, <2>1 DEF Rotated
  <2>3. QED
    BY <1>1, <1>2, <1>3, <1>4, <2>2, PutTokens
<1>6. CASE ~rotates
  BY <1>2, <1>4, <1>6 DEF TokenInv, Kept, Good
<1>7. QED
  BY <1>5, <1>6

(* The code of a consent is exchanged for a token that nobody has, or for  *)
(* none: then the one that was read before stays, and nobody stores it.    *)
LEMMA GrantTokens ==
  ASSUME CredInv, TokenInv, ExchangeCode
  PROVE  TokenInv'
<1> USE DEF past
<1>1. /\ UNCHANGED <<rotates, cred, user, withdrawn, reused, lost>>
      /\ consent.pc = "code" /\ ~Granting /\ Granting' /\ consent'.pc = "version"
  BY DEF ExchangeCode, Granting
<1>2. \A w \in Refreshers : (Asks(w)' <=> Asks(w)) /\ (Storing(w)' <=> Storing(w))
  BY <1>1 DEF Asks, Storing
<1>3. CASE issued' = issued + 1 /\ honoured' = honoured \cup {issued'}
             /\ consent' = [pc |-> "version", tok |-> issued', new |-> TRUE]
  <2>1. /\ issued \in Nat /\ issued < issued' /\ issued' \in Nat
        /\ consent'.tok = issued' /\ consent'.new
    BY <1>3, HoldsTyped
  <2>2. /\ cred.tok < issued' /\ \A w \in Refreshers : Asks(w) => user[w].tok < issued'
    BY <2>1, HoldsTyped DEF TokenInv, Issued
  <2>3. \A tok : Good(tok) => tok \in honoured' \cup withdrawn'
    BY <1>1, <1>3 DEF Good
  <2>4. Issued'
    BY <1>1, <1>2, <2>1, <2>2, HoldsTyped DEF TokenInv, Issued
  <2>5. CASE rotates
    <3>1. Rotated
      BY <2>5 DEF TokenInv
    <3>2. cred.tok # issued' /\ \A w \in Refreshers : Asks(w) => user[w].tok # issued'
      BY <2>1, <2>2, HoldsTyped
    <3>3. ASSUME NEW w \in Refreshers, Storing(w)'
          PROVE  /\ user'[w].tok \in honoured' \cup withdrawn' /\ user'[w].tok # cred'.tok
                 /\ \A v \in Refreshers \ {w} : Asks(v)' => user'[v].tok # user'[w].tok
                 /\ user'[w].tok # consent'.tok
      <4>1. Storing(w) /\ user' = user /\ Asks(w)
        BY <1>1, <1>2, <3>3, HoldsTyped
      <4>2. /\ Good(user[w].tok) /\ user[w].tok # cred.tok
            /\ \A v \in Refreshers \ {w} : Asks(v) => user[v].tok # user[w].tok
        BY <3>1, <4>1 DEF Rotated
      <4>3. QED
        BY <1>1, <1>2, <2>1, <2>3, <3>2, <4>1, <4>2
    <3>4. /\ consent'.tok \in honoured' \cup withdrawn' /\ consent'.tok # cred'.tok
          /\ \A w \in Refreshers : Asks(w)' => user'[w].tok # consent'.tok
      BY <1>1, <1>2, <1>3, <2>1, <3>2
    <3>5. cred.tok # 0 =>
            \/ cred.tok \in honoured' \cup withdrawn' \/ lost > 0 \/ cred.tok \in reused
            \/ \E w \in Refreshers : Storing(w)' /\ user'[w].ver = cred.ver
      BY <1>1, <1>2, <2>3, <3>1 DEF Rotated
    <3>6. \A w \in Refreshers : Asks(w)' /\ user'[w].tok = cred'.tok =>
            user'[w].ver = cred'.ver \/ cred'.tok \in reused' \cup {0}
      BY <1>1, <1>2, <3>1 DEF Rotated
    <3>7. Rotated'
      BY <1>1, <3>3, <3>4, <3>5, <3>6 DEF Rotated, Good
    <3>8. QED
      BY <1>1, <2>4, <2>5, <3>7 DEF TokenInv
  <2>6. CASE ~rotates
    <3>1. Kept
      BY <2>6 DEF TokenInv
    <3>2. \A tok \in 1..issued' : tok \in 1..issued \/ tok = issued'
      BY <1>3, <2>1
    <3>3. Kept'
      BY <1>3, <2>3, <3>1, <3>2 DEF Kept, Good
    <3>4. QED
      BY <1>1, <2>4, <2>6, <3>3 DEF TokenInv
  <2>7. QED
    BY <2>5, <2>6
<1>4. CASE issued' = issued /\ honoured' = honoured
             /\ consent' = [pc |-> "version", tok |-> consent.old, new |-> FALSE]
  <2>1. consent'.tok = consent.old /\ ~consent'.new
    BY <1>4
  <2>2. \A tok : Good(tok)' <=> Good(tok)
    BY <1>1, <1>4 DEF Good
  <2>3. Issued'
    BY <1>1, <1>2, <1>4, <2>1 DEF TokenInv, Issued
  <2>4. CASE rotates
    <3>1. Rotated
      BY <2>4 DEF TokenInv
    <3>2. Rotated'
      BY <1>1, <1>2, <2>1, <2>2, <3>1 DEF Rotated
    <3>3. QED
      BY <1>1, <2>3, <2>4, <3>2 DEF TokenInv
  <2>5. CASE ~rotates
    BY <1>1, <1>4, <2>2, <2>3, <2>5 DEF TokenInv, Kept
  <2>6. QED
    BY <2>4, <2>5
<1>5. QED
  BY <1>3, <1>4, Zenon DEF ExchangeCode

(* The consent's token is put over whatever is stored.                     *)
LEMMA PutConsentTokens ==
  ASSUME CredInv, TokenInv, PutConsent
  PROVE  TokenInv'
<1> USE DEF oauth, past
<1>1. /\ Granting /\ cred' = [ver |-> consent.ver, tok |-> consent.tok, live |-> TRUE]
      /\ consent' = [pc |-> "connect"] /\ reused \subseteq reused'
      /\ consent.new \/ consent.tok \in reused'
      /\ UNCHANGED <<rotates, issued, honoured, user, withdrawn, lost>>
  BY DEF PutConsent, Granting
<1>2. ~Granting' /\ consent'.pc # "code" /\ cred'.tok = consent.tok /\ cred'.tok \in Nat
  BY <1>1, HoldsTyped DEF Granting
<1>3. cred'.tok <= issued /\ \A w \in Refreshers : Asks(w)' <=> Asks(w)
  BY <1>1, <1>2 DEF TokenInv, Issued, Asks
<1>4. CASE rotates
  <2>1. Rotated
    BY <1>4 DEF TokenInv
  <2>2. Good(cred'.tok) \/ cred'.tok \in reused'
    BY <1>1, <1>2, <2>1 DEF Rotated
  <2>3. \A w \in Refreshers : Asks(w) =>
          user[w].tok # cred'.tok \/ (cred'.tok \in reused' /\ ~Storing(w))
    BY <1>1, <1>2, <2>1 DEF Rotated
  <2>4. QED
    BY <1>1, <1>2, <1>3, <2>2, <2>3, PutTokens
<1>5. CASE ~rotates
  <2>1. Issued'
    BY <1>1, <1>2, <1>3 DEF TokenInv, Issued
  <2>2. QED
    BY <1>1, <1>5, <2>1 DEF TokenInv, Kept, Good
<1>6. QED
  BY <1>4, <1>5

(* The other steps of a call: whoever loses the conditional put has an     *)
(* older version than the record.                                          *)
LEMMA CallTokens ==
  ASSUME CredInv, TokenInv, NEW w \in Refreshers,
         Ask(w) \/ Verify(w) \/ Reject(w) \/ Conflict(w) \/ Abandon(w)
  PROVE  TokenInv'
<1> USE DEF oauth, past
<1>1. /\ user \in [Refreshers -> {Unused} \cup Using] /\ lost \in Nat
      /\ UNCHANGED <<rotates, issued, honoured, withdrawn, reused, cred, consent>>
  BY DEF CredInv, CredTypeOK, Ask, Verify, Reject, Conflict, Abandon
<1>2. ASSUME NEW again \in BOOLEAN
      PROVE  /\ Reading(again).pc # "store"
             /\ Reading(again).pc = "exchange" => Reading(again).tok # 0
             /\ Reading(again) # Unused =>
                  Reading(again).tok = cred.tok /\ Reading(again).ver = cred.ver
  BY DEF Reading, Unused
<1>3. Unused.pc = "idle"
  BY DEF Unused
<1>4. CASE Ask(w)
  <2>1. user' = [user EXCEPT ![w] = Reading(TRUE)] /\ lost' = lost /\ ~Storing(w)
    BY <1>3, <1>4 DEF Ask, Storing
  <2>2. /\ user'[w] = Reading(TRUE) /\ \A v \in Refreshers \ {w} : user'[v] = user[v]
    BY <1>1, <2>1
  <2>3. /\ ~Storing(w)' /\ (Asks(w)' => user'[w].tok = cred.tok /\ user'[w].ver = cred.ver)
        /\ user'[w].pc = "exchange" => user'[w].tok # 0
    BY <1>2, <2>2 DEF Storing, Asks
  <2>4. lost' >= lost /\ lost' \in Nat
    BY <1>1, <2>1
  <2>5. QED
    BY <1>1, <2>1, <2>2, <2>3, <2>4, ReadingTokens
<1>5. CASE Conflict(w)
  <2>1. /\ lost' = lost /\ user[w].ver # cred.ver
        /\ \/ user' = [user EXCEPT ![w] = Reading(FALSE)]
           \/ user' = [user EXCEPT ![w] = Unused]
    BY <1>5 DEF Conflict, PutPasses
  <2>2. /\ user'[w] = Reading(FALSE) \/ user'[w] = Unused
        /\ \A v \in Refreshers \ {w} : user'[v] = user[v]
    BY <1>1, <2>1
  <2>3. /\ ~Storing(w)' /\ (Asks(w)' => user'[w].tok = cred.tok /\ user'[w].ver = cred.ver)
        /\ user'[w].pc = "exchange" => user'[w].tok # 0
    BY <1>2, <1>3, <2>2 DEF Storing, Asks
  <2>4. QED
    BY <1>1, <2>1, <2>2, <2>3, ReadingTokens
<1>6. CASE Abandon(w)
  <2>1. /\ user'[w] = Unused /\ \A v \in Refreshers \ {w} : user'[v] = user[v]
        /\ lost' >= lost /\ lost' \in Nat /\ (Storing(w) => lost' > 0)
    BY <1>1, <1>6 DEF Abandon, Storing
  <2>2. ~Storing(w)' /\ ~Asks(w)' /\ user'[w].pc # "exchange"
    BY <1>3, <2>1 DEF Storing, Asks
  <2>3. QED
    BY <1>1, <2>1, <2>2, ReadingTokens
<1>7. CASE Verify(w)
  <2>1. lost' = lost /\ ~Storing(w)
    BY <1>7 DEF Verify, Storing
  <2>2. user'[w] = Unused /\ \A v \in Refreshers \ {w} : user'[v] = user[v]
    BY <1>1, <1>7 DEF Verify
  <2>3. ~Storing(w)' /\ ~Asks(w)' /\ user'[w].pc # "exchange"
    BY <1>3, <2>2 DEF Storing, Asks
  <2>4. QED
    BY <1>1, <2>1, <2>2, <2>3, ReadingTokens
<1>8. CASE Reject(w)
  <2> DEFINE next == [user[w] EXCEPT !.pc = "exchange", !.again = FALSE]
  <2>1. Asks(w) /\ ~Storing(w) /\ user[w] \in Using /\ lost' = lost
    BY <1>1, <1>3, <1>8 DEF Reject, Asks, Storing
  <2>2. next.pc = "exchange" /\ next.tok = user[w].tok /\ next.ver = user[w].ver
    BY <2>1 DEF Using
  <2>3. /\ (user'[w] = next /\ user[w].tok # 0) \/ user'[w] = Unused
        /\ \A v \in Refreshers \ {w} : user'[v] = user[v]
    BY <1>1, <1>8 DEF Reject
  <2> HIDE DEF next
  <2>4. ~Storing(w)' /\ (user'[w].pc = "exchange" => user'[w].tok # 0)
    BY <1>3, <2>2, <2>3 DEF Storing
  <2>5. Asks(w)' => user'[w].tok = user[w].tok /\ user'[w].ver = user[w].ver
    BY <2>2, <2>3 DEF Asks
  <2>6. QED
    BY <1>1, <2>1, <2>3, <2>4, <2>5, ReadingTokens
<1>9. QED
  BY <1>4, <1>5, <1>6, <1>7, <1>8

(* The steps at the provider and around the record: a withdrawn token is   *)
(* one the provider is known not to accept.                                *)
LEMMA AroundTokens ==
  ASSUME CredInv, TokenInv,
         \/ AccessExpires \/ \E aim \in {"revoke", "delete"} : BeginEnd(aim)
         \/ RevokeAtProvider \/ ClearConflict \/ RemoveConnection
         \/ BeginConsent \/ ReadVersion \/ MarkConnected \/ ConsentFails
  PROVE  TokenInv'
<1> USE DEF oauth, past
<1>1. /\ rotates' = rotates /\ issued' = issued /\ lost' = lost /\ user' = user
      /\ reused' = reused
  BY DEF AccessExpires, BeginEnd, RevokeAtProvider, ClearConflict, RemoveConnection,
         BeginConsent, ReadVersion, MarkConnected, ConsentFails
<1>2. \A tok : Good(tok) => Good(tok)'
  BY DEF Good, AccessExpires, BeginEnd, RevokeAtProvider, ClearConflict, RemoveConnection,
         BeginConsent, ReadVersion, MarkConnected, ConsentFails
<1>3. cred'.tok = cred.tok /\ cred'.ver = cred.ver
  BY DEF CredInv, CredTypeOK, AccessExpires, BeginEnd, RevokeAtProvider, ClearConflict,
         RemoveConnection, BeginConsent, ReadVersion, MarkConnected, ConsentFails
<1>4. /\ Granting' => Granting /\ consent'.tok = consent.tok /\ consent'.new = consent.new
      /\ consent'.pc = "code" =>
           \/ consent.pc = "code" /\ consent'.old = consent.old
           \/ consent'.old = cred.tok
  <2>1. CASE ReadVersion
    BY <2>1 DEF ReadVersion, Granting
  <2>2. CASE BeginConsent
    BY <2>2 DEF BeginConsent, Granting
  <2>3. CASE MarkConnected \/ ConsentFails
    BY <2>3 DEF MarkConnected, ConsentFails, Granting, Unused
  <2>4. CASE consent' = consent
    BY <2>4 DEF Granting
  <2>5. QED
    BY <2>1, <2>2, <2>3, <2>4 DEF AccessExpires, BeginEnd, RevokeAtProvider, ClearConflict,
       RemoveConnection
<1>5. QED
  BY <1>1, <1>2, <1>3, <1>4, QuietTokens

(* A revoke empties the record, and a delete; a revoke marks the connection. *)
LEMMA EndedTokens ==
  ASSUME CredInv, TokenInv, ClearStored \/ MarkEnded
  PROVE  TokenInv'
<1> USE DEF oauth, past
<1>1. UNCHANGED <<rotates, issued, honoured, withdrawn, reused, lost, user, consent>>
  BY DEF ClearStored, MarkEnded
<1>2. cred' = cred \/ cred'.tok = 0
  BY DEF ClearStored, Emptied, MarkEnded, Empty
<1>3. CASE cred'.tok = 0
  BY <1>1, <1>3, EmptiedTokens
<1>4. CASE cred' = cred
  <2>1. \A tok : Good(tok) => Good(tok)'
    BY <1>1 DEF Good
  <2>2. Granting' <=> Granting
    BY <1>1 DEF Granting
  <2>3. QED
    BY <1>1, <1>4, <2>1, <2>2, QuietTokens
<1>5. QED
  BY <1>2, <1>3, <1>4

LEMMA TokenStep == CredInv /\ TokenInv /\ [CredNext]_credVars => TokenInv'
<1> SUFFICES ASSUME CredInv, TokenInv, [CredNext]_credVars PROVE TokenInv'
  OBVIOUS
<1>1. CASE CredNext
  BY <1>1, CallTokens, ExchangeTokens, StoreTokens, GrantTokens, PutConsentTokens,
     AroundTokens, EndedTokens DEF CredNext
<1>2. CASE UNCHANGED credVars
  BY <1>2 DEF credVars, TokenInv, Issued, Kept, Rotated, Good, Asks, Storing, Granting
<1>3. QED
  BY <1>1, <1>2

(* Nobody holds a refresh token another call is about to store, and behind *)
(* a spent one that is still stored comes a write that will pass.          *)
THEOREM TokenInvariant == CredSpec => []TokenInv
<1>1. CredInit => TokenInv
  BY TokenInitInv
<1>2. CredInv /\ TokenInv /\ [CredNext]_credVars => TokenInv'
  BY TokenStep
<1>3. QED
  BY <1>1, <1>2, CredInvariant, PTL DEF CredSpec

(* Whichever calls refresh, revoke, delete and consent at once, the stored *)
(* token is one the provider accepts, unless it was revoked there, an      *)
(* invocation was lost between the exchange and the write, or a consent    *)
(* brought none and put back the one it had read.                          *)
THEOREM RefreshKeepsToken == CredSpec => []StoredTokenWorks
<1>1. CredInv /\ TokenInv => StoredTokenWorks
  <2> SUFFICES ASSUME CredInv, TokenInv, cred.tok # 0 PROVE StoredTokenWorks
    BY DEF StoredTokenWorks
  <2>1. CASE rotates
    BY <2>1 DEF TokenInv, Rotated, StoredTokenWorks, Good, Storing
  <2>2. CASE ~rotates
    <3>1. cred.tok \in 1..issued
      BY HoldsTyped DEF TokenInv, Issued
    <3>2. QED
      BY <2>2, <3>1 DEF TokenInv, Kept, Good, StoredTokenWorks
  <2>3. QED
    BY <2>1, <2>2
<1>2. QED
  BY <1>1, CredInvariant, TokenInvariant, PTL
-----------------------------------------------------------------------------
(* The pairing of a device.                                                *)

(* No grant, no session, no call under way.                                *)
LEMMA GrantInitInv == GrantInit => GrantInv
<1> SUFFICES ASSUME GrantInit PROVE GrantInv
  OBVIOUS
<1> USE DEF GrantInit, Idle
<1>1. GrantTypeOK
  BY DEF GrantTypeOK
<1>2. WithinBudget
  BY BudgetAssumption DEF WithinBudget
<1>3. OneHeir /\ OwnedByApprover /\ Decided /\ Undelivered
  BY NamesAssumption DEF OneHeir, OwnedByApprover, Decided, Undelivered
<1>4. MintersKnow /\ Refreshing
  BY DEF MintersKnow, Refreshing
<1>5. Lineage
  BY NamesAssumption DEF Lineage
<1>6. QED
  BY <1>1, <1>2, <1>3, <1>4, <1>5 DEF GrantInv

-----------------------------------------------------------------------------
(* What a step that leaves some of the state alone need not show.          *)

(* Steps of the pairing: the sessions and the CLI's calls stand.           *)
LEMMA SessionsStand ==
  ASSUME GrantInv, UNCHANGED <<client, sessions, verdict>>
  PROVE  OneHeir' /\ OwnedByApprover' /\ MintersKnow' /\ Refreshing' /\ Lineage'
<1> USE DEF GrantInv, sessions
<1>1. OneHeir' /\ OwnedByApprover'
  BY DEF OneHeir, OwnedByApprover
<1>2. MintersKnow' /\ Refreshing'
  BY DEF MintersKnow, Refreshing
<1>3. Lineage'
  BY DEF Lineage
<1>4. QED
  BY <1>1, <1>2, <1>3

(* Steps that only move a call: the rows stand.                            *)
LEMMA RowsStand ==
  ASSUME GrantInv, UNCHANGED <<pairing, sessions, looks, verdict>>
  PROVE  /\ OneHeir' /\ OwnedByApprover' /\ WithinBudget'
         /\ Decided' /\ Undelivered' /\ Lineage'
<1> USE DEF GrantInv, pairing, sessions
<1>1. OneHeir' /\ OwnedByApprover' /\ Lineage'
  BY DEF OneHeir, OwnedByApprover, Lineage
<1>2. WithinBudget' /\ Decided' /\ Undelivered'
  BY DEF WithinBudget, Decided, Undelivered
<1>3. QED
  BY <1>1, <1>2

(* A grant that goes takes its decision with it.                           *)
LEMMA GrantGoes ==
  ASSUME GrantInv, grant' = "gone", looks' = looks
  PROVE  Decided' /\ Undelivered' /\ WithinBudget'
BY DEF GrantInv, Decided, Undelivered, WithinBudget

-----------------------------------------------------------------------------
(* The pairing and the approval page.                                      *)

LEMMA StartGrantInv ==
  ASSUME GrantInv, StartGrant
  PROVE  GrantInv'
<1> USE DEF StartGrant
<1>1. GrantTypeOK'
  BY DEF GrantInv, GrantTypeOK, sessions
<1>2. Decided' /\ Undelivered' /\ WithinBudget'
  BY DEF GrantInv, Decided, Undelivered, WithinBudget, sessions
<1>3. QED
  BY <1>1, <1>2, SessionsStand DEF GrantInv

LEMMA LapseInv ==
  ASSUME GrantInv, Lapse
  PROVE  GrantInv'
<1> USE DEF Lapse
<1>1. GrantTypeOK'
  BY DEF GrantInv, GrantTypeOK, pairing, sessions
<1>2. QED
  BY <1>1, SessionsStand, RowsStand DEF GrantInv

LEMMA SweepGrantInv ==
  ASSUME GrantInv, SweepGrant
  PROVE  GrantInv'
<1> USE DEF SweepGrant
<1>1. GrantTypeOK'
  BY DEF GrantInv, GrantTypeOK, sessions
<1>2. QED
  BY <1>1, SessionsStand, GrantGoes DEF GrantInv

(* The steps of a browser that write no row but the pointer's.             *)
LEMMA BrowserMovesInv ==
  ASSUME GrantInv, NEW b \in Browsers, NEW ask \in {"peek", "approve", "deny"},
         Find(b, ask) \/ Refused(b) \/ DropPointer(b) \/ BrowserCrash(b)
  PROVE  GrantInv'
<1>1. GrantTypeOK'
  <2> USE DEF GrantInv, GrantTypeOK, Idle, pairing, sessions
  <2>1. CASE Find(b, ask)
    BY <2>1 DEF Find
  <2>2. CASE Refused(b)
    BY <2>2 DEF Refused
  <2>3. CASE DropPointer(b) \/ BrowserCrash(b)
    BY <2>3 DEF DropPointer, BrowserCrash
  <2>4. QED
    BY <2>1, <2>2, <2>3
<1>2. UNCHANGED <<pairing, client, sessions, looks, verdict>>
  BY DEF Find, Refused, DropPointer, BrowserCrash
<1>3. QED
  BY <1>1, <1>2, SessionsStand, RowsStand DEF GrantInv

(* The guard holds the attempts under the budget, and while it passes      *)
(* nobody has decided and no session exists.                               *)
LEMMA SpendInv ==
  ASSUME GrantInv, NEW b \in Browsers, Spend(b)
  PROVE  GrantInv'
<1> USE DEF Spend, Guard
<1>1. GrantTypeOK'
  BY DEF GrantInv, GrantTypeOK, Idle, sessions
<1>2. grant = "pending" /\ attempts < Budget /\ attempts = looks /\ verdict = "none"
  BY DEF GrantInv, Decided
<1>3. WithinBudget'
  BY <1>2, BudgetAssumption DEF GrantInv, GrantTypeOK, WithinBudget
<1>4. \A t \in Bearers : row[t] = "none"
  BY <1>2, NamesAssumption DEF GrantInv, OwnedByApprover
<1>5. OneHeir' /\ Lineage' /\ Refreshing' /\ Undelivered'
  BY <1>2 DEF GrantInv, OneHeir, Lineage, Refreshing, Undelivered, sessions
<1>6. OwnedByApprover'
  BY <1>4 DEF OwnedByApprover, sessions
<1>7. MintersKnow'
  BY <1>2, NamesAssumption DEF GrantInv, MintersKnow
<1>8. Decided'
  BY <1>2 DEF Decided
<1>9. QED
  BY <1>1, <1>3, <1>5, <1>6, <1>7, <1>8 DEF GrantInv

(* The losing peek removes an exhausted grant while it is pending.         *)
LEMMA DestroyInv ==
  ASSUME GrantInv, NEW b \in Browsers, Destroy(b)
  PROVE  GrantInv'
<1> USE DEF Destroy
<1>1. GrantTypeOK'
  BY DEF GrantInv, GrantTypeOK, Idle, sessions
<1>2. CASE Exhausted
  BY <1>1, <1>2, SessionsStand, GrantGoes DEF GrantInv
<1>3. CASE ~Exhausted
  BY <1>1, <1>3, SessionsStand, RowsStand DEF GrantInv, pairing
<1>4. QED
  BY <1>2, <1>3

-----------------------------------------------------------------------------
(* The CLI's poll.                                                         *)

LEMMA PollLapsedInv ==
  ASSUME GrantInv, NEW c \in Clients, PollLapsed(c)
  PROVE  GrantInv'
<1> USE DEF PollLapsed
<1>1. GrantTypeOK'
  BY DEF GrantInv, GrantTypeOK, DropsPointer, sessions
<1>2. QED
  BY <1>1, SessionsStand, GrantGoes DEF GrantInv

(* A poll that reads an approved grant reads the approver with it.         *)
LEMMA PollDecidedInv ==
  ASSUME GrantInv, NEW c \in Clients, PollDecided(c)
  PROVE  GrantInv'
<1> USE DEF PollDecided, Idle
<1>1. GrantTypeOK'
  BY DEF GrantInv, GrantTypeOK, pairing, sessions
<1>2. MintersKnow'
  <2> SUFFICES ASSUME NEW d \in Clients, client'[d].pc = "minting"
               PROVE  client'[d].subject = verdict /\ verdict \in Browsers
    BY DEF MintersKnow
  <2>1. CASE d = c
    BY <2>1 DEF GrantInv, GrantTypeOK, Decided
  <2>2. CASE d # c
    BY <2>2 DEF GrantInv, GrantTypeOK, MintersKnow
  <2>3. QED
    BY <2>1, <2>2
<1>3. Refreshing'
  BY DEF GrantInv, GrantTypeOK, Refreshing, sessions
<1>4. QED
  BY <1>1, <1>2, <1>3, RowsStand DEF GrantInv

(* Steps that end a call of the CLI, or give it up, without a session row. *)
LEMMA CallEnds ==
  ASSUME GrantInv, NEW c \in Clients, client' = [client EXCEPT ![c] = Idle],
         UNCHANGED <<sessions, verdict>>
  PROVE  MintersKnow' /\ Refreshing' /\ OneHeir' /\ OwnedByApprover' /\ Lineage'
<1> USE DEF GrantInv, GrantTypeOK, Idle, sessions
<1>1. MintersKnow' /\ Refreshing'
  BY DEF MintersKnow, Refreshing
<1>2. OneHeir' /\ OwnedByApprover' /\ Lineage'
  BY DEF OneHeir, OwnedByApprover, Lineage
<1>3. QED
  BY <1>1, <1>2

LEMMA ReportDeniedInv ==
  ASSUME GrantInv, NEW c \in Clients, ReportDenied(c)
  PROVE  GrantInv'
<1> USE DEF ReportDenied
<1>1. GrantTypeOK'
  BY DEF GrantInv, GrantTypeOK, Idle, DropsPointer, sessions
<1>2. CASE grant = "denied"
  BY <1>1, <1>2, CallEnds, GrantGoes DEF GrantInv
<1>3. CASE grant # "denied"
  BY <1>1, <1>3, CallEnds, RowsStand DEF GrantInv, pairing
<1>4. QED
  BY <1>2, <1>3

LEMMA CallGivenUpInv ==
  ASSUME GrantInv, NEW c \in Clients, DeliverRefused(c) \/ ClientCrash(c)
  PROVE  GrantInv'
<1>1. /\ client' = [client EXCEPT ![c] = Idle]
      /\ UNCHANGED <<pairing, pointer, lapsed, browser, sessions, looks, verdict>>
  BY DEF DeliverRefused, ClientCrash
<1>2. GrantTypeOK'
  BY <1>1 DEF GrantInv, GrantTypeOK, Idle, pairing, sessions
<1>3. QED
  BY <1>1, <1>2, CallEnds, RowsStand DEF GrantInv

(* The grant is there only as long as nothing was minted from it.          *)
LEMMA DeliverInv ==
  ASSUME GrantInv, NEW c \in Clients, NEW t \in Bearers, Deliver(c, t)
  PROVE  GrantInv'
<1> USE NamesAssumption DEF Deliver, Deliverable, Mint
<1>1. GrantTypeOK'
  BY DEF GrantInv, GrantTypeOK, Idle
<1>2. \A u \in Bearers : parent[u] # "grant"
  BY DEF GrantInv, Undelivered
<1>3. \A u \in Bearers : parent'[u] = IF u = t THEN "grant" ELSE parent[u]
  BY DEF GrantInv, GrantTypeOK
<1>4. OneHeir'
  BY <1>2, <1>3 DEF GrantInv, OneHeir
<1>5. client[c].subject = verdict /\ verdict \in Browsers
  BY DEF GrantInv, MintersKnow
<1>6. OwnedByApprover'
  BY <1>5 DEF GrantInv, GrantTypeOK, OwnedByApprover
<1>7. MintersKnow' /\ Refreshing'
  BY DEF GrantInv, GrantTypeOK, MintersKnow, Refreshing, Idle
<1>8. Lineage'
  BY DEF GrantInv, GrantTypeOK, Lineage
<1>9. QED
  BY <1>1, <1>4, <1>6, <1>7, <1>8, GrantGoes DEF GrantInv

-----------------------------------------------------------------------------
(* The sessions.                                                           *)

LEMMA CallBeginsInv ==
  ASSUME GrantInv, NEW c \in Clients, NEW t \in Bearers, BeginRefresh(c, t) \/ BeginRevoke(c, t)
  PROVE  GrantInv'
<1> USE DEF BeginRefresh, BeginRevoke, Idle
<1>1. GrantTypeOK'
  BY DEF GrantInv, GrantTypeOK, pairing, sessions
<1>2. MintersKnow' /\ Refreshing'
  BY DEF GrantInv, GrantTypeOK, MintersKnow, Refreshing, sessions
<1>3. QED
  BY <1>1, <1>2, RowsStand DEF GrantInv

(* The claim takes a live session, which has no successor and which nobody *)
(* else has claimed.                                                       *)
LEMMA ClaimSessionInv ==
  ASSUME GrantInv, NEW c \in Clients, ClaimSession(c)
  PROVE  GrantInv'
<1> DEFINE t == client[c].of
<1>1. CASE ~Claimable(t)
  <2>1. /\ client' = [client EXCEPT ![c] = Idle]
        /\ UNCHANGED <<pairing, pointer, lapsed, browser, sessions, looks, verdict>>
    BY <1>1 DEF ClaimSession, sessions
  <2>2. GrantTypeOK'
    BY <2>1 DEF GrantInv, GrantTypeOK, Idle, pairing, sessions
  <2>3. QED
    BY <2>1, <2>2, CallEnds, RowsStand DEF GrantInv
<1>2. CASE Claimable(t)
  <2>1. /\ client[c].pc = "claiming" /\ row[t] = "live"
        /\ row' = [row EXCEPT ![t] = "rotated"]
        /\ client' = [client EXCEPT ![c].pc = "replacing"]
        /\ UNCHANGED <<pairing, pointer, lapsed, browser, parent, owner, looks, verdict>>
    BY <1>2 DEF ClaimSession, Claimable
  <2>2. t \in Bearers /\ client[c] \in [pc : {"claiming", "replacing", "revoking"}, of : Bearers]
    BY <2>1 DEF GrantInv, GrantTypeOK, Idle
  <2>3. GrantTypeOK'
    BY <2>1, <2>2 DEF GrantInv, GrantTypeOK, pairing
  <2>4. \A u \in Bearers : parent[u] # t
    BY <2>1, <2>2 DEF GrantInv, Lineage
  <2>5. \A d \in Clients : client[d].pc = "replacing" => client[d].of # t
    BY <2>1 DEF GrantInv, Refreshing
  <2>6. client'[c].of = t /\ \A d \in Clients \ {c} : client'[d] = client[d]
    BY <2>1, <2>2 DEF GrantInv, GrantTypeOK
  <2>7. \A u \in Bearers : row'[u] = IF u = t THEN "rotated" ELSE row[u]
    BY <2>1 DEF GrantInv, GrantTypeOK
  <2>8. Refreshing'
    <3>1. ASSUME NEW d \in Clients, client'[d].pc \in {"claiming", "revoking"}
          PROVE  row'[client'[d].of] # "none"
      <4>1. d # c /\ client[d].of \in Bearers
        BY <2>1, <2>2, <2>6, <3>1 DEF GrantInv, GrantTypeOK, Idle
      <4>2. QED
        BY <2>6, <2>7, <3>1, <4>1 DEF GrantInv, Refreshing
    <3>2. ASSUME NEW d \in Clients, client'[d].pc = "replacing"
          PROVE  /\ row'[client'[d].of] \in {"rotated", "gone"}
                 /\ \A u \in Bearers : parent'[u] # client'[d].of
      <4>1. CASE d = c
        BY <2>1, <2>2, <2>4, <2>6, <2>7, <4>1
      <4>2. CASE d # c
        <5>1. client[d].of \in Bearers
          BY <2>6, <3>2, <4>2 DEF GrantInv, GrantTypeOK, Idle
        <5>2. QED
          BY <2>1, <2>6, <2>7, <3>2, <4>2, <5>1 DEF GrantInv, Refreshing
      <4>3. QED
        BY <4>1, <4>2
    <3>3. ASSUME NEW d \in Clients, NEW e \in Clients, client'[d].pc = "replacing",
                 client'[e].pc = "replacing", client'[d].of = client'[e].of
          PROVE  d = e
      BY <2>5, <2>6, <3>3 DEF GrantInv, Refreshing
    <3>4. QED
      BY <3>1, <3>2, <3>3 DEF Refreshing
  <2>9. MintersKnow'
    BY <2>1, <2>2, <2>6 DEF GrantInv, MintersKnow
  <2>10. OneHeir' /\ OwnedByApprover' /\ Lineage'
    BY <2>1, <2>2, <2>7 DEF GrantInv, GrantTypeOK, OneHeir, OwnedByApprover, Lineage
  <2>11. WithinBudget' /\ Decided' /\ Undelivered'
    BY <2>1 DEF GrantInv, WithinBudget, Decided, Undelivered, pairing
  <2>12. QED
    BY <2>3, <2>8, <2>9, <2>10, <2>11 DEF GrantInv
<1>3. QED
  BY <1>1, <1>2

(* The replacement is the only successor of a session only c has claimed.  *)
LEMMA ReplaceInv ==
  ASSUME GrantInv, NEW c \in Clients, NEW t \in Bearers, Replace(c, t)
  PROVE  GrantInv'
<1> DEFINE s == client[c].of
<1>1. client[c].pc = "replacing" /\ row[t] = "none" /\ client' = [client EXCEPT ![c] = Idle]
  BY DEF Replace, Mint
<1>2. s \in Bearers /\ row[s] \in {"rotated", "gone"} /\ s # t
  BY <1>1 DEF GrantInv, GrantTypeOK, Idle, Refreshing
<1>3. \A u \in Bearers : /\ parent'[u] = IF u = t THEN s ELSE parent[u]
                         /\ row'[u] = IF u = t THEN "live" ELSE row[u]
                         /\ owner'[u] = IF u = t THEN owner[s] ELSE owner[u]
  BY DEF Replace, Mint, GrantInv, GrantTypeOK
<1>4. \A u \in Bearers : parent[u] # s
  BY <1>1 DEF GrantInv, Refreshing
<1>5. UNCHANGED <<pairing, pointer, lapsed, browser, looks, verdict>>
  BY DEF Replace
<1>6. GrantTypeOK'
  BY <1>1, <1>2, <1>5 DEF GrantInv, GrantTypeOK, Idle, Replace, Mint, pairing
<1>7. OneHeir'
  BY <1>3, <1>4 DEF GrantInv, OneHeir
<1>8. OwnedByApprover'
  BY <1>2, <1>3, <1>5 DEF GrantInv, OwnedByApprover
<1>9. MintersKnow'
  BY <1>1, <1>5 DEF GrantInv, GrantTypeOK, MintersKnow, Idle
<1>10. Refreshing'
  <2>1. \A d \in Clients : client'[d].pc \in {"claiming", "revoking", "replacing"} =>
          d # c /\ client'[d] = client[d] /\ client[d].of \in Bearers
    BY <1>1 DEF GrantInv, GrantTypeOK, Idle
  <2>2. \A d \in Clients : client'[d].pc = "replacing" =>
          client[d].of # s /\ client[d].of # t
    BY <1>1, <2>1 DEF GrantInv, Refreshing
  <2>3. QED
    BY <1>1, <1>3, <2>1, <2>2 DEF GrantInv, Refreshing
<1>11. Lineage'
  <2>1. \A u \in Bearers : row'[u] = "none" <=> parent'[u] = "none"
    BY <1>2, <1>3, NamesAssumption DEF GrantInv, Lineage
  <2>2. \A u \in Bearers : parent'[u] \in Bearers => row'[parent'[u]] \in {"rotated", "gone"}
    BY <1>1, <1>2, <1>3 DEF GrantInv, Lineage
  <2>3. QED
    BY <2>1, <2>2 DEF Lineage
<1>12. WithinBudget' /\ Decided'
  BY <1>5 DEF GrantInv, WithinBudget, Decided, pairing
<1>13. Undelivered'
  BY <1>2, <1>3, <1>5, NamesAssumption DEF GrantInv, Undelivered, pairing
<1>14. QED
  BY <1>6, <1>7, <1>8, <1>9, <1>10, <1>11, <1>12, <1>13 DEF GrantInv

(* A session that is taken away had been minted.                           *)
LEMMA RowGoes ==
  ASSUME GrantInv, NEW t \in Bearers, row[t] # "none", row' = [row EXCEPT ![t] = "gone"],
         UNCHANGED <<parent, owner, verdict>>
  PROVE  OneHeir' /\ OwnedByApprover' /\ Lineage'
<1>1. \A u \in Bearers : row'[u] = IF u = t THEN "gone" ELSE row[u]
  BY DEF GrantInv, GrantTypeOK
<1>2. OneHeir'
  BY DEF GrantInv, OneHeir
<1>3. OwnedByApprover'
  BY <1>1 DEF GrantInv, OwnedByApprover
<1>4. Lineage'
  BY <1>1 DEF GrantInv, Lineage
<1>5. QED
  BY <1>2, <1>3, <1>4

LEMMA RevokeInv ==
  ASSUME GrantInv, NEW c \in Clients, Revoke(c)
  PROVE  GrantInv'
<1> DEFINE t == client[c].of
<1>1. t \in Bearers
  BY DEF GrantInv, GrantTypeOK, Idle, Revoke
<1>2. GrantTypeOK'
  BY <1>1 DEF GrantInv, GrantTypeOK, Idle, Revoke, pairing
<1>3. row[t] # "none"
  BY DEF GrantInv, Refreshing, Revoke
<1>4. OneHeir' /\ OwnedByApprover' /\ Lineage'
  BY <1>1, <1>3, RowGoes DEF Revoke
<1>5. MintersKnow' /\ Refreshing'
  BY <1>1 DEF GrantInv, GrantTypeOK, MintersKnow, Refreshing, Idle, Revoke
<1>6. WithinBudget' /\ Decided' /\ Undelivered'
  BY DEF GrantInv, WithinBudget, Decided, Undelivered, Revoke, pairing
<1>7. QED
  BY <1>2, <1>4, <1>5, <1>6 DEF GrantInv

LEMMA ExpireInv ==
  ASSUME GrantInv, NEW t \in Bearers, Expire(t)
  PROVE  GrantInv'
<1> USE DEF Expire
<1>1. GrantTypeOK'
  BY DEF GrantInv, GrantTypeOK, pairing
<1>2. OneHeir' /\ OwnedByApprover' /\ Lineage'
  BY RowGoes
<1>3. MintersKnow' /\ Refreshing'
  BY DEF GrantInv, GrantTypeOK, MintersKnow, Refreshing
<1>4. WithinBudget' /\ Decided' /\ Undelivered'
  BY DEF GrantInv, WithinBudget, Decided, Undelivered, pairing
<1>5. QED
  BY <1>1, <1>2, <1>3, <1>4 DEF GrantInv

-----------------------------------------------------------------------------

LEMMA GrantNextInv == GrantInv /\ [GrantNext]_grantVars => GrantInv'
<1> SUFFICES ASSUME GrantInv, [GrantNext]_grantVars PROVE GrantInv'
  OBVIOUS
<1>1. CASE StartGrant \/ Lapse \/ SweepGrant
  BY <1>1, StartGrantInv, LapseInv, SweepGrantInv
<1>2. CASE \E b \in Browsers : BrowserNext(b)
  <2>1. PICK b \in Browsers : BrowserNext(b)
    BY <1>2
  <2>2. QED
    BY <2>1, BrowserMovesInv, SpendInv, DestroyInv DEF BrowserNext
<1>3. CASE \E c \in Clients : PollNext(c)
  BY <1>3, PollLapsedInv, PollDecidedInv, ReportDeniedInv, CallGivenUpInv, DeliverInv DEF PollNext
<1>4. CASE \E c \in Clients : SessionNext(c)
  BY <1>4, CallBeginsInv, ReplaceInv, ClaimSessionInv, RevokeInv, CallGivenUpInv DEF SessionNext
<1>5. CASE \E t \in Bearers : Expire(t)
  BY <1>5, ExpireInv
<1>6. CASE UNCHANGED grantVars
  <2> USE <1>6 DEF grantVars
  <2>1. UNCHANGED <<pairing, client, sessions, looks, verdict>>
    BY DEF pairing, sessions
  <2>2. GrantTypeOK'
    BY DEF GrantInv, GrantTypeOK
  <2>3. QED
    BY <2>1, <2>2, SessionsStand, RowsStand DEF GrantInv
<1>7. QED
  BY <1>1, <1>2, <1>3, <1>4, <1>5, <1>6 DEF GrantNext

(* The grant, its decision and the lineage of its sessions keep their      *)
(* shape and agree, whatever races and dies.                               *)
THEOREM GrantInvariant == GrantSpec => []GrantInv
<1>1. QED
  BY GrantInitInv, GrantNextInv, PTL DEF GrantSpec

(* No secret has two heirs: racing polls get one session out of a grant,   *)
(* racing refreshes one replacement out of a session.                      *)
THEOREM NoSecondHeir == GrantSpec => []OneHeir
<1>1. GrantInv => OneHeir
  BY DEF GrantInv
<1>2. QED
  BY <1>1, GrantInvariant, PTL

(* Every session acts for the operator whose approval was recorded.        *)
THEOREM SessionsOfApprover == GrantSpec => []OwnedByApprover
<1>1. GrantInv => OwnedByApprover
  BY DEF GrantInv
<1>2. QED
  BY <1>1, GrantInvariant, PTL

(* A step keeps a decision, or takes the decided grant away when its time  *)
(* is up or a call of its CLI ends.                                        *)
LEMMA DecisionStep ==
  ASSUME GrantInv, GrantNext, grant \in {"approved", "denied"}
  PROVE  \/ grant' = grant /\ approver' = approver /\ verdict' = verdict
         \/ grant' = "gone" /\ (lapsed \/ \E c \in Clients : client[c] # Idle /\ client'[c] = Idle)
<1> USE DEF pairing
<1>1. CASE StartGrant \/ Lapse \/ SweepGrant
  BY <1>1 DEF StartGrant, Lapse, SweepGrant
<1>2. CASE \E b \in Browsers : BrowserNext(b)
  BY <1>2 DEF BrowserNext, Find, Spend, Guard, Refused, Destroy, Exhausted, DropPointer, BrowserCrash
<1>3. ASSUME NEW c \in Clients, PollNext(c)
      PROVE  \/ grant' = grant /\ approver' = approver /\ verdict' = verdict
             \/ grant' = "gone" /\ (lapsed \/ (client[c] # Idle /\ client'[c] = Idle))
  <2>1. CASE PollLapsed(c) \/ PollDecided(c) \/ DeliverRefused(c)
    BY <2>1 DEF PollLapsed, PollDecided, DeliverRefused
  <2>2. CASE ReportDenied(c)
    BY <2>2 DEF ReportDenied, Idle, GrantInv, GrantTypeOK
  <2>3. CASE \E t \in Bearers : Deliver(c, t)
    BY <2>3 DEF Deliver, Idle, GrantInv, GrantTypeOK
  <2>4. QED
    BY <1>3, <2>1, <2>2, <2>3 DEF PollNext
<1>4. CASE \E c \in Clients : SessionNext(c)
  BY <1>4 DEF SessionNext, BeginRefresh, Replace, BeginRevoke, ClaimSession, Revoke, ClientCrash
<1>5. CASE \E t \in Bearers : Expire(t)
  BY <1>5 DEF Expire
<1>6. QED
  BY <1>1, <1>2, <1>3, <1>4, <1>5 DEF GrantNext

(* A decided grant keeps its decision until it is delivered, reported or   *)
(* out of time.                                                            *)
THEOREM DecisionIsFinal == GrantSpec => DecisionStands
<1>1. GrantInv /\ [GrantNext]_grantVars =>
        [(grant = "approved" \/ grant = "denied") =>
           \/ grant' = grant /\ approver' = approver /\ verdict' = verdict
           \/ grant' = "gone" /\ (lapsed \/ \E c \in Clients : client[c] # Idle /\ client'[c] = Idle)]_grantVars
  BY DecisionStep DEF grantVars
<1>2. QED
  BY <1>1, GrantInvariant, PTL DEF GrantSpec, DecisionStands

(* Peeks and decisions never exceed the budget together.                   *)
THEOREM BudgetHolds == GrantSpec => []WithinBudget
<1>1. GrantInv => WithinBudget
  BY DEF GrantInv
<1>2. QED
  BY <1>1, GrantInvariant, PTL
=============================================================================
