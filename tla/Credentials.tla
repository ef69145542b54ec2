---------------------------- MODULE Credentials ----------------------------
(***************************************************************************)
(* The stored OAuth credential of one connection and everybody who writes  *)
(* it: the workers that refresh it (connections/tokens.py), the operator   *)
(* who revokes or deletes the connection, and the consent callback that    *)
(* stores a new grant (connections/oauth_flow.py).  Refresh tokens are     *)
(* numbered in the order the provider issues them.                         *)
(***************************************************************************)
EXTENDS Naturals

CONSTANTS
    Refreshers, \* invocations that need an access token
    MaxIssued,  \* bound: refresh tokens the provider issues
    MaxVersion, \* bound: the last version whose access token expires, is rejected
                \* or is replaced by a consent without a refresh token
    MaxEnds,    \* bound: revokes and deletes
    MaxConsents,\* bound: consents
    MaxLost     \* bound: failed verifications and dead invocations

ASSUME IssuedAssumption == MaxIssued \in Nat \ {0}

VARIABLES
    rotates,    \* whether the provider replaces a refresh token on use
    issued,     \* how many it has issued
    honoured,   \* those it still accepts
    cred,       \* the credential record: ver (0 when absent), tok (0 without), live
    status,     \* the connection's record
    user,       \* user[w]: the get_access_token call w is in
    admin,      \* the revoke or delete under way
    consent,    \* the consent callback under way
    cleared,    \* history: emptied by a revoke, and no consent or delete since
    rewound,    \* history: the record's version did not grow with a write
    withdrawn,  \* history: refresh tokens revoked at the provider
    reused,     \* history: refresh tokens put back by a consent that brought none
    ends,       \* history: revokes and deletes that were begun
    consents,   \* history: consents that were begun
    lost        \* history: exchanged tokens that were never stored

credVars == <<rotates, issued, honoured, cred, status, user, admin, consent,
              cleared, rewound, withdrawn, reused, ends, consents, lost>>
oauth == <<rotates, issued, honoured>>
past == <<cleared, rewound, withdrawn, reused, ends, consents, lost>>

Unused == [pc |-> "idle"]
Empty == [ver |-> 0, tok |-> 0, live |-> FALSE]

\* What the calls under way hold.
Using == [pc : {"verify", "exchange", "store"}, tok : Nat, ver : Nat, again : BOOLEAN]
Ending == [pc : {"revoke", "clear", "mark", "remove"}, aim : {"revoke", "delete"},
           tok : Nat, ver : Nat, tries : 1..2]
Consenting ==
    [pc : {"code"}, old : Nat] \cup [pc : {"version"}, tok : Nat, new : BOOLEAN]
    \cup [pc : {"put"}, tok : Nat, new : BOOLEAN, ver : Nat] \cup [pc : {"connect"}]

CredTypeOK ==
    /\ rotates \in BOOLEAN /\ issued \in Nat /\ honoured \subseteq Nat
    /\ cred \in [ver : Nat, tok : Nat, live : BOOLEAN]
    /\ status \in {"connected", "revoked", "gone"}
    /\ user \in [Refreshers -> {Unused} \cup Using]
    /\ admin \in {Unused} \cup Ending
    /\ consent \in {Unused} \cup Consenting
    /\ cleared \in BOOLEAN /\ rewound \in BOOLEAN
    /\ withdrawn \subseteq Nat /\ reused \subseteq Nat /\ ends \in Nat /\ consents \in Nat
    /\ lost \in Nat

CredInit ==
    /\ rotates \in BOOLEAN
    /\ issued = 1 /\ honoured = {1}
    /\ cred = [ver |-> 1, tok |-> 1, live |-> TRUE]
    /\ status = "connected"
    /\ user = [w \in Refreshers |-> Unused]
    /\ admin = Unused /\ consent = Unused
    /\ cleared = FALSE /\ rewound = FALSE /\ withdrawn = {} /\ reused = {} /\ ends = 0
    /\ consents = 0 /\ lost = 0

\* expires_at passes.
AccessExpires ==
    /\ cred.live /\ cred.ver < MaxVersion
    /\ cred' = [cred EXCEPT !.live = FALSE]
    /\ UNCHANGED <<oauth, status, user, admin, consent, past>>

\* put_credential_if_version.  Mutant: an unconditional put.
PutAtAll(ver) == TRUE
PutPasses(ver) == cred.ver = 0 \/ cred.ver = ver

-----------------------------------------------------------------------------
(* get_access_token.                                                       *)

\* What the call does with the record it read: use the access token after a
\* check with the provider, refresh it, or fail.
Reading(again) ==
    IF cred.tok = 0 /\ ~cred.live THEN Unused
    ELSE [pc |-> IF cred.live THEN "verify" ELSE "exchange",
          tok |-> cred.tok, ver |-> cred.ver, again |-> again]

\* The caller's reading of the connection may be older than its revocation.
Ask(w) ==
    /\ user[w] = Unused
    /\ user' = [user EXCEPT ![w] = Reading(TRUE)]
    /\ user'[w] # Unused
    /\ UNCHANGED <<oauth, cred, status, admin, consent, past>>

\* The provider accepts the access token, and it is used; ...
Verify(w) ==
    /\ user[w].pc = "verify"
    /\ user' = [user EXCEPT ![w] = Unused]
    /\ UNCHANGED <<oauth, cred, status, admin, consent, past>>

\* ... or it rejects it, or cannot be asked: one refresh is the way out, with
\* a refresh token that may be good.
Reject(w) ==
    /\ user[w].pc = "verify" /\ cred.ver < MaxVersion
    /\ user' = [user EXCEPT ![w] = IF user[w].again /\ user[w].tok # 0
                  THEN [user[w] EXCEPT !.pc = "exchange", !.again = FALSE] ELSE Unused]
    /\ UNCHANGED <<oauth, cred, status, admin, consent, past>>

\* normalize_token_data: the provider's new refresh token, else the old one.
\* Mutant: always the old one.
KeepOld(old, new) == old
Keep(old, new) == IF rotates THEN new ELSE old

\* The provider's half of a refresh; the account check follows it.
Exchange(w) ==
    /\ user[w].pc = "exchange"
    /\ LET old == user[w].tok IN
         IF old \notin honoured
           THEN user' = [user EXCEPT ![w] = Unused] /\ UNCHANGED <<issued, honoured>>
           ELSE /\ rotates => issued < MaxIssued
                /\ issued' = IF rotates THEN issued + 1 ELSE issued
                /\ honoured' = IF rotates THEN (honoured \ {old}) \cup {issued'} ELSE honoured
                /\ user' = [user EXCEPT ![w].pc = "store", ![w].tok = Keep(old, issued')]
    /\ UNCHANGED <<rotates, cred, status, admin, consent, past>>

Store(w) ==
    /\ user[w].pc = "store" /\ PutPasses(user[w].ver)
    /\ cred' = [ver |-> user[w].ver + 1, tok |-> user[w].tok, live |-> TRUE]
    /\ user' = [user EXCEPT ![w] = Unused]
    /\ UNCHANGED <<oauth, status, admin, consent, past>>

\* VersionConflict: the winner's record is used, or refreshed once more.
Conflict(w) ==
    /\ user[w].pc = "store" /\ ~PutPasses(user[w].ver)
    /\ user' = [user EXCEPT ![w] = IF user[w].again THEN Reading(FALSE) ELSE Unused]
    /\ UNCHANGED <<oauth, cred, status, admin, consent, past>>

\* verify_account fails behind the exchange, or the invocation dies.
Abandon(w) ==
    /\ user[w] # Unused /\ lost < MaxLost
    /\ lost' = IF user[w].pc = "store" THEN lost + 1 ELSE lost
    /\ user' = [user EXCEPT ![w] = Unused]
    /\ UNCHANGED <<oauth, cred, status, admin, consent, cleared,
                   rewound, withdrawn, reused, ends, consents>>

-----------------------------------------------------------------------------
(* revoke_connection, on its own or as the first half of a delete.         *)

\* A delete skips the revoke when no token is stored; an access token past its
\* expiry still counts as one.
BeginEnd(aim) ==
    /\ admin = Unused /\ status # "gone" /\ ends < MaxEnds
    /\ ends' = ends + 1
    /\ \E pc \in {"revoke", "mark"} :
         /\ pc = "mark" => aim = "delete" /\ cred.tok = 0 /\ ~cred.live
         /\ admin' = [pc |-> pc, aim |-> aim, tok |-> cred.tok, ver |-> cred.ver, tries |-> 2]
    /\ UNCHANGED <<oauth, cred, status, user, consent, cleared,
                   rewound, withdrawn, reused, consents, lost>>

RevokeAtProvider ==
    /\ admin.pc = "revoke"
    /\ honoured' = honoured \ {admin.tok}
    /\ admin' = [admin EXCEPT !.pc = "clear"]
    /\ withdrawn' = withdrawn \cup {admin.tok}
    /\ UNCHANGED <<rotates, issued, cred, status, user, consent, cleared,
                   rewound, reused, ends, consents, lost>>

\* Every token leaves the record.  Mutant: the access token stays.
EmptiedHalf == [ver |-> admin.ver + 1, tok |-> 0, live |-> cred.live]
Emptied == [ver |-> admin.ver + 1, tok |-> 0, live |-> FALSE]

ClearStored ==
    /\ admin.pc = "clear" /\ PutPasses(admin.ver)
    /\ cred' = Emptied
    /\ cleared' = TRUE
    /\ admin' = [admin EXCEPT !.pc = "mark"]
    /\ UNCHANGED <<oauth, status, user, consent, rewound, withdrawn,
                   reused, ends, consents, lost>>

\* A conflict is tried once more with what is stored then; a delete goes on
\* whatever happens to its revoke.
ClearConflict ==
    /\ admin.pc = "clear" /\ ~PutPasses(admin.ver)
    /\ admin' = IF admin.tries > 1 THEN [admin EXCEPT !.ver = cred.ver, !.tries = @ - 1]
                ELSE IF admin.aim = "delete" THEN [admin EXCEPT !.pc = "mark"] ELSE Unused
    /\ UNCHANGED <<oauth, cred, status, user, consent, past>>

\* The connection's record is put revoked, or the credential is deleted ...
MarkEnded ==
    /\ admin.pc = "mark"
    /\ IF admin.aim = "revoke"
         THEN status' = "revoked" /\ admin' = Unused /\ UNCHANGED <<cred, cleared, rewound>>
         ELSE /\ cred' = Empty /\ cleared' = FALSE /\ rewound' = TRUE
              /\ admin' = [admin EXCEPT !.pc = "remove"] /\ UNCHANGED status
    /\ UNCHANGED <<oauth, user, consent, withdrawn, reused, ends, consents, lost>>

\* ... and then the connection's record.
RemoveConnection ==
    /\ admin.pc = "remove"
    /\ status' = "gone" /\ admin' = Unused
    /\ UNCHANGED <<oauth, cred, user, consent, past>>

-----------------------------------------------------------------------------
(* oauth_callback.                                                         *)

\* The state is consumed once, the connection and its credential are read ...
BeginConsent ==
    /\ consent = Unused /\ status # "gone" /\ consents < MaxConsents
    /\ consents' = consents + 1
    /\ consent' = [pc |-> "code", old |-> cred.tok]
    /\ UNCHANGED <<oauth, cred, status, user, admin, cleared,
                   rewound, withdrawn, reused, ends, lost>>

\* ... and the code is exchanged: the provider issues a refresh token, or it
\* issues none and the one that was read serves on.
ExchangeCode ==
    /\ consent.pc = "code"
    /\ \/ /\ issued < MaxIssued
          /\ issued' = issued + 1 /\ honoured' = honoured \cup {issued'}
          /\ consent' = [pc |-> "version", tok |-> issued', new |-> TRUE]
       \/ /\ cred.ver < MaxVersion
          /\ consent' = [pc |-> "version", tok |-> consent.old, new |-> FALSE]
          /\ UNCHANGED <<issued, honoured>>
    /\ UNCHANGED <<rotates, cred, status, user, admin, past>>

\* put_credential: the version is read, the record put without a condition.
ReadVersion ==
    /\ consent.pc = "version"
    /\ consent' = [pc |-> "put", tok |-> consent.tok, new |-> consent.new, ver |-> cred.ver + 1]
    /\ UNCHANGED <<oauth, cred, status, user, admin, past>>

PutConsent ==
    /\ consent.pc = "put"
    /\ cred' = [ver |-> consent.ver, tok |-> consent.tok, live |-> TRUE]
    /\ cleared' = FALSE
    /\ rewound' = (rewound \/ consent.ver <= cred.ver)
    /\ reused' = IF consent.new THEN reused ELSE reused \cup {consent.tok}
    /\ consent' = [pc |-> "connect"]
    /\ UNCHANGED <<oauth, status, user, admin, withdrawn, ends, consents, lost>>

\* mark_connected: the connection's record is put whole.
MarkConnected ==
    /\ consent.pc = "connect"
    /\ status' = "connected" /\ consent' = Unused
    /\ UNCHANGED <<oauth, cred, user, admin, past>>

ConsentFails ==
    /\ consent # Unused
    /\ consent' = Unused
    /\ UNCHANGED <<oauth, cred, status, user, admin, past>>

-----------------------------------------------------------------------------

CredNext ==
    \/ AccessExpires
    \/ \E w \in Refreshers :
         Ask(w) \/ Verify(w) \/ Reject(w) \/ Exchange(w) \/ Store(w) \/ Conflict(w) \/ Abandon(w)
    \/ \E aim \in {"revoke", "delete"} : BeginEnd(aim)
    \/ RevokeAtProvider \/ ClearStored \/ ClearConflict \/ MarkEnded \/ RemoveConnection
    \/ BeginConsent \/ ExchangeCode \/ ReadVersion \/ PutConsent \/ MarkConnected \/ ConsentFails

CredSpec == CredInit /\ [][CredNext]_credVars

-----------------------------------------------------------------------------

(* A revoked credential stays empty until somebody consents again or the   *)
(* connection is deleted: no refresh that was under way puts tokens back   *)
(* (put_credential_if_version, revoke_connection).  The version guards it  *)
(* only while it grows: not behind a consent that read it before another   *)
(* write, or a delete.                                                     *)
RevokedStaysEmpty == cleared /\ ~rewound => cred.tok = 0 /\ ~cred.live

\* What it rests on: as long as versions grow, nobody has read a version from
\* the future, and behind a revoke everybody's reading is older.
VersionGrows ==
    ~rewound => cred.ver > 0 /\ \A w \in Refreshers : user[w] # Unused =>
                  /\ user[w].ver <= cred.ver
                  /\ cleared => user[w].ver < cred.ver
CredInv == CredTypeOK /\ VersionGrows /\ RevokedStaysEmpty

(* With a provider that replaces refresh tokens, the stored one is the one *)
(* it accepts: two workers refreshing at once, and the one that loses the  *)
(* conditional write, never leave a spent token behind, nor does a revoke  *)
(* or a delete in between.  The token is lost only with an invocation that *)
(* dies, or fails to verify the account, between the exchange and the      *)
(* write (refresh_and_store), or to a consent that brought no refresh      *)
(* token and put back the one it had read before (oauth_callback).         *)
StoredTokenWorks ==
    cred.tok # 0 =>
        \/ cred.tok \in honoured \/ cred.tok \in withdrawn \/ lost > 0 \/ cred.tok \in reused
        \/ \E w \in Refreshers : user[w].pc = "store"

\* What it rests on.  Nobody holds a token that was not issued.  A provider
\* that keeps refresh tokens has withdrawn what it does not accept.  With one
\* that replaces them, whoever holds the stored token read the stored version,
\* unless a consent kept the token; one that waits to be stored is nobody
\* else's and is accepted; and behind a spent one that is still stored comes a
\* write that will pass.
Good(tok) == tok \in honoured \cup withdrawn
Asks(w) == user[w] # Unused
Storing(w) == user[w].pc = "store"
Granting == consent.pc \in {"version", "put"}
Issued ==
    /\ cred.tok <= issued
    /\ \A w \in Refreshers : Asks(w) => user[w].tok <= issued
    /\ \A w \in Refreshers : user[w].pc \in {"exchange", "store"} => user[w].tok # 0
    /\ Granting => consent.tok <= issued /\ (consent.new => consent.tok # 0)
    /\ consent.pc = "code" => consent.old <= issued
Kept == \A tok \in 1..issued : Good(tok)
Rotated ==
    /\ \A w \in Refreshers : Asks(w) /\ user[w].tok = cred.tok =>
         user[w].ver = cred.ver \/ cred.tok \in reused \cup {0}
    /\ \A w \in Refreshers : Storing(w) =>
         /\ Good(user[w].tok) /\ user[w].tok # cred.tok
         /\ \A v \in Refreshers \ {w} : Asks(v) => user[v].tok # user[w].tok
         /\ Granting => user[w].tok # consent.tok
         /\ consent.pc = "code" => user[w].tok # consent.old
    /\ Granting /\ consent.new =>
         /\ Good(consent.tok) /\ consent.tok # cred.tok
         /\ \A w \in Refreshers : Asks(w) => user[w].tok # consent.tok
    /\ cred.tok # 0 =>
         \/ Good(cred.tok) \/ lost > 0 \/ cred.tok \in reused
         \/ \E w \in Refreshers : Storing(w) /\ user[w].ver = cred.ver
TokenInv == Issued /\ (IF rotates THEN Rotated ELSE Kept)
=============================================================================
