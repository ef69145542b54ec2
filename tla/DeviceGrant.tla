---------------------------- MODULE DeviceGrant ----------------------------
(***************************************************************************)
(* One device pairing and the sessions that grow out of it: the approval   *)
(* page's peeks and decisions, the CLI's polls, and the rotation and       *)
(* revocation of the sessions (auth/device_sessions.py).  A call           *)
(* reads, then writes under a condition, and calls interleave and die      *)
(* between the two.                                                        *)
(*                                                                         *)
(* A browser stands for the signed-in operator who uses it: his subject is *)
(* the browser.  Secrets are drawn from Bearers, each at most once.        *)
(***************************************************************************)
EXTENDS Naturals

CONSTANTS
    Browsers,   \* operators with the approval page open
    Clients,    \* CLI processes that share the device code and its sessions
    Bearers,    \* session secrets that can be minted
    Budget      \* DEVICE_MAX_ATTEMPTS

ASSUME BudgetAssumption == Budget \in Nat \ {0}
ASSUME NamesAssumption == "grant" \notin Bearers /\ "none" \notin Bearers \cup Browsers

VARIABLES
    grant,      \* the pairing row: "unborn", a status, or "gone"
    attempts,   \* the row's attempts
    approver,   \* the row's subject
    pointer,    \* whether the usercode row is there
    lapsed,     \* whether the ttl of both rows has passed
    browser,    \* browser[b]: the call b is in
    client,     \* client[c]: the call c is in
    row,        \* row[t]: the session row of t
    parent,     \* parent[t]: what t was minted from: the grant or a session
    owner,      \* owner[t]: the row's subject
    looks,      \* history: peeks and decisions that were let through
    verdict     \* history: who approved the grant, or "denied"

pairing == <<grant, attempts, approver>>
sessions == <<row, parent, owner>>
grantVars == <<grant, attempts, approver, pointer, lapsed, browser, client,
               row, parent, owner, looks, verdict>>

Idle == [pc |-> "idle"]

GrantTypeOK ==
    /\ grant \in {"unborn", "pending", "approved", "denied", "gone"}
    /\ attempts \in Nat /\ looks \in Nat
    /\ approver \in Browsers \cup {"none"}
    /\ pointer \in BOOLEAN /\ lapsed \in BOOLEAN
    /\ browser \in [Browsers ->
         {Idle} \cup [pc : {"found", "refused"}, ask : {"peek", "approve", "deny"}]
                \cup [pc : {"cleanup", "approving"}]]
    /\ client \in [Clients ->
         {Idle} \cup [pc : {"denied"}] \cup [pc : {"minting"}, subject : Browsers \cup {"none"}]
                \cup [pc : {"claiming", "replacing", "revoking"}, of : Bearers]]
    /\ row \in [Bearers -> {"none", "live", "rotated", "gone"}]
    /\ parent \in [Bearers -> Bearers \cup {"none", "grant"}]
    /\ owner \in [Bearers -> Browsers \cup {"none"}]
    /\ verdict \in Browsers \cup {"none", "denied"}

GrantInit ==
    /\ grant = "unborn" /\ attempts = 0 /\ approver = "none"
    /\ pointer = FALSE /\ lapsed = FALSE
    /\ browser = [b \in Browsers |-> Idle]
    /\ client = [c \in Clients |-> Idle]
    /\ row = [t \in Bearers |-> "none"]
    /\ parent = [t \in Bearers |-> "none"] /\ owner = [t \in Bearers |-> "none"]
    /\ looks = 0 /\ verdict = "none"

-----------------------------------------------------------------------------
(* The pairing.                                                            *)

\* Both rows are written before anybody can know either code.
StartGrant ==
    /\ grant = "unborn"
    /\ grant' = "pending" /\ pointer' = TRUE
    /\ UNCHANGED <<attempts, approver, lapsed, browser, client, sessions, looks, verdict>>

\* PAIRING_TTL_SECONDS pass; from then on DynamoDB may remove the rows.
Lapse ==
    /\ grant # "unborn" /\ ~lapsed
    /\ lapsed' = TRUE
    /\ UNCHANGED <<pairing, pointer, browser, client, sessions, looks, verdict>>

SweepGrant ==
    /\ lapsed /\ grant # "gone"
    /\ grant' = "gone"
    /\ UNCHANGED <<attempts, approver, pointer, lapsed, browser, client, sessions, looks, verdict>>

-----------------------------------------------------------------------------
(* The approval page.                                                      *)

\* The lookup of both rows; its clock reading is the one the write compares.
Find(b, ask) ==
    /\ browser[b] = Idle
    /\ pointer /\ ~lapsed /\ grant = "pending"
    /\ browser' = [browser EXCEPT ![b] = [pc |-> "found", ask |-> ask]]
    /\ UNCHANGED <<pairing, pointer, lapsed, client, sessions, looks, verdict>>

\* _GUARD.  Mutants: no look at the status, no look at the budget.
GuardAnyStatus == grant # "gone" /\ attempts < Budget
GuardNoBudget == grant = "pending"
Guard == grant = "pending" /\ attempts < Budget

Spend(b) ==
    /\ browser[b].pc = "found" /\ Guard
    /\ attempts' = attempts + 1 /\ looks' = looks + 1
    /\ CASE browser[b].ask = "peek" ->
              /\ browser' = [browser EXCEPT ![b] = Idle]
              /\ UNCHANGED <<grant, approver, verdict>>
         [] browser[b].ask = "approve" ->
              /\ grant' = "approved" /\ approver' = b /\ verdict' = b
              /\ browser' = [browser EXCEPT ![b] = [pc |-> "approving"]]
         [] OTHER ->
              /\ grant' = "denied" /\ verdict' = "denied"
              /\ browser' = [browser EXCEPT ![b] = Idle]
              /\ UNCHANGED approver
    /\ UNCHANGED <<pointer, lapsed, client, sessions>>

Refused(b) ==
    /\ browser[b].pc = "found" /\ ~Guard
    /\ browser' = [browser EXCEPT ![b].pc = "refused"]
    /\ UNCHANGED <<pairing, pointer, lapsed, client, sessions, looks, verdict>>

\* _spend_or_destroy: the delete's own condition.  Mutant: any exhausted grant.
ExhaustedAtAll == grant # "gone" /\ attempts >= Budget
Exhausted == grant = "pending" /\ attempts >= Budget

Destroy(b) ==
    /\ browser[b].pc = "refused"
    /\ IF Exhausted
         THEN grant' = "gone" /\ browser' = [browser EXCEPT ![b] = [pc |-> "cleanup"]]
         ELSE grant' = grant /\ browser' = [browser EXCEPT ![b] = Idle]
    /\ UNCHANGED <<attempts, approver, pointer, lapsed, client, sessions, looks, verdict>>

\* The code pointer goes after an approval, and after a destroyed grant.
DropPointer(b) ==
    /\ browser[b].pc \in {"cleanup", "approving"}
    /\ pointer' = FALSE
    /\ browser' = [browser EXCEPT ![b] = Idle]
    /\ UNCHANGED <<pairing, lapsed, client, sessions, looks, verdict>>

BrowserCrash(b) ==
    /\ browser[b] # Idle
    /\ browser' = [browser EXCEPT ![b] = Idle]
    /\ UNCHANGED <<pairing, pointer, lapsed, client, sessions, looks, verdict>>

-----------------------------------------------------------------------------
(* The CLI's poll.                                                         *)

\* _delete_if: the pointer goes after the grant, unless the call dies first.
DropsPointer == pointer' \in {FALSE, pointer}

\* A lapsed grant is deleted; a pending one is only reported.
PollLapsed(c) ==
    /\ client[c] = Idle
    /\ lapsed /\ grant \notin {"unborn", "gone"}
    /\ grant' = "gone" /\ DropsPointer
    /\ UNCHANGED <<attempts, approver, lapsed, browser, client, sessions, looks, verdict>>

PollDecided(c) ==
    /\ client[c] = Idle
    /\ ~lapsed /\ grant \in {"approved", "denied"}
    /\ client' = [client EXCEPT ![c] =
         IF grant = "denied" THEN [pc |-> "denied"] ELSE [pc |-> "minting", subject |-> approver]]
    /\ UNCHANGED <<pairing, pointer, lapsed, browser, sessions, looks, verdict>>

\* The conditional delete that reports the denial; a loser writes nothing.
ReportDenied(c) ==
    /\ client[c].pc = "denied"
    /\ client' = [client EXCEPT ![c] = Idle]
    /\ IF grant = "denied"
         THEN grant' = "gone" /\ DropsPointer
         ELSE UNCHANGED <<grant, pointer>>
    /\ UNCHANGED <<attempts, approver, lapsed, browser, sessions, looks, verdict>>

\* A fresh secret: which one it is makes no difference.
Minted == CHOOSE t \in Bearers : row[t] = "none"

Mint(t, from, subject) ==
    /\ row[t] = "none" /\ t = Minted
    /\ row' = [row EXCEPT ![t] = "live"]
    /\ parent' = [parent EXCEPT ![t] = from]
    /\ owner' = [owner EXCEPT ![t] = subject]

\* The transaction's condition on the grant.
Deliverable == grant = "approved"

\* One transaction consumes the grant and creates the session.  Its clock
\* reading may be from just before the ttl passed.
Deliver(c, t) ==
    /\ client[c].pc = "minting" /\ Deliverable
    /\ grant' = "gone"
    /\ Mint(t, "grant", client[c].subject)
    /\ client' = [client EXCEPT ![c] = Idle]
    /\ UNCHANGED <<attempts, approver, pointer, lapsed, browser, looks, verdict>>

DeliverRefused(c) ==
    /\ client[c].pc = "minting" /\ (~Deliverable \/ lapsed)
    /\ client' = [client EXCEPT ![c] = Idle]
    /\ UNCHANGED <<pairing, pointer, lapsed, browser, sessions, looks, verdict>>

-----------------------------------------------------------------------------
(* The sessions.                                                           *)

BeginRefresh(c, t) ==
    /\ client[c] = Idle
    /\ row[t] \in {"live", "rotated"}
    /\ client' = [client EXCEPT ![c] = [pc |-> "claiming", of |-> t]]
    /\ UNCHANGED <<pairing, pointer, lapsed, browser, sessions, looks, verdict>>

\* The claim's condition.  Mutant: it only asks that the row is there.
ClaimableWhileThere(t) == row[t] \in {"live", "rotated"}
Claimable(t) == row[t] = "live"

\* The old session is claimed and cut to the grace window first ...
ClaimSession(c) ==
    /\ client[c].pc = "claiming"
    /\ LET t == client[c].of IN
         IF Claimable(t)
           THEN /\ row' = [row EXCEPT ![t] = "rotated"]
                /\ client' = [client EXCEPT ![c].pc = "replacing"]
           ELSE client' = [client EXCEPT ![c] = Idle] /\ UNCHANGED row
    /\ UNCHANGED <<pairing, pointer, lapsed, browser, parent, owner, looks, verdict>>

\* ... and only then is the replacement put.
Replace(c, t) ==
    /\ client[c].pc = "replacing"
    /\ Mint(t, client[c].of, owner[client[c].of])
    /\ client' = [client EXCEPT ![c] = Idle]
    /\ UNCHANGED <<pairing, pointer, lapsed, browser, looks, verdict>>

BeginRevoke(c, t) ==
    /\ client[c] = Idle
    /\ row[t] \in {"live", "rotated"}
    /\ client' = [client EXCEPT ![c] = [pc |-> "revoking", of |-> t]]
    /\ UNCHANGED <<pairing, pointer, lapsed, browser, sessions, looks, verdict>>

Revoke(c) ==
    /\ client[c].pc = "revoking"
    /\ row' = [row EXCEPT ![client[c].of] = "gone"]
    /\ client' = [client EXCEPT ![c] = Idle]
    /\ UNCHANGED <<pairing, pointer, lapsed, browser, parent, owner, looks, verdict>>

ClientCrash(c) ==
    /\ client[c] # Idle
    /\ client' = [client EXCEPT ![c] = Idle]
    /\ UNCHANGED <<pairing, pointer, lapsed, browser, sessions, looks, verdict>>

\* A session whose ttl has passed reads as missing, and DynamoDB removes it.
\* (A claim under way can still land before that: it is then this action
\* that comes later.)
Expire(t) ==
    /\ row[t] \in {"live", "rotated"}
    /\ row' = [row EXCEPT ![t] = "gone"]
    /\ UNCHANGED <<pairing, pointer, lapsed, browser, client, parent, owner, looks, verdict>>

-----------------------------------------------------------------------------

BrowserNext(b) ==
    \/ \E ask \in {"peek", "approve", "deny"} : Find(b, ask)
    \/ Spend(b) \/ Refused(b) \/ Destroy(b) \/ DropPointer(b) \/ BrowserCrash(b)

PollNext(c) ==
    PollLapsed(c) \/ PollDecided(c) \/ ReportDenied(c) \/ DeliverRefused(c)
    \/ \E t \in Bearers : Deliver(c, t)

SessionNext(c) ==
    \/ \E t \in Bearers : BeginRefresh(c, t) \/ Replace(c, t) \/ BeginRevoke(c, t)
    \/ ClaimSession(c) \/ Revoke(c) \/ ClientCrash(c)

GrantNext ==
    \/ StartGrant \/ Lapse \/ SweepGrant
    \/ \E b \in Browsers : BrowserNext(b)
    \/ \E c \in Clients : PollNext(c) \/ SessionNext(c)
    \/ \E t \in Bearers : Expire(t)

GrantSpec == GrantInit /\ [][GrantNext]_grantVars

-----------------------------------------------------------------------------

(* Nobody gets a second session out of one secret: the grant is turned     *)
(* into at most one session whatever polls race, and a session into at     *)
(* most one successor whatever refreshes race (poll, refresh).             *)
OneHeir ==
    \A t, u \in Bearers : parent[t] = parent[u] /\ parent[t] # "none" => t = u

(* A session acts for the operator whose approval was recorded, and no     *)
(* session comes out of a grant that was denied (decide, poll).            *)
OwnedByApprover ==
    \A t \in Bearers : row[t] # "none" => owner[t] \in Browsers /\ owner[t] = verdict

(* Peeks and decisions together never exceed the budget of one pairing,    *)
(* however they interleave (_GUARD and the in-place counter).              *)
WithinBudget == looks <= Budget

(* A decided grant keeps its decision: peeks, decisions and the clean-up   *)
(* that lose the race leave it alone, and only its CLI's delivery or       *)
(* denial report, or its expiry, takes it away (_spend_or_destroy, poll).  *)
DecisionStands ==
    [][(grant = "approved" \/ grant = "denied") =>
         \/ grant' = grant /\ approver' = approver /\ verdict' = verdict
         \/ grant' = "gone" /\ (lapsed \/ \E c \in Clients : client[c] # Idle /\ client'[c] = Idle)]_grantVars

\* What makes OneHeir and OwnedByApprover inductive: the decision on record,
Decided ==
    /\ grant \in {"unborn", "pending"} => verdict = "none" /\ attempts = looks
    /\ grant = "approved" => approver = verdict /\ verdict \in Browsers
    /\ grant = "denied" => verdict = "denied"

\* ... the grant as long as it is there, and the polls that read it approved,
Undelivered == grant # "gone" => \A t \in Bearers : parent[t] # "grant"
MintersKnow ==
    \A c \in Clients : client[c].pc = "minting" =>
        client[c].subject = verdict /\ verdict \in Browsers

\* ... the refreshes under way, of which one alone has claimed a session,
Refreshing ==
    /\ \A c \in Clients : client[c].pc \in {"claiming", "revoking"} => row[client[c].of] # "none"
    /\ \A c \in Clients : client[c].pc = "replacing" =>
         /\ row[client[c].of] \in {"rotated", "gone"}
         /\ \A t \in Bearers : parent[t] # client[c].of
    /\ \A c, d \in Clients :
         client[c].pc = "replacing" /\ client[d].pc = "replacing" /\ client[c].of = client[d].of
           => c = d

\* ... and the sessions, of which none with a successor is live.
Lineage ==
    /\ \A t \in Bearers : row[t] = "none" <=> parent[t] = "none"
    /\ \A t \in Bearers : parent[t] \in Bearers => row[parent[t]] \in {"rotated", "gone"}

GrantInv ==
    /\ GrantTypeOK /\ OneHeir /\ OwnedByApprover /\ WithinBudget
    /\ Decided /\ Undelivered /\ MintersKnow /\ Refreshing /\ Lineage
=============================================================================
