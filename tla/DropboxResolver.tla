--------------------------- MODULE DropboxResolver ---------------------------
(***************************************************************************)
(* From "this account changed" to file events (triggers/intake/dropbox_    *)
(* resolver.py): notifications on a queue, invocations that list what      *)
(* changed since the stored cursor, the stored rev of every file, and the  *)
(* events they publish.  The account is a log of changes; the rev of a     *)
(* change is its place in the log.                                         *)
(***************************************************************************)
EXTENDS Naturals, Sequences, FiniteSets

CONSTANTS
    Files,          \* paths in the account
    Resolvers,      \* invocations that run concurrently
    DeltaSize,      \* changes on one page of list_folder/continue
    MaxChanges,     \* bound: changes of the account
    MaxResets,      \* bound: cursors that Dropbox rejects or the ttl removes
    MaxBreaks       \* bound: failed calls and dead invocations; below maxReceiveCount

ASSUME DeltaAssumption == DeltaSize \in Nat \ {0} /\ IsFiniteSet(Resolvers)

VARIABLES
    account,    \* the changes of the account, each a file and what happened
    notified,   \* notifications on the Dropbox queue, the ones in flight too
    cursor,     \* the stored cursor: changes it covers, 0 without one
    rev,        \* rev[f]: the stored rev of a file, 0 without a row
    resolver,   \* resolver[r]: what one invocation holds
    published,  \* ids of the events on the event queue
    swallowed,       \* history: changes whose resolver broke between its two writes
    hidden,     \* history: deletions that a fresh listing does not show
    resets, breaks

dropVars == <<account, notified, cursor, rev, resolver, published, swallowed, hidden, resets, breaks>>
faultNotes == <<swallowed, hidden, resets, breaks>>

Resting == [pc |-> "resting"]
Gone(i) == account[i].what = "deleted"

\* The deterministic id of a change's event; one path has one deletion id.
EventId(i) == IF Gone(i) THEN <<account[i].file, 0>> ELSE <<account[i].file, i>>

\* Dropbox lists a path once, as it is now.
Current(i) == \A j \in i + 1 .. Len(account) : account[j].file # account[i].file

Exists(f) == \E i \in DOMAIN account : account[i].file = f /\ Current(i) /\ ~Gone(i)

DropInit ==
    /\ account = <<>> /\ notified = 0
    /\ cursor = 0 /\ rev = [f \in Files |-> 0]
    /\ resolver = [r \in Resolvers |-> Resting]
    /\ published = {}
    /\ swallowed = {} /\ hidden = {} /\ resets = 0 /\ breaks = 0

Moves(r, state) == resolver' = [resolver EXCEPT ![r] = state]

-----------------------------------------------------------------------------

\* The user changes a file, and the webhook enqueues a notification.
ChangeFile(f, what) ==
    /\ Len(account) < MaxChanges
    /\ what = "deleted" => Exists(f)
    /\ account' = Append(account, [file |-> f, what |-> what])
    /\ notified' = notified + 1
    /\ UNCHANGED <<cursor, rev, resolver, published, faultNotes>>

\* The row of the cursor passes its ttl.
LoseCursor ==
    /\ cursor > 0 /\ resets < MaxResets
    /\ cursor' = 0 /\ resets' = resets + 1
    /\ UNCHANGED <<account, notified, rev, resolver, published, swallowed, hidden, breaks>>

\* handler takes a notification: the connection, its token, get_cursor.
Notify(r) ==
    /\ resolver[r] = Resting
    /\ notified > Cardinality({s \in Resolvers : resolver[s] # Resting})
    /\ Moves(r, [pc |-> "list", at |-> cursor, fresh |-> cursor = 0])
    /\ UNCHANGED <<account, notified, cursor, rev, published, faultNotes>>

\* list_folder or list_continue: one page, without the deletions when the
\* listing is a fresh one.
List(r) ==
    /\ resolver[r].pc = "list"
    /\ LET at == resolver[r].at
           next == IF at + DeltaSize < Len(account) THEN at + DeltaSize ELSE Len(account)
           listed == {i \in at + 1 .. next : Current(i)}
           page == {i \in listed : resolver[r].fresh => ~Gone(i)}
       IN  /\ hidden' = hidden \cup (listed \ page)
           /\ Moves(r, [pc |-> "entries", at |-> next, fresh |-> resolver[r].fresh,
                        entries |-> page, more |-> next < Len(account)])
    /\ UNCHANGED <<account, notified, cursor, rev, published, swallowed, resets, breaks>>

\* CursorReset: the listing starts over.
ResetListing(r) ==
    /\ resolver[r].pc = "list" /\ resolver[r].at > 0
    /\ resets < MaxResets
    /\ resets' = resets + 1
    /\ Moves(r, [pc |-> "list", at |-> 0, fresh |-> TRUE])
    /\ UNCHANGED <<account, notified, cursor, rev, published, swallowed, hidden, breaks>>

\* What process_entry does not publish.  Mutant: any file it has seen before.
KnownAtAll(i) == ~Gone(i) /\ rev[account[i].file] # 0
Known(i) == ~Gone(i) /\ rev[account[i].file] = i

\* A page lists its entries in the order of their changes.
Entry(r) == CHOOSE i \in resolver[r].entries : \A j \in resolver[r].entries : i <= j
BehindEntry(r) == [resolver[r] EXCEPT !.pc = "entries", !.entries = @ \ {Entry(r)}]
AtEntry(r) == resolver[r].pc = "entries" /\ resolver[r].entries # {}

SkipEntry(r) ==
    /\ AtEntry(r) /\ Known(Entry(r))
    /\ Moves(r, BehindEntry(r))
    /\ UNCHANGED <<account, notified, cursor, rev, published, faultNotes>>

\* put_file: the rev is stored before the event is published.  A deletion
\* leaves the row alone.
StoreRev(r) ==
    /\ AtEntry(r) /\ ~Known(Entry(r))
    /\ rev' = IF Gone(Entry(r)) THEN rev ELSE [rev EXCEPT ![account[Entry(r)].file] = Entry(r)]
    /\ Moves(r, [resolver[r] EXCEPT !.pc = "publish"])
    /\ UNCHANGED <<account, notified, cursor, published, faultNotes>>

PublishEvent(r) ==
    /\ resolver[r].pc = "publish"
    /\ published' = published \cup {EventId(Entry(r))}
    /\ Moves(r, BehindEntry(r))
    /\ UNCHANGED <<account, notified, cursor, rev, faultNotes>>

NextPage(r) ==
    /\ resolver[r].pc = "entries" /\ resolver[r].entries = {} /\ resolver[r].more
    /\ Moves(r, [pc |-> "list", at |-> resolver[r].at, fresh |-> resolver[r].fresh])
    /\ UNCHANGED <<account, notified, cursor, rev, published, faultNotes>>

\* When the cursor is stored.  Mutant: behind every page's listing.
AtOnce(r) == resolver[r].pc = "entries"
AllPagesDone(r) ==
    resolver[r].pc = "entries" /\ resolver[r].entries = {} /\ ~resolver[r].more

\* put_cursor, unconditionally; then the notification is deleted.
StoreCursor(r) ==
    /\ AllPagesDone(r)
    /\ cursor' = resolver[r].at
    /\ notified' = notified - 1
    /\ Moves(r, Resting)
    /\ UNCHANGED <<account, rev, published, faultNotes>>

\* A call fails, or the invocation dies: the notification comes back.
Break(r) ==
    /\ resolver[r] # Resting /\ breaks < MaxBreaks
    /\ breaks' = breaks + 1
    /\ swallowed' = IF resolver[r].pc = "publish" /\ ~Gone(Entry(r)) THEN swallowed \cup {Entry(r)} ELSE swallowed
    /\ Moves(r, Resting)
    /\ UNCHANGED <<account, notified, cursor, rev, published, hidden, resets>>

DropNext ==
    \/ \E f \in Files, what \in {"put", "deleted"} : ChangeFile(f, what)
    \/ LoseCursor
    \/ \E r \in Resolvers :
         \/ Notify(r) \/ List(r) \/ ResetListing(r) \/ SkipEntry(r) \/ StoreRev(r)
         \/ PublishEvent(r) \/ NextPage(r) \/ StoreCursor(r) \/ Break(r)

DropSpec == DropInit /\ [][DropNext]_dropVars

-----------------------------------------------------------------------------

Changes == [file : Files, what : {"put", "deleted"}]

\* What an invocation holds: a listing to ask for, or a listed page.
Invocations ==
    {Resting} \cup [pc : {"list"}, at : Nat, fresh : BOOLEAN]
        \cup [pc : {"entries", "publish"}, at : Nat, fresh : BOOLEAN,
              entries : SUBSET Nat, more : BOOLEAN]

DropTypeOK ==
    /\ account \in Seq(Changes) /\ notified \in Nat
    /\ cursor \in 0 .. Len(account) /\ rev \in [Files -> Nat]
    /\ resolver \in [Resolvers -> Invocations]
    /\ swallowed \cup hidden \subseteq 1 .. Len(account)

\* Every invocation has its notification still on the queue.
InFlight == Cardinality({r \in Resolvers : resolver[r] # Resting}) <= notified

\* Publishing is under way: somebody stored the rev and has the event still.
InHand(i) == \E r \in Resolvers : resolver[r].pc = "publish" /\ Entry(r) = i

(* What the stored cursor has passed was published: a resolver that breaks *)
(* anywhere, and one that overtakes another, leave every change to be      *)
(* listed again.  The exception is the change whose resolver broke between *)
(* storing its rev and publishing it; the next one takes it for known.     *)
(* A fresh listing, after a lost cursor, cannot show what was deleted.     *)
PassedIsPublished ==
    \A i \in 1 .. cursor :
        Current(i) => EventId(i) \in published \/ i \in swallowed \cup hidden \/ InHand(i)

-----------------------------------------------------------------------------
(* Why the cursor passes nothing.                                          *)

\* A change is told of, or will be, or its event is lost for a reason.  A
\* deletion is never taken for known: only its own event settles it.
Settled(i) ==
    \/ EventId(i) \in published \/ i \in swallowed \cup hidden
    \/ ~Gone(i) /\ InHand(i)

\* The stored cursor has only settled changes behind it.
CursorKnows == \A i \in 1 .. cursor : Current(i) => Settled(i)

\* An invocation has listed the changes up to its place: what it does not
\* hold any more, or never held, is settled.
Walked(r) ==
    resolver[r] # Resting =>
        /\ resolver[r].at <= Len(account)
        /\ resolver[r].pc # "list" =>
             /\ resolver[r].entries \subseteq 1 .. resolver[r].at
             /\ \A i \in 1 .. resolver[r].at \ resolver[r].entries : Current(i) => Settled(i)
        /\ resolver[r].pc = "list" =>
             \A i \in 1 .. resolver[r].at : Current(i) => Settled(i)
        /\ resolver[r].pc = "publish" => resolver[r].entries # {}

\* A stored rev is that of a file, settled by whoever stored it.
RowKnows(f) ==
    rev[f] # 0 =>
        rev[f] <= Len(account) /\ account[rev[f]].file = f /\ ~Gone(rev[f]) /\ Settled(rev[f])

DropInv ==
    /\ DropTypeOK /\ InFlight /\ CursorKnows
    /\ \A r \in Resolvers : Walked(r)
    /\ \A f \in Files : RowKnows(f)
=============================================================================
