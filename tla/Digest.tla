------------------------------- MODULE Digest --------------------------------
(***************************************************************************)
(* The items one digest collects across runs (engine/actions/digest.py).   *)
(* An add counts, drops the oldest items over the cap and puts its own; a  *)
(* flush counts, reads that many and deletes what it read.  Each of these  *)
(* is a call of its own, none is conditional, and steps of several runs    *)
(* are at it at once.  An item is the number of its arrival, which is the  *)
(* order of the keys.                                                      *)
(***************************************************************************)
EXTENDS Integers, FiniteSets

CONSTANTS
    Hands,      \* digest steps that run concurrently
    Cap,        \* max_items
    MaxAdds, MaxFlushes, \* bounds: steps begun
    MaxBroken   \* bound: steps that break off, on a failed call or a dead invocation

ASSUME CapAssumption == Cap \in Nat \ {0} /\ IsFiniteSet(Hands)

VARIABLES
    kept,       \* the pending items
    arrived,    \* items that were ever put
    hand,       \* hand[h]: what one step holds
    released,   \* items in the output of a finished flush
    evicted,    \* items dropped for the cap
    hasty,      \* history: of these, by an add whose count had been overtaken
    vanished,       \* history: items deleted by a flush that broke off before its output
    adds, flushes, brokenOff

digestVars == <<kept, arrived, hand, released, evicted, hasty, vanished, adds, flushes, brokenOff>>

Free == [pc |-> "free"]

DigestInit ==
    /\ kept = {} /\ arrived = 0
    /\ hand = [h \in Hands |-> Free]
    /\ released = {} /\ evicted = {} /\ hasty = {} /\ vanished = {}
    /\ adds = 0 /\ flushes = 0 /\ brokenOff = 0

Turns(h, state) == hand' = [hand EXCEPT ![h] = state]

\* A query returns the items in the order of their keys, up to its limit.
Before(i) == {j \in kept : j < i}
Oldest(n) == {i \in kept : Cardinality(Before(i)) < n}

\* What a step deletes next.
First(items) == CHOOSE i \in items : \A j \in items : i <= j

\* One delete is done.  The adds that have counted go on with a count from
\* before it.
Deleted(h) ==
    hand' = [g \in Hands |->
        IF g = h THEN [hand[h] EXCEPT !.todo = @ \ {First(@)}]
        ELSE IF hand[g].pc \in {"oldest", "drop"} THEN [hand[g] EXCEPT !.raced = TRUE]
        ELSE hand[g]]

-----------------------------------------------------------------------------
(* run_digest_add.  (A repeat under dedupe only reads.)                    *)

\* How many items make room.  Mutant: not for the item itself.
OverBarely(total) == total - Cap
Over(total) == total + 1 - Cap

\* _pending_count ...
CountForAdd(h) ==
    /\ hand[h] = Free /\ adds < MaxAdds
    /\ adds' = adds + 1
    /\ Turns(h, [pc |-> "oldest", over |-> Over(Cardinality(kept)), raced |-> FALSE])
    /\ UNCHANGED <<kept, arrived, released, evicted, hasty, vanished, flushes, brokenOff>>

\* ... _pending: the oldest as they are now ...
ReadOldest(h) ==
    /\ hand[h].pc = "oldest"
    /\ Turns(h, [pc |-> "drop", raced |-> hand[h].raced, todo |-> Oldest(hand[h].over)])
    /\ UNCHANGED <<kept, arrived, released, evicted, hasty, vanished, adds, flushes, brokenOff>>

\* ... kv_delete, one after the other ...
DropOldest(h) ==
    /\ hand[h].pc = "drop" /\ hand[h].todo # {}
    /\ LET there == {First(hand[h].todo)} \cap kept
       IN  /\ kept' = kept \ there
           /\ evicted' = evicted \cup there
           /\ hasty' = IF hand[h].raced THEN hasty \cup there ELSE hasty
    /\ Deleted(h)
    /\ UNCHANGED <<arrived, released, vanished, adds, flushes, brokenOff>>

\* ... and kv_set under a key that sorts behind the others.
PutItem(h) ==
    /\ hand[h].pc = "drop" /\ hand[h].todo = {}
    /\ arrived' = arrived + 1
    /\ kept' = kept \cup {arrived + 1}
    /\ Turns(h, Free)
    /\ UNCHANGED <<released, evicted, hasty, vanished, adds, flushes, brokenOff>>

-----------------------------------------------------------------------------
(* run_digest_flush.                                                       *)

\* The count limits the read; an empty digest releases nothing.
CountForFlush(h, clears) ==
    /\ hand[h] = Free /\ flushes < MaxFlushes /\ kept # {}
    /\ flushes' = flushes + 1
    /\ Turns(h, [pc |-> "fetch", limit |-> Cardinality(kept), clears |-> clears])
    /\ UNCHANGED <<kept, arrived, released, evicted, hasty, vanished, adds, brokenOff>>

Fetch(h) ==
    /\ hand[h].pc = "fetch"
    /\ LET items == Oldest(hand[h].limit)
       IN  Turns(h, [pc |-> "clear", items |-> items,
                     todo |-> IF hand[h].clears THEN items ELSE {}])
    /\ UNCHANGED <<kept, arrived, released, evicted, hasty, vanished, adds, flushes, brokenOff>>

\* Mutant: the digest is emptied, whatever came since the read.
ClearAll(h) ==
    /\ hand[h].pc = "clear" /\ hand[h].todo # {}
    /\ kept' = {}
    /\ Deleted(h)
    /\ UNCHANGED <<arrived, released, evicted, hasty, vanished, adds, flushes, brokenOff>>

\* Exactly what was read is deleted, item by item.
Clear(h) ==
    /\ hand[h].pc = "clear" /\ hand[h].todo # {}
    /\ kept' = kept \ {First(hand[h].todo)}
    /\ Deleted(h)
    /\ UNCHANGED <<arrived, released, evicted, hasty, vanished, adds, flushes, brokenOff>>

\* The step is closed with its output.
Output(h) ==
    /\ hand[h].pc = "clear" /\ hand[h].todo = {}
    /\ released' = released \cup hand[h].items
    /\ Turns(h, Free)
    /\ UNCHANGED <<kept, arrived, evicted, hasty, vanished, adds, flushes, brokenOff>>

-----------------------------------------------------------------------------

\* A call fails, or the invocation dies: the step runs anew, from its count.
BreakOff(h) ==
    /\ hand[h] # Free /\ brokenOff < MaxBroken
    /\ brokenOff' = brokenOff + 1
    /\ vanished' = IF hand[h].pc = "clear" THEN vanished \cup (hand[h].items \ kept) ELSE vanished
    /\ Turns(h, Free)
    /\ UNCHANGED <<kept, arrived, released, evicted, hasty, adds, flushes>>

DigestNext == \E h \in Hands :
    \/ CountForAdd(h) \/ ReadOldest(h) \/ DropOldest(h) \/ PutItem(h)
    \/ \E clears \in BOOLEAN : CountForFlush(h, clears)
    \/ Fetch(h) \/ Clear(h) \/ Output(h) \/ BreakOff(h)

DigestSpec == DigestInit /\ [][DigestNext]_digestVars

-----------------------------------------------------------------------------

\* The items that arrive behind i sooner or later, the ones of adds that broke
\* off after they had made room included.
Adding == {h \in Hands : hand[h].pc \in {"oldest", "drop"}}
Behind(i) == arrived - i + Cardinality(Adding) + brokenOff

(* Only what is not flushed within max_items arrivals is lost: any other   *)
(* item is still pending or comes out of a flush, although adds and        *)
(* flushes count first and act later.  Two exceptions: an add whose count  *)
(* another step overtook makes more room than it needs, up to all that is  *)
(* left; and a flush that breaks off after its deletes takes the batch     *)
(* with it (the rerun finds the digest empty).                             *)
NothingDropped ==
    \A i \in 1 .. arrived :
        \/ i \in kept \cup released \cup vanished \cup hasty
        \/ \E h \in Hands : hand[h].pc = "clear" /\ i \in hand[h].items
        \/ i \in evicted /\ Behind(i) >= Cap

(* The cap is exceeded by the items of the adds that ran at once, and it   *)
(* does not creep: the next add makes room for all of them.                *)
CapHolds == Cardinality(kept) <= Cap + Cardinality(Hands) - 1

-----------------------------------------------------------------------------
(* Why nothing else is lost, and why the cap does not creep.               *)

Grips ==
    {Free} \cup [pc : {"oldest"}, over : Int, raced : BOOLEAN]
        \cup [pc : {"drop"}, raced : BOOLEAN, todo : SUBSET Nat]
        \cup [pc : {"fetch"}, limit : Nat, clears : BOOLEAN]
        \cup [pc : {"clear"}, items : SUBSET Nat, todo : SUBSET Nat]

DigestTypeOK ==
    /\ arrived \in Nat /\ brokenOff \in Nat /\ kept \subseteq 1 .. arrived
    /\ hand \in [Hands -> Grips]
    /\ evicted \subseteq 1 .. arrived

\* A flush deletes what it has read.
Cleared == \A h \in Hands : hand[h].pc = "clear" => hand[h].todo \subseteq hand[h].items

\* An add that nobody overtook finds at least what it counted, and drops only
\* items with a full digest, but for its own item, behind them.
MakesRoom(h) ==
    /\ hand[h].pc = "oldest" /\ ~hand[h].raced => hand[h].over + Cap - 1 <= Cardinality(kept)
    /\ hand[h].pc = "drop" /\ ~hand[h].raced => \A i \in hand[h].todo : arrived - i >= Cap - 1

\* The kept items that an add is about to drop.
Doomed(h) == IF hand[h].pc = "oldest" THEN Oldest(hand[h].over) ELSE hand[h].todo \cap kept

\* Whichever of the adds go on: what they leave, and their own items, fit.
RoomFor(some) ==
    Cardinality(kept \ UNION {Doomed(h) : h \in some}) + Cardinality(some)
        <= Cap + Cardinality(Hands) - 1

DigestInv ==
    /\ DigestTypeOK /\ Cleared /\ NothingDropped
    /\ \A h \in Hands : MakesRoom(h)
    /\ \A some \in SUBSET Adding : RoomFor(some)
=============================================================================
