----------------------------- MODULE CronTimes -----------------------------
(***************************************************************************)
(* When a schedule fires (triggers/schedule_times.py): the day matchers of *)
(* EventBridge cron, the walk of a cron expression through local days into *)
(* UTC moments, and the fires of a rate.  The code is pure: a behaviour    *)
(* asks one question, with every input, and the properties compare the     *)
(* answer with what it is meant to be.                                     *)
(*                                                                         *)
(* Hours and minutes are one thing, the slot: a day has Slots of them.     *)
(***************************************************************************)
EXTENDS Naturals, Integers, Sequences, FiniteSets

CONSTANTS
    Slots,      \* slots of a day
    Shift,      \* the slot of UTC day 1 at which the zone changes its offset
    Offsets,    \* offsets of a zone from UTC
    LastMoment  \* bound: the moments asked about

ASSUME CronAssumption ==
    /\ Slots \in Nat \ {0} /\ Shift \in 0..Slots - 1 /\ LastMoment \in Nat
    /\ Offsets \subseteq (-Slots)..Slots

VARIABLES
    asked,      \* the question: "nothing" yet, "days", "fires" or "rate"
    length,     \* days of the month
    first,      \* weekday of its first day, 1 = Sunday
    moment,     \* the moment after which fires are asked for
    zone        \* the zone's offsets before and after the change

cronVars == <<asked, length, first, moment, zone>>

CronTypeOK ==
    /\ asked \in {"nothing", "days", "fires", "rate"}
    /\ length \in 28..31 /\ first \in 1..7 /\ moment \in 0..LastMoment

CronInit ==
    /\ asked = "nothing"
    /\ length = 28 /\ first = 1 /\ moment = 0 /\ zone = <<0, 0>>

AskDays ==
    /\ asked = "nothing" /\ asked' = "days"
    /\ length' \in 28..31 /\ first' \in 1..7
    /\ UNCHANGED <<moment, zone>>

\* A zone moves its clocks by one slot, or not at all.
AskFires ==
    /\ asked = "nothing" /\ asked' = "fires"
    /\ moment' \in 0..LastMoment
    /\ zone' \in {z \in Offsets \X Offsets : z[1] - z[2] \in (-1)..1}
    /\ UNCHANGED <<length, first>>

AskRate ==
    /\ asked = "nothing" /\ asked' = "rate"
    /\ moment' \in 0..LastMoment
    /\ UNCHANGED <<length, first, zone>>

CronNext == AskDays \/ AskFires \/ AskRate
CronSpec == CronInit /\ [][CronNext]_cronVars

-----------------------------------------------------------------------------
(* Fields.                                                                 *)

Stepped(from, to, step) == {from + k * step : k \in 0..(to - from) \div step}

\* _values of one range: FRI-MON wraps.
RangeValues(low, high, from, to, step) ==
    IF to < from THEN Stepped(from, high, step) \cup Stepped(low, to, step)
    ELSE Stepped(from, to, step)

-----------------------------------------------------------------------------
(* The day matchers, for the days of the month.                            *)

MonthDays == 1..length
Weekday(d) == ((first + d - 2) % 7) + 1
Weekend(d) == Weekday(d) \in {1, 7}

LastWeekday ==
    IF ~Weekend(length) THEN length
    ELSE IF ~Weekend(length - 1) THEN length - 1 ELSE length - 2

\* nW.  Mutant: it may leave the month.
Nearer(a, b) == IF a < b THEN a ELSE b
NearestLeaving(n) ==
    LET pick == Nearer(n, length) IN
      CASE Weekday(pick) = 7 -> pick - 1
        [] Weekday(pick) = 1 -> pick + 1
        [] OTHER -> pick
NearestWeekday(n) ==
    LET pick == Nearer(n, length) IN
      CASE Weekday(pick) = 7 -> IF pick > 1 THEN pick - 1 ELSE pick + 2
        [] Weekday(pick) = 1 -> IF pick < length THEN pick + 1 ELSE pick - 2
        [] OTHER -> pick

NthWeekday(w, n) == {d \in MonthDays : Weekday(d) = w /\ ((d - 1) \div 7) + 1 = n}
LastOfWeekday(w) == {d \in MonthDays : Weekday(d) = w /\ d + 7 > length}

-----------------------------------------------------------------------------
(* Cron.fires, for the slots of every day.                                 *)

\* The UTC moment at which the zone changes, on the second day.
Change == Slots + Shift
Further(a, b) == IF a < b THEN b ELSE a

\* astimezone: the offset of a UTC moment ...
ToLocal(t) == t + (IF t < Change THEN zone[1] ELSE zone[2])

\* ... and of a local one, with fold = 0: the earlier offset, also for a
\* local time the zone skips.
ToUtc(l) == l - (IF l < Change + Further(zone[1], zone[2]) THEN zone[1] ELSE zone[2])

LocalDay(t) == ToLocal(t) \div Slots

\* The first day of the walk.  Mutant: the UTC day.
FirstDayUtc(after) == after \div Slots
FirstDay(after) == LocalDay(after)

\* The walk: day by day, slot by slot, up to the first moment past the end.
Walk(after, until, slots) ==
    LET start == FirstDay(after) * Slots
        visited == [k \in 1..(LocalDay(until) + 1) * Slots - start |-> start + k - 1]
        Matches(l) == l % Slots \in slots /\ ToUtc(l) > after
        fires == SelectSeq(visited, Matches)
        stops == {k \in DOMAIN fires : ToUtc(fires[k]) > until}
        count == IF stops = {} THEN Len(fires) ELSE (CHOOSE k \in stops : \A j \in stops : k <= j) - 1
    IN  [k \in 1..count |-> ToUtc(fires[k])]

\* next_fires of a rate, counted from its anchor.
\* Mutant: a fire at the very moment asked about is listed again.
RateMissedLess(after, start, every) == (after - start - 1) \div every
RateMissed(after, start, every) == (after - start) \div every

RateFires(after, start, every, until, count) ==
    LET once == start + every
        from == IF once > after THEN once ELSE start + every * (RateMissed(after, start, every) + 1)
        many == IF from > until THEN 0 ELSE ((until - from) \div every) + 1
    IN  [k \in 1..Nearer(many, count) |-> from + (k - 1) * every]

-----------------------------------------------------------------------------

(* The day matchers mean what EventBridge says they mean in every month:   *)
(* the nearest weekday is the closest one of the same month, the nth and   *)
(* the last weekday are counted in the month, and a range of weekdays      *)
(* wraps around the week.                                                  *)
DaysMatch ==
    LET workdays == {d \in MonthDays : ~Weekend(d)}
        distance(d, n) == IF d < n THEN n - d ELSE d - n
        count(w, d) == Cardinality({c \in 1..d : Weekday(c) = w})
    IN  asked = "days" =>
        /\ LastWeekday \in workdays /\ \A d \in workdays : d <= LastWeekday
        /\ \A n \in 1..31 :
             LET target == Nearer(n, length) IN
               /\ NearestWeekday(n) \in workdays
               /\ \A d \in workdays : distance(NearestWeekday(n), target) <= distance(d, target)
        /\ \A w \in 1..7 :
             /\ \A n \in 1..5, d \in MonthDays :
                  d \in NthWeekday(w, n) <=> Weekday(d) = w /\ count(w, d) = n
             /\ \A d \in MonthDays :
                  d \in LastOfWeekday(w) <=> Weekday(d) = w /\ count(w, d) = count(w, length)
        /\ \A v, w \in 1..7 :
             RangeValues(1, 7, v, w, 1) = {d \in 1..7 : (d - v) % 7 <= (w - v) % 7}

(* "Fire times strictly after after up to until (UTC), in order": every    *)
(* local slot of the expression, once, at its first occurrence, also in    *)
(* the days around a change of the offset.  It is not so when a slot falls *)
(* into the hour a zone skips.                                             *)
CronFiresInOrder ==
    asked = "fires" =>
    \A slots \in SUBSET (0..Slots - 1), until \in moment..LastMoment :
        LET skipped == {l \in Change + zone[1]..Change + zone[2] - 1 : l % Slots \in slots}
            due == {t \in moment + 1..until :
                      ToLocal(t) % Slots \in slots /\ \A u \in 0..t - 1 : ToLocal(u) # ToLocal(t)}
            listed == Walk(moment, until, slots)
        IN  skipped = {} =>
              /\ {listed[k] : k \in DOMAIN listed} = due
              /\ \A j, k \in DOMAIN listed : j < k => listed[j] < listed[k]

(* A rate fires at the whole periods behind its anchor: the list starts    *)
(* with the first one behind the moment asked about, on the boundary too.  *)
RateFiresInOrder ==
    asked = "rate" =>
    \A start \in 0..LastMoment, every \in 1..3, until \in moment..LastMoment, count \in 1..2 :
        LET listed == RateFires(moment, start, every, until, count)
            due == {t \in moment + 1..until : t > start /\ (t - start) % every = 0}
        IN  /\ \A k \in DOMAIN listed : listed[k] \in due
            /\ \A k \in DOMAIN listed : \A t \in due : t < listed[k] => \E j \in 1..k - 1 : listed[j] = t
            /\ Len(listed) = Nearer(Cardinality(due), count)

(* The list a schedule's page shows is the one EventBridge will fire.      *)
FiresInOrder == CronFiresInOrder /\ RateFiresInOrder
=============================================================================
