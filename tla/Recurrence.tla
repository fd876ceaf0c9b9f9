----------------------------- MODULE Recurrence -----------------------------
(***************************************************************************)
(* next_fire_details and preview_fires: when a RunnerPlan fires.           *)
(*                                                                         *)
(* Time is counted in ticks; after + 1 stands for the code's one           *)
(* microsecond more.  A time zone is its offset at every tick, so a clock  *)
(* change makes a local day shorter or longer and a wall time may happen   *)
(* twice or not at all, as zoneinfo has it.                                *)
(***************************************************************************)
EXTENDS Integers, Sequences, FiniteSets, FiniteSetsExt

CONSTANTS
    Horizon,        \* the last tick; stands for the 366 * 200 days of the search
    DayLength,      \* ticks of an ordinary local day
    WeekLength,     \* days of a week
    Offset          \* the zone: local time minus UTC, at each tick

ASSUME ZoneAssumption ==
    /\ Horizon \in Nat
    /\ DayLength \in Nat \ {0}
    /\ WeekLength \in Nat \ {0}
    /\ Offset \in [0..Horizon -> Int]

Instant == 0..Horizon

LocalTime(t) == t + Offset[t]
LocalDay(t) == LocalTime(t) \div DayLength

\* _local_candidates: the instants with this wall time.
LocalCandidates(day, clock) == {t \in Instant : LocalTime(t) = day * DayLength + clock}

Weekday(day) == day % WeekLength

-----------------------------------------------------------------------------
\* The interval branch: the grid point at or after lower.
IntervalFire(every, start, lower) ==
    LET candidate == start + ((lower - start) \div every) * every IN
    IF lower <= start THEN start
    ELSE IF candidate < lower THEN candidate + every ELSE candidate

\* The period and the weekday of a calendar recurrence.
PeriodMatches(rec, start, day) ==
    LET distance == day - LocalDay(start) IN
    /\ distance >= 0
    /\ CASE rec.frequency = "daily" -> distance % rec.interval = 0
         [] rec.frequency = "weekly" ->
                /\ (distance \div WeekLength) % rec.interval = 0
                /\ Weekday(day) \in rec.weekdays

\* Variant: of two instants with the wall time the second is taken.
LastCandidate(ts) == Max(ts)

\* candidates[0]: an ambiguous wall time fires at its first instant.
FirstCandidate(ts) == Min(ts)

\* Does the loop stop at this day?
FiresOn(rec, start, lower, day) ==
    LET ts == LocalCandidates(day, rec.clock) IN
    PeriodMatches(rec, start, day) /\ ts # {} /\ FirstCandidate(ts) >= lower

\* The first day from the one of lower on that fires.
FireDay(rec, start, lower) ==
    Min({day \in LocalDay(lower)..LocalDay(Horizon) : FiresOn(rec, start, lower, day)})

\* No occurrence within the horizon.
Never == Horizon + 1

CalendarFire(rec, start, lower) ==
    IF \E day \in LocalDay(lower)..LocalDay(Horizon) : FiresOn(rec, start, lower, day)
    THEN FirstCandidate(LocalCandidates(FireDay(rec, start, lower), rec.clock))
    ELSE Never

\* next_fire_details: strictly after the last fire, not before the start.
NextFire(rec, start, lower) ==
    IF lower > Horizon THEN Never
    ELSE IF rec.kind = "interval"
         THEN Min({IntervalFire(rec.every, start, lower), Never})
         ELSE CalendarFire(rec, start, lower)

FireAfter(rec, start, last) == NextFire(rec, start, Max({start, last + 1}))

\* The first fire of a plan: at once without starts_at, else the first
\* occurrence from there on.
FirstFire(rec, start, immediate) ==
    IF immediate THEN start ELSE NextFire(rec, start, start)

\* One turn of preview_fires: the fire after the items, unless it is past the end
\* of the plan.
FireAfterItems(rec, start, immediate, items) ==
    IF items = <<>> THEN FirstFire(rec, start, immediate)
    ELSE FireAfter(rec, start, items[Len(items)])

WithNextItem(rec, start, immediate, endsAt, items) ==
    LET fire == FireAfterItems(rec, start, immediate, items) IN
    IF fire <= Min({endsAt, Horizon}) THEN Append(items, fire) ELSE items

\* preview_fires: the times of the first occurrences, up to both limits of the
\* plan.  Past the end of the plan nothing is appended any more.
PreviewItems(rec, start, immediate, endsAt, limit) ==
    LET items[i \in 0..limit] ==
            IF i = 0 THEN <<>> ELSE WithNextItem(rec, start, immediate, endsAt, items[i - 1])
    IN items

Preview(rec, start, immediate, endsAt, limit) ==
    PreviewItems(rec, start, immediate, endsAt, limit)[limit]

=============================================================================
