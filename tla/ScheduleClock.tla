---------------------------- MODULE ScheduleClock ----------------------------
(***************************************************************************)
(* Next-fire evaluation of src/src/etlantic/control_plane/                 *)
(* schedule_clock.py: which instant a schedule fires at next, and which    *)
(* missed instants a catch-up pass still fires.  Pure operators over       *)
(* natural-number instants; one unit is the second that the window test    *)
(* looks ahead, and Minute units make one cron minute.                     *)
(*                                                                         *)
(* A schedule's spec is a record                                           *)
(*   kind          "interval" or "cron"                                    *)
(*   step          interval_seconds                                        *)
(*   period, phase a cron expression, by the minutes it matches: those     *)
(*                 congruent to phase modulo period                        *)
(*   jitter        jitter_seconds                                          *)
(*   from, until   the effective window, until excluded                    *)
(*   misfire       "fire_once", "skip" or "catch_up"                       *)
(*   catch_up_max  the most occurrences one catch-up pass fires            *)
(*   overlap       "skip" or "queue"                                       *)
(* Time zones only decide which minutes a cron expression matches.         *)
(***************************************************************************)
EXTENDS Integers, Sequences, FiniteSets, FiniteSetsExt

CONSTANT Minute   \* the units of one cron minute

ASSUME MinuteAssumption == Minute \in Nat \ {0}

ScheduleSpec ==
    [kind : {"interval", "cron"}, step : Nat \ {0}, period : Nat \ {0}, phase : Nat,
     jitter : Nat, from : Nat, until : Nat, misfire : {"fire_once", "skip", "catch_up"},
     catch_up_max : Nat, overlap : {"skip", "queue"}]

\* next_fire_at = None: the schedule has no further occurrence.
NoFire == -1

\* next_fire_after raised.
Raises == -2

\* No last_nominal was given.
NoNominal == -1

InWindow(s, t) == s.from <= t /\ t < s.until

\* The minutes a cron expression matches (parse_cron, _cron_match).
CronMatch(s, t) == t % Minute = 0 /\ (t \div Minute) % s.period = s.phase

\* Where the search starts: an instant before the window is moved to the
\* second before it.
SearchFrom(s, after) ==
    IF ~InWindow(s, after + 1) /\ after < s.from THEN s.from - 1 ELSE after

NextInterval(s, cursor, last) ==
    LET base == IF last = NoNominal THEN cursor ELSE last
        onGrid == base + s.step
        candidate == (IF onGrid <= cursor THEN cursor + s.step ELSE onGrid)
                     + s.jitter
    IN  IF InWindow(s, candidate) THEN candidate ELSE NoFire

\* The first matching minute after the one the search starts in.  Running
\* out of minutes to try is an error and not the end of the schedule.
NextCron(s, cursor) ==
    LET start == (cursor \div Minute + 1) * Minute
        hits == {t \in start .. (start + Minute * s.period) :
                    CronMatch(s, t) /\ InWindow(s, t + s.jitter)}
    IN  IF hits = {} THEN Raises ELSE Min(hits) + s.jitter

next_fire_after(s, after, last) ==
    LET cursor == SearchFrom(s, after)
    IN  IF after >= s.until
          THEN NoFire
          ELSE IF s.kind = "interval"
                 THEN NextInterval(s, cursor, last)
                 ELSE NextCron(s, cursor)

\* The instants a catch-up pass reaches one after the other, until it passes now.
CatchUpWalk(s, last, now) ==
    LET walk[i \in 0 .. s.catch_up_max] ==
          IF i = 0
            THEN last
            ELSE LET prev == walk[i - 1]
                 IN  IF prev \in {NoFire, Raises} \/ (i > 1 /\ prev > now)
                       THEN NoFire
                       ELSE next_fire_after(s, prev, prev)
    IN  walk

\* The missed instants after last, at most catch_up_max of them, none later
\* than now.
catch_up_nominals(s, last, now) ==
    LET walk == CatchUpWalk(s, last, now)
        n == Cardinality({i \in 1 .. s.catch_up_max :
                             walk[i] \notin {NoFire, Raises} /\ walk[i] <= now})
    IN  IF \E i \in 1 .. s.catch_up_max : walk[i] = Raises
          THEN <<Raises>>
          ELSE [i \in 1 .. n |-> walk[i]]

\* Where a catch-up pass starts: one interval, or one minute, before the
\* occurrence that is due.
CatchUpStart(s, due) ==
    IF s.kind = "interval" /\ s.step > 0 THEN due - s.step ELSE due - Minute
=============================================================================
