-------------------------- MODULE MCSchedulerService --------------------------
(***************************************************************************)
(* Instances of SchedulerService for TLC.                                  *)
(***************************************************************************)
EXTENDS SchedulerService

CONSTANTS s1, s2, g1

\* A spec with no window and no jitter; the runs vary the rest.
Plain == [kind |-> "interval", step |-> 1, period |-> 1, phase |-> 0, jitter |-> 0,
          from |-> 0, until |-> 100, misfire |-> "fire_once", catch_up_max |-> 2,
          overlap |-> "skip"]

\* An interval schedule that catches up what it missed, and a cron
\* schedule that skips what it missed and ends.
FiringSpecs ==
    {[Plain EXCEPT !.misfire = "catch_up"],
     [Plain EXCEPT !.kind = "cron", !.misfire = "skip", !.overlap = "queue",
                   !.from = 1, !.until = 3]}

LivenessSpecs == {[Plain EXCEPT !.misfire = "catch_up", !.kind = "cron"]}
=============================================================================
