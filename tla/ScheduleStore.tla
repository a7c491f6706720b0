---------------------------- MODULE ScheduleStore ----------------------------
(***************************************************************************)
(* The schedule store of src/src/etlantic/control_plane/                   *)
(* schedule_memory.py for one schedule: its record, its firings and the    *)
(* scheduler leader lease.  Every method runs under the store's lock, so   *)
(* each is one atomic step; this module gives the steps' guards and        *)
(* effects, and SchedulerService calls them from its processes.            *)
(*                                                                         *)
(* A firing is keyed by (revision, nominal fire time).  Leases hold wall-  *)
(* clock deadlines in the code; here "live" says the deadline is ahead.    *)
(***************************************************************************)
EXTENDS ScheduleClock

CONSTANTS Owners,   \* the ids a leader or a preparation lease can be held under
          NoOwner

ASSUME OwnersAssumption == NoOwner \notin Owners

VARIABLES sched,    \* the ScheduleRecord: status, rev, cursor, owner, gen
          spec,     \* its ScheduleSpec
          firings,  \* the FiringRecords, by key
          leader    \* the SchedulerLeaderLease: owner, token, live

storeVars == <<sched, spec, firings, leader>>

FiringStatuses == {"accepted", "skipped_misfire", "skipped_window",
                   "skipped_overlap", "failed_preparation"}

FiringType ==
    [st : FiringStatuses, linked : BOOLEAN, gen : Nat, owner : Owners \cup {NoOwner},
     token : Nat, live : BOOLEAN, attempts : SUBSET Nat, begun : Nat]

\* An accepted occurrence whose run is not linked to it yet.
Unlinked(k) == firings[k].st = "accepted" /\ ~firings[k].linked

UnlinkedKeys == {k \in DOMAIN firings : Unlinked(k)}

\* _has_inflight_firing: running holds the keys whose durable work has not
\* ended; an unlinked firing counts as in flight.
InFlight(k, running) ==
    firings[k].st = "accepted" /\ (firings[k].linked => k \in running)

HasInflightFiring(running) == \E k \in DOMAIN firings : InFlight(k, running)

(***************************************************************************)
(* The leader lease.                                                       *)
(***************************************************************************)
RequireLeader(o, token) ==
    leader.live /\ leader.owner = o /\ leader.token = token

\* An owner whose lease is live renews it under its token; anybody else
\* waits for the lease to expire and takes the next token.
acquire_leader_lease(o) ==
    /\ leader.live => leader.owner = o
    /\ leader' = IF leader.live
                   THEN leader
                   ELSE [owner |-> o, token |-> leader.token + 1, live |-> TRUE]

(***************************************************************************)
(* claim_firing.                                                           *)
(***************************************************************************)
\* The record changed since the caller read rec: the claim is refused with
\* PMFIRE409 before the firing is looked up.
StaleClaim(rec, timerOwner) ==
    \/ sched.status = "deleted"
    \/ sched.rev # rec.rev
    \/ sched.owner # timerOwner
    \/ sched.gen # rec.gen

\* No firing has the key, and the cursor moved or the schedule is paused.
\* expected is the cursor the caller saw, or the empty set of alternatives
\* when the caller does not compare it.
ConflictingClaim(expected) ==
    \/ expected # {} /\ sched.cursor \notin expected
    \/ sched.status # "active"

\* Mutant: only a linked run counts as an overlap.
ClaimStatusByRun(nominal, skip, running) ==
    IF skip THEN "skipped_misfire"
    ELSE IF ~InWindow(spec, nominal) THEN "skipped_window"
    ELSE IF spec.overlap = "skip" /\ \E k \in DOMAIN firings : firings[k].linked /\ k \in running
           THEN "skipped_overlap"
           ELSE "accepted"

ClaimStatus(nominal, skip, running) ==
    IF skip THEN "skipped_misfire"
    ELSE IF ~InWindow(spec, nominal) THEN "skipped_window"
    ELSE IF spec.overlap = "skip" /\ HasInflightFiring(running)
           THEN "skipped_overlap"
           ELSE "accepted"

NewFiring(status) ==
    [st |-> status, linked |-> FALSE, gen |-> sched.gen, owner |-> NoOwner, token |-> 0,
     live |-> FALSE, attempts |-> {}, begun |-> 0]

WithFiring(k, status) ==
    [j \in DOMAIN firings \cup {k} |-> IF j = k THEN NewFiring(status) ELSE firings[j]]

\* Mutant: the cursor of an accepted firing moves once its run is linked.
ClaimWithoutAdvance(k, status, nextFireAt) ==
    /\ firings' = WithFiring(k, status)
    /\ sched' = [sched EXCEPT !.cursor = IF status = "accepted" THEN @ ELSE nextFireAt]

claim_firing(k, status, nextFireAt) ==
    /\ firings' = WithFiring(k, status)
    /\ sched' = [sched EXCEPT !.cursor = nextFireAt]

(***************************************************************************)
(* The preparation lease of one occurrence.                                *)
(***************************************************************************)
\* Mutant: an expired lease has to be released first.
CanPrepareReleased(k, o) == Unlinked(k) /\ firings[k].owner \in {NoOwner, o}

CanPrepare(k, o) == Unlinked(k) /\ (firings[k].live => firings[k].owner = o)

PreparationToken(k, o) ==
    IF firings[k].live /\ firings[k].owner = o
      THEN firings[k].token
      ELSE firings[k].token + 1

acquire_firing_preparation(k, o) ==
    /\ CanPrepare(k, o)
    /\ firings' = [firings EXCEPT ![k].owner = o, ![k].live = TRUE,
                                  ![k].token = PreparationToken(k, o)]

HoldsPreparation(k, o, token) ==
    firings[k].live /\ firings[k].owner = o /\ firings[k].token = token

\* A release by anybody but the current holder changes nothing.
release_firing_preparation(k, o, token) ==
    firings' = IF firings[k].owner = o /\ firings[k].token = token
                 THEN [firings EXCEPT ![k].owner = NoOwner, ![k].live = FALSE]
                 ELSE firings

(***************************************************************************)
(* The fence around admissions of the occurrence's run.                    *)
(***************************************************************************)
CanBegin(k, o, token) == Unlinked(k) /\ HoldsPreparation(k, o, token)

NextAttempt(k) == firings[k].begun + 1

begin_firing_submission(k) ==
    firings' = [firings EXCEPT ![k].attempts = @ \cup {NextAttempt(k)},
                               ![k].begun = @ + 1]

reject_firing_submission(k, a) ==
    firings' = [firings EXCEPT ![k].attempts = @ \ {a}]

\* Mutant: the compensation does not look whether the firing was linked.
FailCompensatedAnyway(k, a) ==
    firings' = [firings EXCEPT ![k].attempts = @ \ {a}, ![k].st = "failed_preparation",
                               ![k].owner = NoOwner, ![k].live = FALSE]

\* The firing fails only when no other admission of it is under way.
fail_firing_after_compensated_submission(k, a) ==
    firings' = IF ~Unlinked(k) \/ a \notin firings[k].attempts THEN firings
               ELSE IF firings[k].attempts # {a}
                      THEN [firings EXCEPT ![k].attempts = @ \ {a}]
                      ELSE [firings EXCEPT ![k].attempts = {},
                                           ![k].st = "failed_preparation",
                                           ![k].owner = NoOwner, ![k].live = FALSE]

\* Mutant: admissions under way are forgotten.
CanFailUnfenced(k, o, token) == HoldsPreparation(k, o, token) /\ Unlinked(k)

CanFailPreparation(k, o, token) ==
    /\ HoldsPreparation(k, o, token)
    /\ Unlinked(k)
    /\ firings[k].attempts = {}

fail_firing_preparation(k) ==
    firings' = [firings EXCEPT ![k].st = "failed_preparation",
                               ![k].owner = NoOwner, ![k].live = FALSE]

\* A recovered run needs no lease; otherwise a lease that anybody holds must
\* be the caller's.
CanLink(k, o, token, recovered) ==
    /\ firings[k].st = "accepted"
    /\ \/ firings[k].owner = NoOwner
       \/ recovered
       \/ HoldsPreparation(k, o, token)

link_firing_submission(k) ==
    firings' = IF firings[k].linked
                 THEN firings
                 ELSE [firings EXCEPT ![k].linked = TRUE,
                                      ![k].owner = NoOwner, ![k].live = FALSE]

(***************************************************************************)
(* Administration of the schedule.                                         *)
(***************************************************************************)
\* Mutant: a schedule is deleted under its unlinked occurrences.
SetStatusUnchecked(status) ==
    /\ sched.status # "deleted"
    /\ sched' = [sched EXCEPT !.status = status]
    /\ UNCHANGED <<spec, firings, leader>>

\* pause, resume and delete; a schedule with an unlinked occurrence is not
\* deleted.
set_status(status) ==
    /\ sched.status # "deleted"
    /\ status = "deleted" => UnlinkedKeys = {}
    /\ sched' = [sched EXCEPT !.status = status]
    /\ UNCHANGED <<spec, firings, leader>>

\* A new revision, only once nothing is in flight.
amend(nextFireAt, running) ==
    /\ sched.status # "deleted"
    /\ ~HasInflightFiring(running)
    /\ sched' = [sched EXCEPT !.rev = @ + 1, !.cursor = nextFireAt]
    /\ UNCHANGED <<spec, firings, leader>>

\* A new timer generation, only once every occurrence is linked.
transfer_timer_owner(timerOwner) ==
    /\ sched.status # "deleted"
    /\ UnlinkedKeys = {}
    /\ sched' = [sched EXCEPT !.owner = timerOwner, !.gen = @ + 1]
    /\ UNCHANGED <<spec, firings, leader>>
=============================================================================
