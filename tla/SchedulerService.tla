--------------------------- MODULE SchedulerService ---------------------------
(***************************************************************************)
(* Scheduler roles and gateway triggers over one schedule                  *)
(* (src/src/etlantic/runtime/scheduler_service.py and                      *)
(* src/src/etlantic/service/schedule.py), with the part of managed         *)
(* admission they drive for one occurrence                                 *)
(* (src/src/etlantic/service/managed.py).                                  *)
(*                                                                         *)
(* A process is a scheduler, which ticks over and over under the leader    *)
(* lease, or one trigger call of the gateway.  Both bring an occurrence    *)
(* from its claim to its linked run along the same path:                   *)
(*                                                                         *)
(*   recover -> acquire -> prepare -> submit -> begin -> cp1 -> dur -> link *)
(*                                                                         *)
(* where recover and submit first look the command up: a receipt in the    *)
(* control plane store (CP1) without durable work (CP3) is repaired by     *)
(* repair -> accept -> verify, and a durable rejection is compensated by   *)
(* cancel -> confirm -> terminate.  Every step reads or writes one store   *)
(* under that store's lock.                                                *)
(*                                                                         *)
(* Every attempt of an occurrence uses one idempotency key, so the receipt *)
(* and the durable row of a key are one each.                              *)
(***************************************************************************)
EXTENDS ScheduleStore

CONSTANTS Schedulers,    \* scheduler roles
          Triggers,      \* trigger calls of the gateway, each made once
          Specs,         \* the schedule specs a behaviour may start with
          ManualTimes,   \* the nominal times a manual trigger may name
          MaxTime,       \* bound: the last instant the clock reaches
          MaxRev,        \* bound: schedule revisions
          MaxGen,        \* bound: timer generations
          MaxLeader,     \* bound: leader tokens
          Faults,        \* the kinds of faults and interventions that happen
          MaxFaults      \* bound: how many of them happen

ASSUME ProcessAssumption ==
    /\ Schedulers \cup Triggers = Owners
    /\ Schedulers \cap Triggers = {}

ASSUME ScheduleAssumption ==
    /\ Specs \subseteq ScheduleSpec
    /\ MaxTime \in Nat
    /\ MaxRev \in Nat \ {0}
    /\ MaxGen \in Nat \ {0}
    /\ MaxLeader \in Nat
    /\ ManualTimes \subseteq 0 .. MaxTime

VARIABLES now,    \* the clock
          proc,   \* the control state and the locals of every process
          cp1,    \* the receipt of a key in the control plane store
          dur,    \* the durable work of a key
          draining, \* the schedulers asked to drain
          left    \* how many faults and interventions may still happen

vars == <<sched, spec, firings, leader, now, proc, cp1, dur, draining, left>>

Procs == Schedulers \cup Triggers

Keys == (1 .. MaxRev) \X (0 .. MaxTime)

NoKey == <<0, 0>>

\* Locals: the leader token; the time read at the start of the tick; the
\* unlinked occurrences still to reconcile; the record read before a claim
\* and the nominal times to claim from it, with the cursor expected;
\* the occurrence at hand, its preparation token and admission attempt;
\* whether this process created the CP1 receipt; whether the recovery runs
\* inside a guarded submission; and what to return to.
Idle == [pc |-> "idle", tok |-> 0, clk |-> 0, todo |-> {},
         rec |-> [rev |-> 0, gen |-> 0, cursor |-> NoFire], noms |-> <<>>,
         exp |-> {}, skip |-> FALSE, key |-> NoKey, ptok |-> 0, att |-> 0,
         created |-> FALSE, guarded |-> FALSE, via |-> "none"]

Places ==
    {"idle", "list", "reconcile", "claim", "trigger", "recover", "acquire", "prepare",
     "submit", "repair", "accept", "verify", "begin", "cp1", "dur", "cancel", "confirm",
     "terminate", "raise", "link", "done"}

Locals ==
    [pc : Places, tok : Nat, clk : 0 .. MaxTime, todo : SUBSET Keys,
     rec : [rev : Nat, gen : Nat, cursor : Nat \cup {NoFire}], noms : Seq(Int),
     exp : SUBSET Int, skip : BOOLEAN, key : Keys \cup {NoKey}, ptok : Nat, att : Nat,
     created : BOOLEAN, guarded : BOOLEAN, via : {"none", "reconcile", "claim", "trigger"}]

\* create: a spec without a computable first occurrence is refused.
Init ==
    /\ spec \in Specs
    /\ next_fire_after(spec, 0, NoNominal) # Raises
    /\ sched = [status |-> "active", rev |-> 1, owner |-> "local", gen |-> 1,
                cursor |-> next_fire_after(spec, 0, NoNominal)]
    /\ firings = <<>>
    /\ leader = [owner |-> NoOwner, token |-> 0, live |-> FALSE]
    /\ now = 0
    /\ proc = [p \in Procs |-> Idle]
    /\ cp1 = [k \in Keys |-> "none"]
    /\ dur = [k \in Keys |-> "none"]
    /\ draining = {}
    /\ left = MaxFaults

\* The durable work that submission_status reports as not ended.
Running == {k \in Keys : dur[k] \in {"accepted", "cancelling"}}

At(p, pc) == proc[p].pc = pc

Goto(p, pc) == proc' = [proc EXCEPT ![p].pc = pc]

Spend(fault) == fault \in Faults /\ left > 0 /\ left' = left - 1

admissionVars == <<cp1, dur>>
envVars == <<now, draining>>

(***************************************************************************)
(* How a process leaves an occurrence: a reconciling scheduler goes on to  *)
(* the next one whatever happened, a firing scheduler gives up the         *)
(* schedule for this tick when an error was raised, a trigger returns.     *)
(***************************************************************************)
ForgetKey(p) == [proc[p] EXCEPT !.key = NoKey, !.ptok = 0, !.att = 0,
                                !.created = FALSE, !.guarded = FALSE]

Finish(p) ==
    proc' = [proc EXCEPT ![p] =
        CASE proc[p].via = "reconcile" -> [ForgetKey(p) EXCEPT !.pc = "reconcile"]
          [] proc[p].via = "claim" -> [ForgetKey(p) EXCEPT !.pc = "claim"]
          [] OTHER -> [Idle EXCEPT !.pc = "done"]]

Abandon(p) ==
    proc' = [proc EXCEPT ![p] =
        CASE proc[p].via = "reconcile" -> [ForgetKey(p) EXCEPT !.pc = "reconcile"]
          [] proc[p].via = "claim" -> Idle
          [] OTHER -> [Idle EXCEPT !.pc = "done"]]

\* An error after the preparation lease was taken gives the lease back.
AbandonPrepared(p) ==
    /\ release_firing_preparation(proc[p].key, p, proc[p].ptok)
    /\ Abandon(p)

\* An error raised by a recovery: only a guarded one holds a lease.
AbandonRecovery(p) ==
    IF proc[p].guarded
      THEN AbandonPrepared(p)
      ELSE Abandon(p) /\ UNCHANGED firings

(***************************************************************************)
(* The scheduler's tick.                                                   *)
(***************************************************************************)
tick(p) ==
    /\ At(p, "idle")
    /\ p \notin draining
    /\ leader.live \/ leader.token < MaxLeader
    /\ acquire_leader_lease(p)
    /\ proc' = [proc EXCEPT ![p] =
                  [Idle EXCEPT !.pc = "list", !.tok = leader'.token, !.clk = now]]
    /\ UNCHANGED <<sched, spec, firings, envVars, left, admissionVars>>

\* _reconcile_unlinked_firings: the firings of a schedule not deleted.
ListUnlinked(p) ==
    /\ At(p, "list")
    /\ proc' = [proc EXCEPT ![p].pc = "reconcile",
                            ![p].todo = IF sched.status = "deleted"
                                          THEN {} ELSE UnlinkedKeys]
    /\ UNCHANGED <<storeVars, envVars, left, admissionVars>>

ReconcileOne(p) ==
    /\ At(p, "reconcile")
    /\ p \notin draining
    /\ \E k \in proc[p].todo :
          proc' = [proc EXCEPT ![p].pc = "recover", ![p].key = k,
                               ![p].todo = @ \ {k}, ![p].via = "reconcile"]
    /\ UNCHANGED <<storeVars, envVars, left, admissionVars>>

\* due_schedules, and the nominal times _fire_due claims for the schedule.
Due(clk) ==
    /\ sched.status = "active"
    /\ sched.owner = "local"
    /\ sched.cursor # NoFire
    /\ sched.cursor <= clk

MissedIsSkipped(clk) ==
    \/ spec.misfire = "skip" /\ sched.cursor < clk
    \/ spec.misfire = "catch_up" /\ spec.catch_up_max = 0

Nominals(clk) ==
    IF spec.misfire = "catch_up" /\ spec.catch_up_max > 0
      THEN catch_up_nominals(spec, CatchUpStart(spec, sched.cursor), clk)
      ELSE <<sched.cursor>>

DueSchedules(p) ==
    /\ At(p, "reconcile")
    /\ proc[p].todo = {} \/ p \in draining
    /\ proc' = [proc EXCEPT ![p] =
          IF Due(proc[p].clk) /\ p \notin draining
            THEN [ForgetKey(p) EXCEPT
                    !.pc = "claim", !.via = "claim", !.todo = {},
                    !.rec = [rev |-> sched.rev, gen |-> sched.gen,
                             cursor |-> sched.cursor],
                    !.noms = Nominals(proc[p].clk), !.exp = {sched.cursor},
                    !.skip = MissedIsSkipped(proc[p].clk)]
            ELSE Idle]
    /\ UNCHANGED <<storeVars, envVars, left, admissionVars>>

(***************************************************************************)
(* Claiming the next nominal time of the list.  An error (the leader lease *)
(* is lost, or the next occurrence cannot be computed) ends the schedule   *)
(* for this tick; a PMFIRE409 conflict goes on to the next nominal time.   *)
(***************************************************************************)
\* Mutant: the next occurrence is counted from the time of the tick.
NextOfTick(p) == next_fire_after(spec, proc[p].clk, Head(proc[p].noms))

NextOf(p) ==
    LET nominal == Head(proc[p].noms)
    IN  next_fire_after(spec, IF proc[p].skip THEN proc[p].clk ELSE nominal, nominal)

\* The locals after one nominal time is dealt with.
AfterClaim(p) == [proc[p] EXCEPT !.noms = Tail(@), !.exp = {NextOf(p)}]

\* An accepted occurrence without a run goes on to be recovered.
TakeOccurrence(p, k) ==
    proc' = [proc EXCEPT ![p] = [AfterClaim(p) EXCEPT !.pc = "recover", !.key = k]]

ClaimStops(p) ==
    IF proc[p].noms \in {<<>>, <<Raises>>}
      THEN TRUE
      ELSE p \in draining \/ NextOf(p) = Raises \/ ~RequireLeader(p, proc[p].tok)

ClaimEnds(p) ==
    /\ At(p, "claim")
    /\ ClaimStops(p)
    /\ proc' = [proc EXCEPT ![p] = Idle]
    /\ UNCHANGED <<storeVars, envVars, left, admissionVars>>

ClaimScheduled(p) ==
    /\ At(p, "claim")
    /\ ~ClaimStops(p)
    /\ LET nominal == Head(proc[p].noms)
           k == <<proc[p].rec.rev, nominal>>
           status == ClaimStatus(nominal, proc[p].skip, Running)
       IN  \/ /\ \/ StaleClaim(proc[p].rec, "local")
                 \/ k \notin DOMAIN firings /\ ConflictingClaim(proc[p].exp)
              /\ proc' = [proc EXCEPT ![p] = AfterClaim(p)]
              /\ UNCHANGED <<sched, firings>>
           \/ /\ ~StaleClaim(proc[p].rec, "local")
              /\ k \in DOMAIN firings
              /\ IF Unlinked(k)
                   THEN TakeOccurrence(p, k)
                   ELSE proc' = [proc EXCEPT ![p] = AfterClaim(p)]
              /\ UNCHANGED <<sched, firings>>
           \/ /\ ~StaleClaim(proc[p].rec, "local")
              /\ k \notin DOMAIN firings
              /\ ~ConflictingClaim(proc[p].exp)
              /\ claim_firing(k, status, NextOf(p))
              /\ IF status = "accepted"
                   THEN TakeOccurrence(p, k)
                   ELSE proc' = [proc EXCEPT ![p] = AfterClaim(p)]
    /\ UNCHANGED <<spec, leader, envVars, left, admissionVars>>

(***************************************************************************)
(* A trigger call: the record is read, then the claim is made with what    *)
(* was read.  A manual trigger names any time, leaves the cursor as it     *)
(* read it and compares nothing with it; an external one must match the    *)
(* cursor, and advances it.                                                *)
(***************************************************************************)
ReadRecord(g, nominal, expected, skip) ==
    proc' = [proc EXCEPT ![g] =
        [Idle EXCEPT !.pc = "trigger", !.via = "trigger", !.clk = now,
                     !.rec = [rev |-> sched.rev, gen |-> sched.gen,
                              cursor |-> sched.cursor],
                     !.noms = <<nominal>>, !.exp = expected, !.skip = skip]]

trigger(g) ==
    /\ At(g, "idle")
    /\ sched.status # "deleted"
    /\ sched.owner = "local"
    /\ \E t \in ManualTimes : ReadRecord(g, t, {}, FALSE)
    /\ UNCHANGED <<storeVars, envVars, left, admissionVars>>

\* At most a minute early (MAX_TRIGGER_FUTURE_SKEW_SECONDS).
trigger_external(g) ==
    /\ At(g, "idle")
    /\ sched.status # "deleted"
    /\ sched.owner = "external"
    /\ \E t \in 0 .. MaxTime :
          /\ \/ <<sched.rev, t>> \in DOMAIN firings
             \/ sched.status = "active" /\ t = sched.cursor /\ t <= now + Minute
          /\ ReadRecord(g, t, {sched.cursor},
                        \/ spec.misfire = "skip" /\ t < now
                        \/ spec.misfire = "catch_up" /\ spec.catch_up_max = 0 /\ t <= now)
    /\ UNCHANGED <<storeVars, envVars, left, admissionVars>>

IsManual(g) == proc[g].exp = {}

TriggerNext(g) == IF IsManual(g) THEN proc[g].rec.cursor ELSE NextOf(g)

trigger_record(g) ==
    /\ At(g, "trigger")
    /\ LET nominal == Head(proc[g].noms)
           k == <<proc[g].rec.rev, nominal>>
           refused == \/ StaleClaim(proc[g].rec, IF IsManual(g) THEN "local" ELSE "external")
                      \/ ConflictingClaim(proc[g].exp)
                      \/ TriggerNext(g) = Raises
           status == ClaimStatus(nominal, proc[g].skip, Running)
       IN  \/ /\ k \in DOMAIN firings
              /\ IF Unlinked(k) THEN TakeOccurrence(g, k) ELSE Finish(g)
              /\ UNCHANGED <<sched, firings>>
           \/ /\ k \notin DOMAIN firings
              /\ refused
              /\ Abandon(g)
              /\ UNCHANGED <<sched, firings>>
           \/ /\ k \notin DOMAIN firings
              /\ ~refused
              /\ claim_firing(k, status, TriggerNext(g))
              /\ IF status = "accepted" THEN TakeOccurrence(g, k) ELSE Finish(g)
    /\ UNCHANGED <<spec, leader, envVars, left, admissionVars>>

(***************************************************************************)
(* recover_scheduled_occurrence, first without a lease and again inside    *)
(* the guarded submission: a command both stores know is linked, one only  *)
(* the control plane knows is repaired while its receipt is live.          *)
(***************************************************************************)
recover_scheduled_occurrence(p) ==
    /\ At(p, "recover") \/ At(p, "submit")
    /\ LET k == proc[p].key
       IN  \/ /\ cp1[k] = "none"
              /\ Goto(p, IF At(p, "submit") THEN "begin" ELSE "acquire")
              /\ UNCHANGED firings
           \/ /\ cp1[k] # "none" /\ dur[k] # "none"
              /\ Goto(p, "link")
              /\ UNCHANGED firings
           \/ /\ cp1[k] = "accepted" /\ dur[k] = "none"
              /\ Goto(p, "repair")
              /\ UNCHANGED firings
           \/ /\ cp1[k] = "cancelled" /\ dur[k] = "none"
              /\ AbandonRecovery(p)
    /\ UNCHANGED <<sched, spec, leader, envVars, left, admissionVars>>

\* _recover_cp1_only_submission: the receipt is read again, and a guarded
\* repair opens an admission attempt, before durable work is accepted.
RepairBegin(p) ==
    /\ At(p, "repair")
    /\ LET k == proc[p].key
           live == cp1[k] = "accepted"
           fenced == CanBegin(k, p, proc[p].ptok)
       IN  \/ /\ live /\ ~proc[p].guarded
              /\ Goto(p, "accept")
              /\ UNCHANGED firings
           \/ /\ live /\ proc[p].guarded /\ fenced
              /\ begin_firing_submission(k)
              /\ Goto(p, "accept")
           \/ /\ ~live \/ (proc[p].guarded /\ ~fenced)
              /\ AbandonRecovery(p)
    /\ UNCHANGED <<sched, spec, leader, envVars, left, admissionVars>>

CommitDurable(k) == dur' = [dur EXCEPT ![k] = IF @ = "none" THEN "accepted" ELSE @]

CancelDurable(k) == dur' = [dur EXCEPT ![k] = IF @ = "accepted" THEN "cancelling" ELSE @]

RepairAccept(p) ==
    /\ At(p, "accept")
    /\ \/ /\ CommitDurable(proc[p].key)
          /\ Goto(p, "verify")
          /\ UNCHANGED <<firings, left>>
       \/ /\ Spend("uncertain")
          /\ CommitDurable(proc[p].key) \/ UNCHANGED dur
          /\ AbandonRecovery(p)
       \/ /\ Spend("reject")
          /\ AbandonRecovery(p)
          /\ UNCHANGED dur
    /\ UNCHANGED <<sched, spec, leader, envVars, cp1>>

\* The receipt is read a last time; work accepted for a receipt that was
\* cancelled meanwhile is cancelled too.
RepairVerify(p) ==
    /\ At(p, "verify")
    /\ \/ /\ cp1[proc[p].key] = "accepted"
          /\ Goto(p, "link")
          /\ UNCHANGED <<firings, dur>>
       \/ /\ cp1[proc[p].key] # "accepted"
          /\ CancelDurable(proc[p].key)
          /\ AbandonRecovery(p)
    /\ UNCHANGED <<sched, spec, leader, envVars, left, cp1>>

(***************************************************************************)
(* Preparation under the preparation lease.  Whoever finds the lease held  *)
(* leaves the occurrence to its holder.                                    *)
(***************************************************************************)
AcquirePreparation(p) ==
    /\ At(p, "acquire")
    /\ LET k == proc[p].key
       IN  \/ /\ acquire_firing_preparation(k, p)
              /\ proc' = [proc EXCEPT ![p].pc = "prepare", ![p].guarded = TRUE,
                                      ![p].ptok = PreparationToken(k, p)]
           \/ /\ ~CanPrepare(k, p)
              /\ Finish(p)
              /\ UNCHANGED firings
    /\ UNCHANGED <<sched, spec, leader, envVars, left, admissionVars>>

\* prepare_scheduled_occurrence with its metadata checkpoints, which need the
\* lease.  A permanent error fails the firing if no admission has begun.
PrepareOccurrence(p) ==
    /\ At(p, "prepare")
    /\ LET k == proc[p].key
           held == HoldsPreparation(k, p, proc[p].ptok)
       IN  \/ /\ held
              /\ Goto(p, "submit")
              /\ UNCHANGED <<firings, left>>
           \/ /\ ~held
              /\ AbandonPrepared(p)
              /\ UNCHANGED left
           \/ /\ Spend("uncertain")
              /\ AbandonPrepared(p)
           \/ /\ Spend("reject")
              /\ IF CanFailPreparation(k, p, proc[p].ptok)
                   THEN fail_firing_preparation(k) /\ Abandon(p)
                   ELSE AbandonPrepared(p)
    /\ UNCHANGED <<sched, spec, leader, envVars, admissionVars>>

(***************************************************************************)
(* submit_run for a command neither store knew: the acceptance guard opens *)
(* an admission attempt, then the receipt and the durable work are         *)
(* accepted in two stores.                                                 *)
(***************************************************************************)
BeginAdmission(p) ==
    /\ At(p, "begin")
    /\ LET k == proc[p].key
       IN  \/ /\ CanBegin(k, p, proc[p].ptok)
              /\ begin_firing_submission(k)
              /\ proc' = [proc EXCEPT ![p].pc = "cp1", ![p].att = NextAttempt(k)]
           \/ /\ ~CanBegin(k, p, proc[p].ptok)
              /\ AbandonPrepared(p)
    /\ UNCHANGED <<sched, spec, leader, envVars, left, admissionVars>>

CommitReceipt(k) == cp1' = [cp1 EXCEPT ![k] = IF @ = "none" THEN "accepted" ELSE @]

\* Accepted or replayed; an acknowledgement lost and found again; one that
\* stays uncertain, committed or not; a rejection of a command that has no
\* receipt, which takes the attempt back.
AcceptReceipt(p) ==
    /\ At(p, "cp1")
    /\ LET k == proc[p].key
       IN  \/ /\ CommitReceipt(k)
              /\ proc' = [proc EXCEPT ![p].pc = "dur", ![p].created = cp1[k] = "none"]
              /\ UNCHANGED <<firings, left>>
           \/ /\ Spend("uncertain")
              /\ CommitReceipt(k)
              /\ Goto(p, "dur")
              /\ UNCHANGED firings
           \/ /\ Spend("uncertain")
              /\ CommitReceipt(k) \/ UNCHANGED cp1
              /\ AbandonPrepared(p)
           \/ /\ Spend("reject")
              /\ cp1[k] = "none"
              /\ reject_firing_submission(k, proc[p].att)
              /\ Goto(p, "raise")
              /\ UNCHANGED cp1
    /\ UNCHANGED <<sched, spec, leader, envVars, dur>>

\* A definite rejection of durable work that nobody else had accepted is
\* compensated by the process that created the receipt.
AcceptDurable(p) ==
    /\ At(p, "dur")
    /\ LET k == proc[p].key
       IN  \/ /\ CommitDurable(k)
              /\ Goto(p, "link")
              /\ UNCHANGED <<firings, left>>
           \/ /\ Spend("uncertain")
              /\ CommitDurable(k) \/ UNCHANGED dur
              /\ AbandonPrepared(p)
           \/ /\ Spend("reject")
              /\ dur[k] = "none"
              /\ IF proc[p].created
                   THEN Goto(p, "cancel") /\ UNCHANGED firings
                   ELSE AbandonPrepared(p)
              /\ UNCHANGED dur
    /\ UNCHANGED <<sched, spec, leader, envVars, cp1>>

CancelReceipt(p) ==
    /\ At(p, "cancel")
    /\ cp1' = [cp1 EXCEPT ![proc[p].key] = "cancelled"]
    /\ Goto(p, "confirm")
    /\ UNCHANGED <<storeVars, envVars, left, dur>>

\* The second look at the durable store, after the cancellation.
ConfirmAbsence(p) ==
    /\ At(p, "confirm")
    /\ \/ /\ dur[proc[p].key] = "none"
          /\ Goto(p, "terminate")
          /\ UNCHANGED <<firings, dur>>
       \/ /\ dur[proc[p].key] # "none"
          /\ CancelDurable(proc[p].key)
          /\ AbandonPrepared(p)
    /\ UNCHANGED <<sched, spec, leader, envVars, left, cp1>>

TerminateFiring(p) ==
    /\ At(p, "terminate")
    /\ fail_firing_after_compensated_submission(proc[p].key, proc[p].att)
    /\ Goto(p, "raise")
    /\ UNCHANGED <<sched, spec, leader, envVars, left, admissionVars>>

\* The error of a rejected admission reaches the caller's cleanup.
Raise(p) ==
    /\ At(p, "raise")
    /\ AbandonPrepared(p)
    /\ UNCHANGED <<sched, spec, leader, envVars, left, admissionVars>>

LinkSubmission(p) ==
    /\ At(p, "link")
    /\ LET k == proc[p].key
       IN  IF CanLink(k, p, proc[p].ptok, ~proc[p].guarded)
             THEN link_firing_submission(k) /\ Finish(p)
             ELSE AbandonRecovery(p)
    /\ UNCHANGED <<sched, spec, leader, envVars, left, admissionVars>>

(***************************************************************************)
(* The environment: time, lease deadlines, the end of the durable work,    *)
(* administration, draining, and crashes.  A crashed scheduler restarts    *)
(* under its owner id.                                                     *)
(***************************************************************************)
ClockTick ==
    /\ now < MaxTime
    /\ now' = now + 1
    /\ UNCHANGED <<storeVars, proc, draining, left, admissionVars>>

ExpireLeader ==
    /\ leader.live
    /\ leader.token < MaxLeader
    /\ leader' = [leader EXCEPT !.live = FALSE]
    /\ UNCHANGED <<sched, spec, firings, proc, envVars, left, admissionVars>>

AtWork(k) ==
    \E p \in Procs : proc[p].key = k /\ HoldsPreparation(k, p, proc[p].ptok)

\* A lease nobody works under runs out; one that its holder still works
\* under runs out a bounded number of times.
ExpirePreparation(k) ==
    /\ firings[k].live
    /\ IF AtWork(k) THEN Spend("expire") ELSE UNCHANGED left
    /\ firings' = [firings EXCEPT ![k].live = FALSE]
    /\ UNCHANGED <<sched, spec, leader, proc, envVars, admissionVars>>

WorkEnds(k) ==
    /\ k \in Running
    /\ dur' = [dur EXCEPT ![k] = "done"]
    /\ UNCHANGED <<storeVars, proc, envVars, left, cp1>>

Administer ==
    /\ Spend("admin")
    /\ \/ \E status \in {"active", "paused", "deleted"} : set_status(status)
       \/ /\ sched.rev < MaxRev
          /\ next_fire_after(spec, now, NoNominal) # Raises
          /\ amend(next_fire_after(spec, now, NoNominal), Running)
       \/ /\ sched.gen < MaxGen
          /\ \E o \in {"local", "external"} : transfer_timer_owner(o)
    /\ UNCHANGED <<proc, envVars, admissionVars>>

request_drain(p) ==
    /\ Spend("drain")
    /\ p \notin draining
    /\ draining' = draining \cup {p}
    /\ UNCHANGED <<storeVars, proc, now, admissionVars>>

Crash(p) ==
    /\ ~At(p, "idle") /\ ~At(p, "done")
    /\ Spend("crash")
    /\ proc' = [proc EXCEPT ![p] = IF p \in Schedulers
                                     THEN Idle ELSE [Idle EXCEPT !.pc = "done"]]
    /\ UNCHANGED <<storeVars, envVars, admissionVars>>

OccurrenceStep(p) ==
    \/ recover_scheduled_occurrence(p)
    \/ RepairBegin(p) \/ RepairAccept(p) \/ RepairVerify(p)
    \/ AcquirePreparation(p) \/ PrepareOccurrence(p)
    \/ BeginAdmission(p) \/ AcceptReceipt(p) \/ AcceptDurable(p)
    \/ CancelReceipt(p) \/ ConfirmAbsence(p) \/ TerminateFiring(p) \/ Raise(p)
    \/ LinkSubmission(p)

SchedulerStep(p) ==
    \/ tick(p) \/ ListUnlinked(p) \/ ReconcileOne(p) \/ DueSchedules(p)
    \/ ClaimEnds(p) \/ ClaimScheduled(p)
    \/ OccurrenceStep(p)

TriggerStep(g) == trigger(g) \/ trigger_external(g) \/ trigger_record(g) \/ OccurrenceStep(g)

Next ==
    \/ \E p \in Schedulers : SchedulerStep(p) \/ request_drain(p)
    \/ \E g \in Triggers : TriggerStep(g)
    \/ \E p \in Procs : Crash(p)
    \/ \E k \in DOMAIN firings : ExpirePreparation(k)
    \/ \E k \in Keys : WorkEnds(k)
    \/ ClockTick \/ ExpireLeader \/ Administer

Spec == Init /\ [][Next]_vars

-----------------------------------------------------------------------------
TypeOK ==
    /\ sched \in [status : {"active", "paused", "deleted"}, rev : 1 .. MaxRev,
                  owner : {"local", "external"}, gen : 1 .. MaxGen,
                  cursor : Nat \cup {NoFire}]
    /\ spec \in Specs
    /\ DOMAIN firings \subseteq Keys
    /\ firings \in [DOMAIN firings -> FiringType]
    /\ leader \in [owner : Owners \cup {NoOwner}, token : 0 .. MaxLeader, live : BOOLEAN]
    /\ now \in 0 .. MaxTime
    /\ proc \in [Procs -> Locals]
    /\ \A p \in Procs : proc[p].key \in DOMAIN firings \cup {NoKey}
    /\ cp1 \in [Keys -> {"none", "accepted", "cancelled"}]
    /\ dur \in [Keys -> {"none", "accepted", "cancelling", "done"}]
    /\ draining \subseteq Schedulers

\* An occurrence is reported as failed only when its command can no longer be
\* accepted: no live receipt exists for it, whatever attempts were still on
\* their way when it failed (begin_firing_submission, fail_firing_preparation,
\* fail_firing_after_compensated_submission).
FailedIsFenced ==
    \A k \in DOMAIN firings :
        firings[k].st = "failed_preparation" => cp1[k] # "accepted"

\* An accepted occurrence without a run stays within reach of the
\* reconciliation: its schedule is not deleted, amended or handed to another
\* timer under it (delete, amend, transfer_timer_owner against claim_firing).
UnlinkedIsCurrent ==
    \A k \in UnlinkedKeys :
        /\ sched.status # "deleted"
        /\ k[1] = sched.rev
        /\ firings[k].gen = sched.gen

\* With overlap = skip, at most one occurrence of the schedule is accepted
\* and not ended, across ticks, manual triggers, external triggers and
\* revisions (claim_firing, _has_inflight_firing).
OneInFlight ==
    spec.overlap = "skip" =>
        \A j, k \in DOMAIN firings :
            InFlight(j, Running) /\ InFlight(k, Running) => j = k

\* The instants a schedule promises, counted from one of them: the grid of an
\* interval, the matching minutes of a cron expression.
Promised(s, c) ==
    {t \in c .. MaxTime :
        /\ InWindow(s, t)
        /\ IF s.kind = "interval" THEN (t - c) % s.step = 0
                                  ELSE CronMatch(s, t - s.jitter)}

\* A schedule that does not skip missed occurrences never moves its cursor past
\* an instant it has not recorded a firing for (_fire_due, catch_up_nominals,
\* trigger_external).
NothingSkipped ==
    [][ LET c == sched.cursor
            d == sched'.cursor
        IN  (/\ sched'.rev = sched.rev
             /\ spec.misfire # "skip"
             /\ spec.misfire = "catch_up" => spec.catch_up_max > 0
             /\ c # NoFire
             /\ d = NoFire \/ d > c)
            => \A t \in Promised(spec, c) :
                  (d = NoFire \/ t < d) => <<sched.rev, t>> \in DOMAIN firings' ]_vars

\* A linked, skipped or failed occurrence never changes its outcome, whichever
\* late answer of a slower attempt arrives (link_firing_submission,
\* fail_firing_after_compensated_submission).
SettledIsFinal ==
    [][ \A k \in DOMAIN firings :
          ~Unlinked(k) => /\ firings'[k].st = firings[k].st
                          /\ firings'[k].linked = firings[k].linked ]_vars

(***************************************************************************)
(* Liveness.  Schedulers keep polling, the clock and the lease deadlines   *)
(* go on, and durable work ends.                                           *)
(***************************************************************************)
Fairness ==
    /\ \A p \in Schedulers : WF_vars(SchedulerStep(p))
    /\ WF_vars(ClockTick)
    /\ WF_vars(ExpireLeader)
    /\ WF_vars(\E k \in DOMAIN firings : ~AtWork(k) /\ ExpirePreparation(k))
    /\ WF_vars(\E k \in Keys : WorkEnds(k))

FairSpec == Spec /\ Fairness

\* Every accepted occurrence is eventually linked to its run or reported as
\* failed, through crashes and lost answers: again and again, none is left
\* between its claim and its run (_reconcile_unlinked_firings).
AcceptedSettles == []<>(UnlinkedKeys = {})

\* An active, locally timed schedule catches up with the clock: again and
\* again, no occurrence is due (tick, _fire_due, claim_firing).
RecurrenceContinues == []<>(~Due(now))
=============================================================================
