# A formal model of the ETLantic control plane

This directory models the durable execution core of ETLantic in TLA+: the
durable work store that accepts pipeline runs, the execution hosts (run workers)
that execute them at most once in the presence of crashes, stalls, cancellations
and lost reports, the quota provider, the admission of a command across quota,
receipt and durable store, the schedulers that turn the instants of a schedule
into admitted runs, the managed Prefect route that carries accepted work to
remote flow runs, and the action jobs that provision tables, clean them up and
prepare runs. TLC checks the models on small instances; TLAPS proves
the safety properties of the store, the hosts, the quota ledger, the admission, the
schedulers, the Prefect route and the action jobs for every value of their constants.

Source paths below are relative to the repository (`src/etlantic/...`);
`PROJECT.json` prefixes them with `src/`, names the lines every definition
translates, and lists hazards, findings, runs, mutants and theorems.

## 1. The system

ETLantic compiles declarative pipelines to *plans*. A control plane accepts runs
of a plan and workers execute them:

| Part | Source | State it keeps | Operations | Interaction |
|---|---|---|---|---|
| Durable work store | `control_plane/durable_memory.py` (the SQL provider replays the same code in one transaction) | submissions, outbox, leases with fencing tokens, attempts, effect receipts, mirrored results, checkpoints; routes and dispatches; action jobs; previews | one call = one critical section under the store lock | called by the service, hosts, dispatchers, operators |
| Execution host | `runtime/execution_host.py` | a thread per tick, a lease-monitor thread per run, retention retry queue | `tick`, drain | calls the store, the quota provider, the runner |
| Managed execution adapter | `runtime/managed_execution.py` | none of its own; report store, artifact workspace | `__call__` (one attempt), `publish_result_publication` | runs the orchestrator; mirrors failed report writes into the store |
| Quota provider | `control_plane/quota_memory.py` | usage, keyed admissions, claims, releases | admit, release, compensate | reserved at admission, released by hosts |
| Scheduler | `runtime/scheduler_service.py`, `control_plane/schedule_memory.py`, `control_plane/schedule_clock.py`, `service/schedule.py` | schedules with a cursor, firings with preparation leases and admission attempts, a leader lease | tick, reconcile, trigger, pause, amend, transfer | submits through the managed service |
| Route dispatcher | `packages/etlantic-prefect/.../dispatcher.py`, `worker.py` | dispatch records in the durable store | prepare, claim, link, release, re-arm | creates remote flow runs that call a worker |
| Route deployment | `packages/etlantic-prefect/.../deployment.py` | the route's lifecycle record in the durable store, the deployment at the server | retire, reactivate, cleanup | operators; moves store and server in separate calls |
| Action jobs | `control_plane/durable_memory.py`, `control_plane/action_jobs.py`, `runtime/action_execution_host.py`, `packages/etlantic-sql/.../action_handlers.py` | jobs with leases, deadlines and receipts of their own; the effect registry in the database | accept, claim, heartbeat, finish, cancel | a second host over the same store, with a thread per SQL action |
| Managed service | `service/managed.py`, `control_plane/memory.py`, `control_plane/input_resources.py` | receipts, input leases | submit, cancel, retry | admission in front of the store: quota, input lease, receipt, durable row, in this order |
| Governance | `registry_*`, `approval_*`, `attestation_*`, `audit_*`, `erasure_*`, `policy_*` | revisioned records, logs | compare-and-swap, append | single calls |
| One run | `runtime/orchestrator.py`, `runtime/physical_*` | nodes, permits, checkpoints of one plan | run, cancel | inside the adapter |
| Front end, engines, packages | `planning`, `authoring`, `sql`, `dataframe`, `packages/*` | none that outlives a call, or an external system | | |

What is hard here is the protocol between the store and its callers. A worker
can be paused past its lease, killed between any two calls, cut off from the
store, or told to cancel while it commits; a second worker takes over under a
higher fencing token; the report of a run may reach the report store, only the
store's mirror, or nobody; a provider may confirm a commit at any time.
`PROJECT.json` lists these hazards at their lines.

What makes each part correct:

* **store**: at most one running attempt, the newest; tokens name one grant;
  stale workers change nothing; cancellation and terminal states stick; effect
  receipts are not downgraded; delivered results are immutable; checkpoints move
  forward inside one submission; admission is bounded.
* **hosts and adapter**: ETL runs at most once per submission; what is recorded
  of its effect is true; a completed submission has a report; the quota
  reservation lives exactly as long as it must; everything accepted is
  eventually closed.
* **quota**: the counter of a scope is what its callers hold; a charged
  reservation has an owner; nothing is charged over budget or to a blocked
  scope; an idle competitor does not hold up the round robin.
* **admission**: overlapping, failing and recovering attempts of one command
  leave the three stores in agreement: accepted work is charged and has its
  inputs, a cancelled command neither runs nor stays charged.
* **scheduler**: no promised instant is skipped; with `overlap="skip"` one
  occurrence is in flight; an occurrence reported as failed can no longer be
  accepted; an unlinked one stays within reach of the reconciliation and is
  eventually linked or failed; the schedule keeps up with the clock.
* **dispatcher**: the linked flow run is of the current generation; a new
  generation is opened only while nothing executed the work; accepted work is
  executed, cancelled or handed to an operator.
* **route lifecycle**: a retired route is quiet in the store and at the server;
  only an unused route loses its deployment.
* **action jobs**: a receipt tells of something that was committed, and what was
  committed without a receipt can still get one; a table that was cleaned up
  stays away; nothing comes of a cancelled preparation; every job ends.

## 2. Modules

| Module | What it is |
|---|---|
| `FencedExecution` | abstract promise of the store: phases, a fence that only rises, at most one worker, which carries at most the current fence |
| `DurableWork` | the store, one action per operation |
| `MCDurableWork` | model values' symmetry for the store's runs |
| `DurableWorkProofs` | type correctness, the inductive invariant, and the theorems |
| `DurableWorkRefinement` | proof that `DurableWork` implements `FencedExecution` |
| `OnceExecution` | abstract promise of store and hosts together: ETL once, closed once, receipts that never lie |
| `ExecutionHost` | hosts, monitors, adapter, report store, quota and target over an INSTANCE of `DurableWork` |
| `MCExecutionHost` | owner identities for the hosts' runs |
| `ExecutionHostProofs` | the hosts' invariant, its theorems, and proof that `ExecutionHost` implements `OnceExecution` |
| `QuotaProvider` | the quota provider for one resource, one action per operation |
| `MCQuotaProvider` | scopes, order and weights for its runs |
| `QuotaProviderProofs` | theorems about the ledger |
| `ManagedAdmission` | `submit_run` of one command, call by call, over an INSTANCE of `QuotaProvider` |
| `MCManagedAdmission` | symmetry of the attempts |
| `ManagedAdmissionProofs` | theorems about the attempts of one command |
| `ScheduleClock` | `next_fire_after` and `catch_up_nominals` as operators over instants |
| `ScheduleStore` | the schedule store for one schedule, one operator per method |
| `SchedulerService` | schedulers, gateway triggers and administrators over `ScheduleStore`, with the guarded admission of an occurrence |
| `MCSchedulerService` | schedule specs for its runs |
| `SchedulerServiceProofs` | facts about the clock, and theorems about schedulers, triggers and administrators |
| `DispatchStore` | the part of the durable store a remote route uses: lifecycle of the route, dispatch record |
| `RouteDispatch` | dispatchers, flow runs, operators and the Prefect server over `DispatchStore` |
| `MCRouteDispatch` | symmetry of the operators |
| `RouteDispatchProofs` | theorems about the route |
| `ActionJobs` | the action jobs of the durable store, one operator per method |
| `ActionWorker` | action workers, the SQL handlers with their registry, and the preparation of a run, over `ActionJobs` |
| `MCActionWorker` | the actions of its runs |
| `ActionWorkerProofs` | theorems about the action jobs |

### DurableWork

Every public method of the store takes the lock for its whole body, so each is
one atomic action; a refused call (`ControlPlaneError`) changes nothing and is no
step. `Next` lets *any* owner call *any* operation with *any* token: nothing is
assumed of the callers. Correspondence:

| Variable | Code |
|---|---|
| `status[s]` | `SubmissionRecord.status`; `"absent"` before `accept` |
| `outbox[s]` | the submission's `OutboxRecord` (`published_at` set or not) |
| `lease[s]` | `LeaseRecord`; `left` is the time until `expires_at` in ticks, 0 = expired tombstone |
| `attempts[s]` | `AttemptRecord`s in start order, each with its mirrored `ResultPublicationRecord` (`report`, `delivered` = `published_at` set) |
| `effect[s]` | the authoritative `EffectRecord` `<submission>:execution` |
| `checkpoint[c]` | `CheckpointRecord` version and writer |

Abstracted: the scope key (one tenant and workspace), payloads, redaction,
timestamps other than lease expiry, idempotent replays (they write nothing), the
non-authoritative effect records. An expired lease is one whose `left` is 0;
`Elapse` may happen at any time, so expiry is fully asynchronous. Routes are
active and nothing is dispatched remotely; that part of the class is
`DispatchStore`.

### ExecutionHost

A host is a record with a program counter; each call it makes to the store, the
quota provider or the report store is one action, so that anything can happen
between two calls. The store is an `INSTANCE` of `DurableWork` and its actions
are used as they are. The tick reads: `BeginTick` (expired cancellations),
`ScanTerminal`/`CleanupQuota`/`CleanupAck` (terminal work), `ScanResults`/
`PublishResult`/`MarkResult` (mirrored reports), `ScanPending`, and for every
item `Acquire`, `ListAttempts`, `StartAttempt`, the run, `Conclude` and the
closing calls, whose order `ClosingSteps` gives per kind of outcome. Beside the
run the monitor thread takes `Heartbeat`, `MonitorSeesCancel` or
`MonitorLosesLease`. A refused call raises out of the tick (`TickRaises`) exactly
where the code lets it.

The adapter: a stored or mirrored report is the outcome (`RecoverReport`); an
earlier attempt without report refuses (`RefuseRerun`); otherwise the ETL begins
(`BeginEtl`), may commit its target (`CommitTarget`) and ends with a report or an
exception. A report store that fails makes the adapter mirror the report in the
durable store under the attempt's fence.

Assumed of the environment, because it is other code: a report tells the truth
about the target (`Truthful`: committed only if it did, none only if it did not,
cancelled only when told to) and a provider confirms only commits that happened.

Not modelled of the host: draining, the `cancel_check` hook, `execute_submission`
(a tick restricted to one item), the artifact-retention pass.

### QuotaProvider

The provider holds one lock per call, so each operation is an action. `usage` is
`QuotaState.usage` of the one resource, `blocked` its `suspended` and `contained`
flags, `cursor` is `_rr_cursor`. The dictionaries `_admissions`, `_releases` and
`_claims` are keyed by generated reservation keys; `reservations[s][k]` lists the
reservations of admission key `k` in the order they were generated, each with its
units, the claims on it (`NoClaim` is the empty claim of a caller without
`claim_id`) and whether its release was recorded. Calls that are answered from
these records, or refused, write nothing and are no steps; a request deferred by
the round robin is one, because it moves the cursor (`Defer`).

Assumed: callers release the units they were admitted for. A release without a
key is tied to no admission, and `unkeyed` counts what such callers still hold.

### ManagedAdmission

`submit_run` calls three stores, each durable on its own, and an input store.
Every call is an action of the attempt `a`, whose program counter and locals are
`call[a]`:

| Phase | Actions |
|---|---|
| what earlier attempts left | `LookupReceipt`, `LookupDurable`, `Rebind` |
| a new command | `Gate` (policy and quota), `ProtectInputs`, `AcceptanceGuard`, `AcceptReceipt`, `AcceptRow` |
| a lost or refused acknowledgement | `ReconcileReceipt`, `ReconcileRow` |
| compensation | `CancelReceipt`, `LookAgain`, `CancelDurable`, `ReleaseInputs`, `AbandonClaim` |
| a receipt without a row | `CheckReceipt`, `Readmit`, `RecheckReceipt`, `RestoreRow`, `LastCheck`, `UndoRow` |

`cp1` is the receipt, `cp3` the durable row (`via` records how it came about and
is read by one property only), `leased` the input lease. The worker of the row
is two steps, the second of which releases the reservation, and a client may
cancel the run, the durable store first. Every call may be lost before or after
its effect (`Fault`), and every attempt may crash. The intent is the same in all
attempts: what makes their envelopes differ, and the stores refuse one of them,
is the reservation they name. Any store may refuse a command for reasons of its
own (route, admission limit, guard of a preparation or schedule).

### ScheduleClock, ScheduleStore and SchedulerService

`ScheduleClock` keeps the arithmetic of `schedule_clock.py` over natural-number
instants: the grid of an interval, a cron expression as the set of minutes it
matches with its jitter, the window, and the catch-up list with its maximum.
Parsing and time zones are left out.

`ScheduleStore` is `schedule_memory.py` for one schedule. `sched` is the
`ScheduleRecord` (status, revision, timer owner and generation, cursor
`next_fire_at`), `firings` maps `<<revision, nominal>>` to the `FiringRecord`
(status, linked or not, preparation lease and token, the ids of the admission
attempts under way, timer generation), `leader` the leader lease. Each method is
a guard `Can...` and an operator named like the method.

In `SchedulerService` every call of a tick that reads what a later call relies
on, or writes a store, is an action of the process `p`, whose control state and
locals are `proc[p]`:

| Phase | Actions |
|---|---|
| tick | `tick` (leader lease), `ListUnlinked`, `ReconcileOne`, `DueSchedules`, `ClaimScheduled` |
| an occurrence | `recover_scheduled_occurrence`, `AcquirePreparation`, `PrepareOccurrence`, then again `recover_scheduled_occurrence` inside the submission, `BeginAdmission`, `AcceptReceipt`, `AcceptDurable`, and the link |
| repair of a receipt without a row | the repair path of `submit_run`, with its guard and its last check of the receipt |
| a refused row | `CancelReceipt`, `ConfirmAbsence`, and the store call that ends the attempt |
| gateway | `trigger` and `trigger_external`, which share the path of an occurrence |
| administrators | `Administer`: pause, resume, delete, amend, transfer |

`cp1` and `dur` are the receipt and the durable row of an occurrence's
idempotency key. A fault is a crash, an answer lost before or after its effect
(`uncertain`), a refusal by a store (`reject`), a preparation lease that runs
out under a working process (`expire`), an intervention (`admin`) or a drain.
Merged into one step: the list and the claim of a manual trigger, which hold
nothing between them that another call could change. Left out: schedulers
without a run submitter, payload checks, route references of a schedule (they
are `held` in `DispatchStore`).

### DispatchStore and RouteDispatch

`DispatchStore` has one route and one submission on it. `route` is the
`ExecutionRouteRecord` (status, revision), `held` whether a schedule refers to
it, `sub`, `outbox`, `lease`, `attempt` the durable work, and `dispatch` the
`DispatchRecord`: status, generation (it stands for the creation key), lease
owner and token, the linked run. Deadlines are Booleans (`live`, `waiting`,
`aged`).

`RouteDispatch` adds the processes. A dispatcher takes `tick`, `ObserveRun`,
`Rearm`, `Scan`, `Prepare`, `Claim`, `CheckSubmission`, `Create`, `Link`,
`Release`, and for a cancelled submission with an uncertain create `Resolve`,
`LinkResolved`, `StopRun`, `FinalizeCancel`. A flow run is started by the server
and its worker verifies the deployment, checks the dispatch intent, takes the
execution lease, starts and ends. Operators retire, reactivate and clean up,
each as a sequence of store and server calls that carries the revision it read.

`RetiredIsQuiet` looks at the route from the store: once retired, there is no
open work, running attempt, execution lease or schedule, the run that was linked
has ended, and no dispatcher holds a claim. It says nothing of a run created
after the operator's last look at the server by a dispatcher whose claim ran out
while its create was on its way: two dispatchers are enough for that, and
`retire` promises more ("drain canonical and remote work", `deployment.py:560`;
`packages/etlantic-prefect/README.md:232-238`). The store closes the work all the
same, so what such a run can still get is a refusal: no submission is open and no
execution lease is granted.

The server is external: it keeps one flow run per idempotency key it still
knows, and may lose an answer; a deleted run is not known any more. Left out of
`Drained`: unresolved effects and pending publications, which `DurableWork` and
`ExecutionHost` cover. Merged: the reads that make up one lifecycle snapshot,
and an operator's first look at remote runs with the pause that follows it (the
look only spares the pause).

### ActionJobs and ActionWorker

`job[j]` is the `ActionJobRecord` of one idempotency key: status, phase, fencing
token, worker and whether its lease is live, whether a result is stored, the
error code, and the number of its deadline, because asking again with the same
key may renew a deadline while the thread of the old one still runs. `passed[j]`
are the deadlines that have passed. The claim takes any claimable job, where the
code takes the oldest.

A worker is the event loop `host[w]` and the thread `op[w]` of its handler:

| Phase | Actions |
|---|---|
| tick | `Claim` (with the sweep of every claim), `ClearExpired`, `CheckJob`, `StartHandler`, `SlotTimeout` |
| event loop beside the handler | `DeadlineHits`, `SeesCancel`, `HeartbeatFails`, `Unwind`, `HandlerReturns`, `Finish`, `RetainLate` |
| thread of a SQL action | `OpStart`, `Execute`, `Recheck`, `Commit`, `Reconcile`, `OpRetains` |
| thread of a preparation | `PrepareStart`, `BeginAcceptance`, `AcceptRun` |

A SQL action that was cancelled is left behind: its thread finishes or rolls back
beside the worker's next jobs and reports a commit through the fence of its own
job (`Retain`). A preparation is told to stop and waited for. The database is
external: `registry` is the row of the table in the effect registry, `txn` the
worker whose transaction is open, and a commit may lose its acknowledgement or be
interrupted. `AcceptRun` is the whole admission (`ManagedAdmission` has its
steps), which finds a run accepted before under the same key. A heartbeat that
succeeds only keeps the lease, so it is no step.

`scenario.covers` says whether leases outlast the deadlines, as
`validate_managed_backend_settings` requires (`control_plane/managed_config.py:107`).
`CleanedIsGone` needs that rule: with shorter leases a stalled worker's thread can
create the table again within its deadline after its successor provisioned it and
another worker cleaned it up. The database keeps one registry row, of one table;
`CleanedIsGone` and `ReceiptsAreTrue` allow for several provisions of it, of which
a cleanup removes the one it names and a later one may create the table anew.

Left out: draining, invalid requests and receipts, handlers that are not
installed, and the read-only actions, which the preview stands for.

## 3. Runs

| Run | Instance | Shows |
|---|---|---|
| `store_fencing` | 1 submission, 2 owners, 3 tokens, 1 report, 1 checkpoint with 2 versions, TTL 1 | fenced attempts, consistent resolution and receipts, inert superseded attempts, checkpoints that move forward, refinement to `FencedExecution` |
| `host_faults` | 2 hosts with distinct identities, 1 submission, 3 tokens, 2 faults of any kind | safety of hosts and store together, refinement to `OnceExecution` |
| `host_liveness` | the same with lasting-outage kinds left out | resolution, cancellation and result delivery under fairness |
| `quota_ledger` | 2 scopes with weights 2 and 1, 1 admission key each, 2 reservations per key, a claimant and callers without a claim, 1 or 2 units, limit 3 | the ledger: conservation, owners, budget; an idle competitor starves nobody |
| `admission_faults` | 3 attempts, up to 2 faults of any kind, 3 reservations | accepted work stays charged, row and receipt agree, recovery is fenced |
| `scheduler_firings` | 1 scheduler, 1 gateway trigger, administrators, 2 instants, 2 revisions, 2 timer generations, 2 faults or interventions | failed is fenced, unlinked stays current, one in flight, settled is final |
| `scheduler_liveness` | 2 schedulers competing for the leader lease, 2 instants, 1 fault | nothing is skipped; accepted occurrences settle; the schedule keeps up |
| `scheduler_recurrence` | 1 scheduler, 1 trigger, no faults | **violated**: the schedule keeps up with the clock, finding 1 |
| `dispatch_faults` | 2 dispatchers, 2 generations, 3 flow runs, 5 claims, 2 faults of any kind | linked runs are current, re-armed work is unexecuted, accepted work is delivered |
| `route_lifecycle` | 2 operators, 1 dispatcher, 1 flow run, 5 transitions, a schedule, 1 crash or deleted run | retired is quiet, deleted is unused |
| `action_faults` | 2 workers; a provision with its cleanup under managed leases, or a preparation, or a preview under any lease; 2 deadlines, 1 fault of any kind | true and recoverable receipts, cleaned tables, cancelled preparations, every job ends |
| `dispatch_cancelled` | 1 dispatcher, one lost answer | **violated**: cancelled work is resolved, finding 2 |

Further configurations state what a document or a comment says and are violated
by the code; section 5 describes what TLC finds with them:
`DurableWorkOwnFence` (module `MCDurableWork`), `ExecutionHostRenewal` and
`ExecutionHostReceipt` (`MCExecutionHost`), `ManagedAdmissionCompensatedNeverRuns`,
`ManagedAdmissionCompensatedIsFree` and `ManagedAdmissionInputs`
(`MCManagedAdmission`), `SchedulerSettles` (`MCSchedulerService`),
`ActionReceipt` (`MCActionWorker`).

Two more hold: `DurableWorkCheckpoints` (`MCDurableWork`) checks the admission
limit, and checkpoints shared by two submissions; `ActionAnyLease`
(`MCActionWorker`) repeats the safety part of `action_faults` for every action
under leases of any length. `TypeOK` of a module can be added to any of its
configurations; the runs mostly leave it out, because it is proved of the store,
the hosts, the schedulers, the route and the action jobs.

Bounds. `MaxToken` caps the grants per submission: three give an original
worker, a successor and a successor's successor, so a stale worker can be two
fences behind. `MaxVersion` caps checkpoint versions. `MaxFaults` caps faults in
one behaviour; two reach each pair (a crash during the recovery from a crash, an
outage of the report store during a takeover, ...). In the host runs one
submission is enough for the protocol, which never relates two submissions
except through the page of a tick; the page only orders the work. Lease life is
1 in the store runs because `Elapse` is free to come or stay away.

`MaxReservations` caps the reservations made for an admission key: two let a
release of the first one be late, three give each attempt one of its own. Three
attempts are a creator that compensates, a replay of its receipt and a recovery.
The round robin only compares positions in a ring, which two scopes make uneven
by their weights. The attempts of `ManagedAdmission` end, and so do the clock
(`MaxTime`), the triggers and a drained scheduler, so `admission_faults` and
`scheduler_firings` do not check for deadlock; all others do. `MaxDeadlines = 2`
lets an action be taken up once more while the thread of its first deadline is
still at work.

Two instants of the clock give an occurrence in flight and the one that comes
due meanwhile, which is all that overlap, catch-up and the cursor relate; two
revisions and timer generations let an occurrence be of an older one. Two leader
tokens give a leader and its successor. Two generations are a first dispatch and
a re-armed one, after which the store asks for an operator (`MaxGenerations` is
`_MAX_DISPATCH_GENERATIONS`); three flow runs and five claims let each be created
again after a deleted run or a lost answer. `MaxRev = 5` is a full round of
draining, retired, active, draining and retired, with two operators in between;
the other bounds of `route_lifecycle` are small because the property relates the
operators to one dispatch, not two dispatchers to each other. A behaviour that
uses up a bound goes on without the bounded action: in the liveness runs the
bounds are above what the faults can use up, so the properties are not decided
by them.

Fairness of the hosts (`FairSpec` of `ExecutionHost`): each host that is up keeps
taking its next step (`WF` of `HostNext`: the polling loop and runs that end),
and a lease nobody works under runs out (`WF` of `Elapse /\ ~Attended`: wall-clock time). Clients,
providers, monitors and faults are never obliged to act. A lease under a working
holder runs out only by a counted `stall` fault: the monitor renews it three
times per TTL.
Fairness of the schedulers: each keeps polling (`WF` of `SchedulerStep`), the
clock and the leader lease go on, a preparation lease nobody works under runs
out, durable work ends. Triggers and administrators are never obliged to act.
Fairness of the route: dispatchers keep polling, the server starts what it was
given and notices dead processes, dispatch and execution leases nobody works
under run out, backoff and grace periods pass, hosts sweep cancelled work. Clients,
operators and faults are never obliged to act.
Fairness of the action workers: each keeps ticking and its handler threads run,
deadlines pass, and the lease of a worker that is gone runs out. Clients never
have to ask again, and heartbeats never have to fail.
`IdleOwnerStarvesNobody` carries its fairness as a hypothesis: the scope it speaks
of keeps asking, which is what being starved means.

## 4. Proofs

Every theorem is for arbitrary sets of submissions, hosts, jobs, dispatchers,
schedulers, attempts and so on, and for any bounds and numbers of faults. The assumptions
are those the modules state about their constants, which are typings and "no"
values outside their sets (`StoreAssumption`, `HostAssumption`,
`QuotaAssumption`, `AdmissionAssumption`, `BoundAssumption`, `DispatchAssumption`, `JobAssumption`,
`WorkerAssumption`, `ProcessAssumption`, `ScheduleAssumption`), and `KeysAreFinite`
for the sums of the quota ledger: the reservations are a dictionary, so at any time
finitely many keys have one. TLC checked the inductive invariants on small
instances first.

The induction theorems of the library take an operator as a parameter, which no
installed prover can instantiate. Where a proof needs an induction over data (the
minutes a cron search tries, the occurrences of a catch-up pass, the keys of a sum),
it takes a minimal counterexample of a well-founded order instead
(`LeastIsMember`, `WalkIsDefined`, `UpTo`, `SubsetInduction`).

### The store (`DurableWorkProofs`, `DurableWorkRefinement`)

    Inv == TypeOK /\ AttemptsAreFenced /\ ResolvedTogether /\ CompletionAgrees
           /\ Unstarted /\ Granted

`AttemptsAreFenced` alone is not inductive: `StartAttempt` needs that the lease's
token exceeds those of running attempts, and that an attempt which is not the
newest has stopped. `ResolvedTogether` needs the fencing to know that finishing
one attempt leaves none running. `Unstarted` (a submission never accepted has no
attempt) and `Granted` (a token above zero has been granted to an owner) carry
the initial states through. The step proof splits the actions into *quiet* ones,
which move no field the invariant reads for `s` (lemmas `UnmovedKeepsInv`,
`QuietSteps`), and four that do: start, finish, retirement by the sweep, and
lease updates. `CancelSticks`, `CommittedIsFinal` follow from the same case
split; `AbandonedRunHasReceipt` uses `Inv` and that receipts never disappear.
`SupersededIsInert` comes from the ways a history can move (`HistoryMoves`):
whoever writes to an attempt presents the newest token, and only the newest
attempt has it (`OlderAttemptsStay`). `CheckpointMovesForward` adds to the
invariant that a checkpoint's writer is an attempt in the history
(`WrittenByAttempt`), and `AdmissionRespected` that an accept adds one element to
a finite set below its limit.

`StoreIsFenced` proves `Spec => ImplementsFencing`: initial states map to initial
states and each action to an abstract action or a stutter, per submission
(`WorkerStays`, `OneViewMoves`).

### The hosts (`ExecutionHostProofs`)

    IInv == SP!Inv /\ HostTypes /\ (\A s : SubmissionOK(s)) /\ (\A h : HostOK(h))
            /\ OneEach

`SP` is `DurableWorkProofs` over the hosts' store: what the store promises is
cited and not proved again. `SubmissionOK` says what holds of a submission
whoever works on it: the ETL ran at most once and left an attempt behind, every
stored or mirrored report is true of a run that is over, the receipt is true, a
terminal submission has a receipt that covers what was or may still be written
(`Settled`), unstarted work is charged, and acknowledged work is not. `HostOK`
says what a host knows at each program counter.

The heart is that the *first* attempt is alone. A host may begin the ETL only if
it found no earlier attempt, and then its own is attempt 1 (`AttemptOK`:
recovered exactly when its number is not 1); the fence of the store lets at most
one host start attempt 1, and `OneEach` keeps two hosts from sharing an attempt.
So of two hosts that reach the adapter, one refuses the rerun. This holds even
between hosts that share an `owner_id`, which the assumption allows.
`QuotaCoversRun` needs more: a rival that would release the reservation under a
live run must have closed the submission or hold the lease itself, and both
contradict the live lease (`RivalLost`, `Covered`). The step proof has one lemma
per action; the actions of the store are handled once per shape (an attempt is
appended, an attempt changes, only a lease or the outbox changes).

`HostsExecuteOnce` proves `Spec => ImplementsOnce`: `OnceExecution` sees the target
and the closing (`Seen`), and every step that touches neither is a stutter
(`UnseenStutters`). TLC checked `IInv` on instances with distinct owner
identities (1.3 million states) and with a shared one (0.9 million).

### The quota ledger (`QuotaProviderProofs`)

`LedgerInv == LedgerTypeOK /\ ChargedIsOwned /\ WithinLimit` is inductive, and
the action property `BlockedIsNotCharged` follows from the same step lemmas. A
step changes at most one reservation of
one key, and either it is the newest one and keeps an owner, or it is released
with none (`ChangeOwned`, `AppendOwned`); `Abandon` needs `ChargedIsOwned` itself
to know that a reservation with claims is the newest.

`UsageIsHeld` (`LedgerBalances`) compares a counter with a sum over the keys. The
sum is a fold over a function; the proof replaces it by a tally of subsets of the
keys, which it shows to exist, to be the fold, and to satisfy the one equation that
matters: adding a key adds its units (`TallyIsDefined`, `SumIsTally`,
`TallyOfSubset`). Then a step that changes the units of one key changes the sum by
the difference (`SumChanged`), and each operation moves the counter by just that
(`ReserveBalances`, `ReleaseBalances`, `ClaimsBalance`, `UnkeyedBalances`). It needs
`LedgerInv`: a release takes the units of the *newest* reservation of its key from
the counter, and only `ChargedIsOwned` says that no older one is still charged.

`LedgerTypeOK` is `TypeOK` without `cursor \in Nat`. The round-robin ring the
cursor points into is built with `SelectSeq`, for which the prover has no
definition, so nothing can be proved of its length; TLC checks that conjunct.

### Admission (`ManagedAdmissionProofs`)

    ChargeInv == TypeOK /\ Quota!Owned(Reservations) /\ ReceiptNames
                 /\ RowMatchesReceipt /\ CallsHold /\ RowIsClaimed

`AcceptedIsCharged` is not inductive: what a compensation may release depends on
who else claims the reservation. `CallsHold` says that a call between its admission
and its end has a claim on the reservation it names, and that it reaches the
durable store only when the receipt names that reservation too; so the call that
makes the row has a claim at that moment. `RowIsClaimed` says that it keeps it: from
there every path of the code ends without `AbandonClaim`, also the one whose answer
was lost, because `ReconcileRow` then finds the row. A reservation with a claim is
charged (`Quota!Owned`, proved again here from the step of each quota operation,
`AdmitStep`, `AbandonStep`, `ReleaseStep`).

    FenceInv == (\A a : CallOrigin(a)) /\ OneCreator /\ ReceiptCancelled
                /\ UserCancelledRow /\ CreatedRow /\ RecoveredRow /\ (a row has an origin)

`RecoveredIsFenced` is about the end of all attempts; `FenceInv` says how it gets
there. A receipt is cancelled by the user, who cancels the row first, or by its one
creator, which made no row (`ReceiptCancelled`, `OneCreator`). As long as a restored
row is open under a cancelled receipt, some call is at its last check, its undo or
its second look (`RecoveredRow`), whichever of the receipt's cancellation and the
row's acceptance came first. The row of a call that was given an *existing* receipt
has no such watcher, which is finding 6, and why the property excludes it. Both
invariants were checked by TLC on the instance of `admission_faults` first. The
step proof has one lemma per shape of step (a call moves and the stores stay, a
receipt is put, a row is put or cancelled, the environment moves) and a short one
per action.

### Schedulers (`SchedulerServiceProofs`)

    Inv == TypeOK /\ (\A p : Knows(proc[p])) /\ OwnAttempts
           /\ (\A k \in DOMAIN firings : FiringOK(k)) /\ ReceiptsAreClaimed
           /\ UnlinkedIsCurrent /\ OneInFlight

`FailedIsFenced` is a statement about two stores, and neither knows of the other.
What ties them is the number of an admission attempt: `begin_firing_submission`
puts a fresh one on the firing before the process writes a receipt, numbers are
never used twice (`OwnAttempts`), and only the process that opened an attempt
takes it back, after a refusal without a receipt or after cancelling the receipt.
So a live receipt leaves a number on the firing, and a firing with a number does
not fail (`FiringOK`). A link needs durable work (`linked => dur # "none"`),
which is why an ended occurrence never gets back in flight and `OneInFlight`
survives every step but the claim, whose own test covers it. The step proof has
one lemma for a process that moves on one occurrence (`OneMoves`, with `OnlyOn`
and `Advances` for what the step may do to it), one lemma per store call that
meets those two, and then a short one per action. `SettledIsFinal` is proved of
every call that rewrites a firing (`OutcomesStay`).

Type correctness needs the clock: `next_fire_after` returns an instant, `NoFire`
or `Raises` (`NextIsInstant`, with the minimum of a finite set of minutes shown to
be one of its members), and a catch-up pass lists instants that have passed. The
pass is a recursive function; that it exists, and that a bound on its arguments
carries over to each step, is shown with the well-founded order on its indices
(`WalkIsDefined`, `CatchUpInstants`).

What the clock computes is specified and proved apart from the state. From an
occurrence, `next_fire_after` returns the least later instant on the same grid, and
none only if the window has none (`NextOnSchedule`); a catch-up pass returns the
missed instants, all of them or the first `catch_up_max` (`CatchUpIsComplete`).

`NothingSkipped` (`OccurrencesNotSkipped`) rests on the first. The cursor is in
several hands at once: the record holds one, and so does every process that read
the record and has yet to write. A tick or a trigger writes the cursor it computed
some time after it read the record: its claim compares the revision, a tick's also
the cursor, a manual trigger's not even that. The invariant is about all of these
cursors together:

    CursorInv: NoGaps(spec, claimed keys, revision, Cursors) /\ every process: InHand

`Cursors` is the record's cursor and every cursor read under the current revision;
`NoGaps` says that they lie on the schedule, and that between any two of them every
promised instant has a firing. `InHand` says that the nominal times a process still
has to claim follow one another and start at a cursor it holds. Hence whichever
cursor is written next, forwards or backwards, passes nothing (`StepPassesNothing`).
A claim adds the next occurrence to the cursors, after the firing for the one before
it (`NoGapsAhead`); a new revision, which only an administrator makes, drops the
cursors of the old one.

The hypothesis `LittleJitter` says that occurrences stay apart: an interval has no
jitter, a cron expression less than a minute of it. Without it the statement is not
about occurrences of the schedule any more: the jitter of an interval is added to
the occurrence it is then counted from, so that each one moves the grid, and a cron
jitter of a minute or more makes the search start behind minutes that match. The
code accepts any `jitter_seconds` that is not negative (`schedule_models.py:200`).
`scheduler_liveness` checks the property for two schedulers without jitter, triggers
or amendments; the theorem adds manual and external triggers, amendments, cron
expressions and small jitter.

### The route (`RouteDispatchProofs`)

The invariant follows a claim from its token: no dispatcher is ahead of the
record's token, one that holds the record's lease knows its generation
(`ClaimInv`), and the run it is about to link was created for that generation
(`TargetInv`), so a link is of the current one (`LinkCurrency`). A re-arm needs a
dispatch that nobody executes: a worker that runs has started the attempt
(`ExecutionInv`). For the lifecycle, an operator works on what it read some
calls ago; its revision makes that safe: as long as the route still has that
revision, work it saw drained is drained and the linked run it saw ended has
ended (`OperatorInv`, `RouteInv`), because every transition takes a new revision
and everything that adds work requires an active route.

### Action jobs (`ActionWorkerProofs`)

The invariant says what a worker and a thread left behind know of a job: outside
its fence and deadline a SQL action is past its deadline (`Fenced`), the thread
of a claim is unique (`OwnThreadOver`), the transaction belongs to the one thread
between its statements and its commit (`TxnInv`), and what a receipt in any
record, host or thread reports is so (`Receipted`). For a cleanup this includes
that nobody is about to create the table again (`Gone`), which is where leases
that outlast the deadlines are used (`LeaseInv`); the other theorems hold for
leases of any length. `EffectsAreRecoverable` proves that a committed effect
without a receipt can still get one.

### What is only model-checked

`CompletionAgrees`, `CancelSticks`, `CommittedIsFinal` and `BlockedIsNotCharged`
are stated by theorems and by no run: the theorems cover every instance.
`AdmissionRespected` is checked by `DurableWorkCheckpoints` and proved by
`AdmissionLimited`.

Every safety and every action property of a passing run is stated by a theorem.
With TLC alone stay the liveness properties (`AcceptedIsResolved`,
`CancelTakesEffect`, `MirroredIsDelivered`, `IdleOwnerStarvesNobody`,
`AcceptedEnds`, `AcceptedSettles`, `RecurrenceContinues`, `AcceptedIsDelivered`),
since fairness rests on `ENABLED`, which the prover cannot expand, and the type of
the quota provider's `cursor`. The documented promises that findings 3 to 10 refute
are of course not proved.

## 5. Findings

Found by a run of `PROJECT.json`:

1. **A manual trigger can stop a schedule** (`scheduler_recurrence`). A trigger
   that names the instant due next stores its firing and leaves the cursor on it.
   `claim_firing` finds that firing at each later tick and returns before it
   advances the cursor (`schedule_memory.py:480`), so the schedule never fires
   again.
2. **A cancelled uncertain create is forgotten** (`dispatch_cancelled`). The sweep
   spares a cancelled submission while its dispatch is `uncertain`, but a
   dispatcher that resolves it holds it as `leased`. A sweep in that moment closes
   submission and outbox; if the dispatcher finds no run yet, the record goes back
   to `uncertain` where no scan lists it, and the route can never be retired.

Found by the further configurations:

3. **The fence of a terminal write** (`DurableWorkOwnFence`). `finish_attempt`
   compares the caller's token with the lease, not with the attempt it
   finishes; `docs/06_EXECUTION/DURABLE_WORK.md:38` says the attempt must hold
   the current lease and token. The host always presents the pair of its own
   attempt, so `ExecutionHost` is not affected; other clients are.
4. **Renewal without recovery** (`ExecutionHostRenewal`). After a short outage, or
   a restart with the same `owner_id`, the host renews its own live lease with the
   same token on each tick and `start_attempt` refuses each time, so the lease
   never runs out and the work is never recovered
   (`docs/06_EXECUTION/DURABLE_REPORTS.md:77`: "Workers that lose their lease leave
   the outbox available for recovery.").
5. **A stronger receipt blocks closing** (`ExecutionHostReceipt`).
   `_record_report_effect` lets a 409 leave the tick where
   `_record_unknown_effect` tolerates it (`execution_host.py:965`: "Preserve that
   stronger receipt").
6. **A compensated command runs** (`ManagedAdmissionCompensatedNeverRuns`).
   Recovery checks the receipt after the row is accepted; an attempt that was
   given an existing receipt does not, and nobody cancels its row
   (`service/managed.py:4990`: "this closes either ordering").
7. **A compensated command stays charged** (`ManagedAdmissionCompensatedIsFree`).
   Only the creator of a receipt abandons its claim when the durable store refuses
   (`docs/11_DEVELOPMENT/MIGRATION_0_55_TO_0_56.md:44`).
8. **Accepted work loses its inputs** (`ManagedAdmissionInputs`). All attempts of a
   command share one input lease, and a refused attempt releases it. The
   lifecycle commands compare the lease identities first
   (`docs/11_DEVELOPMENT/IMPLEMENTATION_PLAN_0_56.md:353`: "Leases protect
   accepted/retry/replay inputs from retention").
9. **An occurrence that never settles** (`SchedulerSettles`). The outcome of one
   admission attempt stays unknown, so its id stays on the firing; the next attempt
   is refused and compensated, which leaves the firing to the first one
   (`schedule_memory.py:779`) although the receipt is now cancelled. Each
   reconciliation raises on that receipt: the occurrence is neither linked nor
   failed, blocks later ones under `overlap="skip"`, and the schedule cannot be
   deleted (`docs/11_DEVELOPMENT/IMPLEMENTATION_PLAN_0_57.md:174`: "Restart recovers
   unlinked accepted firings without blind replay").

10. **A preparation loses the receipt of its run** (`ActionReceipt`). The deadline
   passes while the run is being accepted, and another worker's claim closes the
   job. The next heartbeat is refused and ends the preparation handler
   (`action_execution_host.py:659`), the receipt is dropped, and the job stays
   `timed_out` without one although `finish_action_job` would still take it
   (`action_execution_host.py:676`: "Return its receipt even when it completed
   after the deadline"). The other handlers go on waiting in that case.

Seen while reading, and not reached by a run: computing the instant after the
last one of a cron window raises `ValueError` before that last instant is claimed
(`schedule_clock.py:186`); an operator who reactivates while another retires may
leave the route active with a paused deployment, which the next reactivation
repairs (`deployment.py:723`); the jitter of an interval is added to the occurrence
the next one is counted from, so the period is `interval_seconds + jitter_seconds`
(`schedule_clock.py`, `next_fire_after`).

Two competitors that ask in turn under shared pressure may defer each other for
ever, because each miss moves the cursor to the one just deferred. No document
promises otherwise, so this is not counted as a finding.

## 6. Plan

1. done: `DurableWork`, `ExecutionHost`, `QuotaProvider`, `ManagedAdmission`, the
   abstract specifications of the first two and their refinement; `ScheduleClock`,
   `ScheduleStore`, `SchedulerService`, `DispatchStore`, `RouteDispatch`,
   `ActionJobs`, `ActionWorker`; their runs; and their safety as theorems.
2. `LandingCheckpoint`; the page bounds of a host's tick; the
   lifecycle commands of the managed service.

## 7. Not modelled

* **Landing checkpoints**: a protocol of their own that could be modelled like the
  store's; see the plan.
* **Orchestrator and physical execution**: run inside one attempt. The hosts' model
  keeps what leaves the attempt (a target committed or not, a truthful report).
* **Planning, authoring, inference, contracts**: compilation without state that
  outlives a call; the data *is* the behaviour there, and an abstraction that TLC
  can enumerate would leave nothing to check.
* **Engines, connectors, provider packages other than Prefect, HTTP, CLI**: I/O
  against external systems or thin calls of the modelled operations.
* **Registry, approval, attestation, audit, erasure, policy**: revisioned records
  and logs written in single compare-and-swap calls; hash chains are beyond a
  finite model.
