---------------------------- MODULE ActionWorker ----------------------------
(***************************************************************************)
(* Action workers over ActionJobs                                          *)
(* (src/src/etlantic/runtime/action_execution_host.py), with the built-in  *)
(* SQL handlers that create and drop a table under an effect registry      *)
(* (packages/etlantic-sql action_handlers.py) and the handler that         *)
(* prepares and submits a run (execute_run_preparation in                  *)
(* src/src/etlantic/service/managed.py).                                   *)
(*                                                                         *)
(* A worker is a process with an event loop, host[w], which claims a job   *)
(* and watches over its handler, and a thread, op[w], in which the handler *)
(* works.  A cancelled SQL handler is not waited for: its thread goes on   *)
(* beside the worker's next jobs and reports what it committed through the *)
(* fence of its own job.                                                   *)
(*                                                                         *)
(* The database is external: a transaction that has changed the registry   *)
(* keeps others from it until it ends.                                     *)
(***************************************************************************)
EXTENDS ActionJobs

CONSTANTS NoJob,
          Scenarios,       \* the jobs a client may ask for in one behaviour, and
                           \* whether the workers' leases outlast any deadline, as
                           \* the managed configuration requires
          Faults,          \* the kinds of faults that happen
          MaxFaults,       \* bound: how many of them happen
          MaxDeadlines     \* bound: how often a job is given a deadline

ASSUME WorkerAssumption ==
    /\ Scenarios \subseteq [jobs : SUBSET Jobs, covers : BOOLEAN]
    /\ \A s \in Scenarios : \/ \A j \in s.jobs : Kind[j] \in {"provision", "cleanup"}
                             \/ Cardinality(s.jobs) = 1
    /\ NoJob \notin Jobs
    /\ MaxFaults \in Nat /\ MaxDeadlines \in Nat \ {0}

VARIABLES scenario,   \* what happens in this behaviour
          host,       \* the control state and the locals of each worker
          op,         \* the handler's thread in each worker
          registry,   \* the effect registry's row of the table
          txn,        \* the worker whose thread has a transaction on it
          accepted,   \* the preparations whose run was accepted
          left        \* how many faults may still happen

vars == <<storeVars, scenario, host, op, registry, txn, accepted, left>>

\* Locals: the claimed job, its token and deadline, the outcome to finish with
\* and whether a receipt follows it.
Idle == [pc |-> "idle", job |-> NoJob, tok |-> 0, deadline |-> 0,
         st |-> "none", err |-> "none", late |-> FALSE]

\* res is what the thread's future holds: a receipt or an exception.
NoOp == [pc |-> "none", job |-> NoJob, tok |-> 0, deadline |-> 0,
         cancelled |-> FALSE, res |-> "none"]

Init ==
    /\ InitStore
    /\ scenario \in Scenarios
    /\ host = [w \in Workers |-> Idle]
    /\ op = [w \in Workers |-> NoOp]
    /\ registry = [owner |-> NoJob, st |-> "none"]
    /\ txn = NoWorker
    /\ accepted = {}
    /\ left = MaxFaults

At(w, pc) == host[w].pc = pc

OpAt(w, pc) == op[w].pc = pc

Goto(w, pc) == host' = [host EXCEPT ![w].pc = pc]

Return(w) == host' = [host EXCEPT ![w] = Idle]

Conclude(w, st, err) ==
    host' = [host EXCEPT ![w].pc = "finish", ![w].st = st, ![w].err = err]

Spend(fault) == fault \in Faults /\ left > 0 /\ left' = left - 1

world == <<scenario, registry, txn, accepted>>

HostKind(w) == Kind[host[w].job]

HostLate(w) == Past(host[w].job, host[w].deadline)

SQL == {"provision", "cleanup"}

(***************************************************************************)
(* The tick: claim a job and check it.                                     *)
(***************************************************************************)
Claim(w) ==
    /\ At(w, "idle")
    /\ \/ \E j \in Jobs :
             /\ claim_action_job(j, w)
             /\ host' = [host EXCEPT ![w] =
                   [Idle EXCEPT !.pc = "check", !.job = j, !.tok = job[j].tok + 1,
                                !.deadline = job[j].deadline]]
       \/ ClaimNothing /\ UNCHANGED host
    /\ UNCHANGED <<op, world, left>>

ClearExpired(w) ==
    /\ At(w, "idle")
    /\ \E j \in Jobs : cleanup_expired_action_results(j)
    /\ UNCHANGED <<host, op, world, left>>

\* The request is parsed, authorized and, for a cleanup, its provision looked
\* up again; only a connector action is then given up if it is too late.
CheckJob(w) ==
    /\ At(w, "check")
    /\ \/ /\ IF ~ParentVerified(host[w].job)
               THEN Conclude(w, "failed", "authorization_denied")
               ELSE IF HostKind(w) # "prepare" /\ HostLate(w)
                 THEN Conclude(w, "timed_out", "none")
                 ELSE Goto(w, "invoke")
          /\ UNCHANGED left
       \/ Spend("deny") /\ Conclude(w, "failed", "authorization_denied")
    /\ UNCHANGED <<storeVars, op, world>>

\* The SQL handlers share one slot in a process, which the thread of a
\* cancelled action may still hold: they wait for it until the deadline.
StartHandler(w) ==
    /\ At(w, "invoke")
    /\ OpAt(w, "none")
    /\ op' = [op EXCEPT ![w] = [NoOp EXCEPT !.pc = "start", !.job = host[w].job,
                                            !.tok = host[w].tok,
                                            !.deadline = host[w].deadline]]
    /\ Goto(w, "await")
    /\ UNCHANGED <<storeVars, world, left>>

SlotTimeout(w) ==
    /\ At(w, "invoke")
    /\ ~OpAt(w, "none")
    /\ HostLate(w)
    /\ Conclude(w, "timed_out", "none")
    /\ UNCHANGED <<storeVars, op, world, left>>

(***************************************************************************)
(* The event loop beside a running handler.                                *)
(***************************************************************************)
CancelOp(w) == op' = [op EXCEPT ![w].cancelled = TRUE]

\* A connector action is cancelled at its deadline and left behind; a
\* preparation is told and waited for.
DeadlineHits(w) ==
    /\ At(w, "await")
    /\ HostLate(w)
    /\ CancelOp(w)
    /\ IF HostKind(w) = "prepare" THEN UNCHANGED host ELSE Conclude(w, "timed_out", "none")
    /\ UNCHANGED <<storeVars, world, left>>

SeesCancel(w) ==
    /\ At(w, "await")
    /\ HostKind(w) = "prepare"
    /\ job[host[w].job].st = "cancel_requested"
    /\ CancelOp(w)
    /\ UNCHANGED <<storeVars, host, world, left>>

\* heartbeat_action_job is refused, or fails.  The lease of a connector action
\* is given up without a word to the store; a preparation fails when its
\* thread, which is not told, has ended.
HeartbeatFails(w) ==
    /\ At(w, "await") \/ (At(w, "invoke") /\ ~OpAt(w, "none"))
    /\ \/ ~Holds(host[w].job, w, host[w].tok) /\ UNCHANGED left
       \/ Spend("store")
    /\ IF HostKind(w) = "prepare"
         THEN Goto(w, "unwind") /\ UNCHANGED op
         ELSE Return(w) /\ CancelOp(w)
    /\ UNCHANGED <<storeVars, world>>

Unwind(w) ==
    /\ At(w, "unwind")
    /\ OpAt(w, "done")
    /\ Conclude(w, "failed", "preparation_failed")
    /\ op' = [op EXCEPT ![w] = NoOp]
    /\ UNCHANGED <<storeVars, world, left>>

\* The outcome of a handler that ended by itself.
HandlerReturns(w) ==
    /\ At(w, "await")
    /\ OpAt(w, "done")
    /\ LET receipt == op[w].res = "receipt"
       IN  IF HostKind(w) = "prepare"
             THEN CASE HostLate(w) /\ ~(receipt /\ job[host[w].job].phase = "accepting")
                         -> Conclude(w, "timed_out", "none")
                    [] receipt /\ (HostLate(w) => job[host[w].job].phase = "accepting")
                         -> Conclude(w, "succeeded", "none")
                    [] ~receipt /\ ~HostLate(w)
                         -> Conclude(w, "failed", "preparation_failed")
             ELSE CASE HostLate(w)
                         -> host' = [host EXCEPT ![w].pc = "finish", ![w].st = "timed_out",
                                                 ![w].late = receipt /\ HostKind(w) \in SQL]
                    [] ~HostLate(w) /\ receipt -> Conclude(w, "succeeded", "none")
                    [] ~HostLate(w) /\ ~receipt -> Conclude(w, "failed", "action_failed")
    /\ op' = [op EXCEPT ![w] = NoOp]
    /\ UNCHANGED <<storeVars, world, left>>

(***************************************************************************)
(* finish_action_job with the outcome.                                     *)
(***************************************************************************)
\* An exception in the middle of a preparation's success is a failure of the
\* preparation; any other one ends the tick.
Raises(w) ==
    IF HostKind(w) = "prepare" /\ host[w].st = "succeeded"
      THEN Conclude(w, "failed", "preparation_failed") ELSE Return(w)

FollowUp(w) == IF host[w].late THEN Goto(w, "retain") ELSE Return(w)

\* _finish_timeout accepts that its job was closed under the same fence.
ClosedUnderFence(w) ==
    /\ host[w].st = "timed_out"
    /\ job[host[w].job].tok = host[w].tok
    /\ job[host[w].job].st \in {"timed_out", "cancelled"}

Finish(w) ==
    /\ At(w, "finish")
    /\ LET can == CanFinish(host[w].job, w, host[w].tok, host[w].st)
       IN  \/ /\ can
              /\ finish_action_job(host[w].job, host[w].st, host[w].err)
              /\ FollowUp(w)
              /\ UNCHANGED left
           \/ /\ ~can
              /\ IF ClosedUnderFence(w) THEN FollowUp(w) ELSE Raises(w)
              /\ UNCHANGED <<job, left>>
           \/ /\ Spend("store")
              /\ \/ UNCHANGED job
                 \/ can /\ finish_action_job(host[w].job, host[w].st, host[w].err)
              /\ Raises(w)
    /\ UNCHANGED <<passed, op, world>>

\* retain_effect: what was committed is reported through the job's own fence,
\* and a refusal is ignored.
Retain(w, j, tok) ==
    IF CanFinish(j, w, tok, "succeeded")
      THEN finish_action_job(j, "succeeded", "none") ELSE UNCHANGED job

RetainLate(w) ==
    /\ At(w, "retain")
    /\ Retain(w, host[w].job, host[w].tok)
    /\ Return(w)
    /\ UNCHANGED <<passed, op, world, left>>

(***************************************************************************)
(* The SQL handlers: _execute in a thread.                                 *)
(***************************************************************************)
OpKind(w) == Kind[op[w].job]

\* _ActionOperation.check raises.
Stopped(w) == op[w].cancelled \/ Past(op[w].job, op[w].deadline)

OpGoto(w, pc) == op' = [op EXCEPT ![w].pc = pc]

OpEnds(w, res) == op' = [op EXCEPT ![w].pc = "done", ![w].res = res]

OpStart(w) ==
    /\ OpAt(w, "start")
    /\ OpKind(w) \in SQL
    /\ IF Stopped(w) THEN OpEnds(w, "error") ELSE OpGoto(w, "execute")
    /\ UNCHANGED <<storeVars, host, world, left>>

\* What _create_table_effect and _remove_table_effect find in the registry.
Foreign(w) ==
    IF OpKind(w) = "provision"
      THEN registry.st = "created" /\ registry.owner # op[w].job
      ELSE registry.owner # Parent[op[w].job]

\* The statements run once no other transaction is in the way; the driver may
\* interrupt those of a cancelled action.
Execute(w) ==
    /\ OpAt(w, "execute")
    /\ txn = NoWorker
    /\ \/ /\ ~Foreign(w)
          /\ txn' = w
          /\ OpGoto(w, "recheck")
       \/ /\ Foreign(w) \/ Stopped(w)
          /\ OpEnds(w, "error")
          /\ UNCHANGED txn
    /\ UNCHANGED <<storeVars, host, scenario, registry, accepted, left>>

\* Mutant: the deadline is not looked at again before the commit.
NoRecheck(w) ==
    /\ OpAt(w, "recheck")
    /\ OpGoto(w, "commit")
    /\ UNCHANGED <<storeVars, host, world, left>>

\* A transaction that is too late is rolled back; an earlier one may have
\* left its effect, so the registry is read all the same.
Recheck(w) ==
    /\ OpAt(w, "recheck")
    /\ IF Stopped(w)
         THEN OpGoto(w, "reconcile") /\ txn' = NoWorker
         ELSE OpGoto(w, "commit") /\ UNCHANGED txn
    /\ UNCHANGED <<storeVars, host, scenario, registry, accepted, left>>

Effect(w) ==
    IF OpKind(w) = "provision"
      THEN [owner |-> op[w].job, st |-> "created"]
      ELSE [owner |-> Parent[op[w].job], st |-> "removed"]

\* The commit, whose acknowledgement may be lost or, by an interrupt, its effect.
Commit(w) ==
    /\ OpAt(w, "commit")
    /\ \/ registry' = Effect(w) /\ OpEnds(w, "receipt") /\ UNCHANGED left
       \/ /\ \/ Spend("commit") \/ (op[w].cancelled /\ UNCHANGED left)
          /\ registry' \in {registry, Effect(w)}
          /\ OpGoto(w, "reconcile")
    /\ txn' = NoWorker
    /\ UNCHANGED <<storeVars, host, scenario, accepted>>

\* Mutant: a commit without an answer is taken for a commit.
ReconcileAsCommitted(w) ==
    /\ OpAt(w, "reconcile")
    /\ OpEnds(w, "receipt")
    /\ UNCHANGED <<storeVars, host, world, left>>

\* _committed_effect reads the registry again, which may fail too.
Reconcile(w) ==
    /\ OpAt(w, "reconcile")
    /\ txn = NoWorker
    /\ \/ /\ OpEnds(w, IF registry = Effect(w) THEN "receipt" ELSE "error")
          /\ UNCHANGED left
       \/ OpEnds(w, "error") /\ Spend("commit")
    /\ UNCHANGED <<storeVars, host, world>>

\* retain_if_cancelled of an action nobody waits for; only the SQL handlers
\* have something to retain.
OpRetains(w) ==
    /\ OpAt(w, "done")
    /\ op[w].cancelled
    /\ OpKind(w) # "prepare"
    /\ IF op[w].res = "receipt" /\ OpKind(w) \in SQL THEN Retain(w, op[w].job, op[w].tok) ELSE UNCHANGED job
    /\ op' = [op EXCEPT ![w] = NoOp]
    /\ UNCHANGED <<passed, host, world, left>>

(***************************************************************************)
(* The handlers that change nothing of their own, and the preparation.     *)
(***************************************************************************)
Preview(w) ==
    /\ OpAt(w, "start")
    /\ OpKind(w) = "preview"
    /\ \E res \in {"receipt", "error"} : OpEnds(w, res)
    /\ UNCHANGED <<storeVars, host, world, left>>

\* execute_run_preparation checks the fence, and submit_run finds a run that
\* was accepted before.
PrepareStart(w) ==
    /\ OpAt(w, "start")
    /\ OpKind(w) = "prepare"
    /\ LET row == job[op[w].job]
       IN  CASE row.worker # w \/ row.tok # op[w].tok -> OpEnds(w, "error")
             [] row.worker = w /\ row.tok = op[w].tok ->
                  IF op[w].job \in accepted THEN OpEnds(w, "receipt") ELSE OpGoto(w, "begin")
    /\ UNCHANGED <<storeVars, host, world, left>>

\* begin_acceptance: the last moment the preparation can be cancelled.
BeginAcceptance(w) ==
    /\ OpAt(w, "begin")
    /\ LET can == CanMarkAccepting(op[w].job, w, op[w].tok)
       IN  \/ /\ ~op[w].cancelled /\ can
              /\ mark_action_job_accepting(op[w].job)
              /\ OpGoto(w, "accept")
              /\ UNCHANGED left
           \/ /\ op[w].cancelled \/ ~can
              /\ OpEnds(w, "error")
              /\ UNCHANGED <<job, left>>
           \/ /\ Spend("store")
              /\ OpEnds(w, "error")
              /\ \/ UNCHANGED job
                 \/ ~op[w].cancelled /\ can /\ mark_action_job_accepting(op[w].job)
    /\ UNCHANGED <<passed, host, world>>

AcceptRun(w) ==
    /\ OpAt(w, "accept")
    /\ \/ /\ accepted' = accepted \cup {op[w].job}
          /\ OpEnds(w, "receipt")
          /\ UNCHANGED left
       \/ /\ op[w].job \notin accepted
          /\ Spend("reject")
          /\ OpEnds(w, "error")
          /\ UNCHANGED accepted
    /\ UNCHANGED <<storeVars, host, scenario, registry, txn>>

(***************************************************************************)
(* Clients, time and faults.                                               *)
(***************************************************************************)
Client ==
    /\ \E j \in scenario.jobs :
          \/ accept_action_job(j) /\ job'[j].deadline <= MaxDeadlines
          \/ cancel_action_job(j)
    /\ UNCHANGED <<host, op, world, left>>

DeadlinePasses(j) ==
    /\ job[j].st # "absent"
    /\ \E d \in (1 .. job[j].deadline) \ passed[j] :
          passed' = [passed EXCEPT ![j] = @ \cup {d}]
    /\ UNCHANGED <<job, host, op, world, left>>

Attended(j) == \E w \in Workers : ~At(w, "idle") /\ Holds(j, w, host[w].tok)

Expire(j) ==
    /\ job[j].live
    /\ scenario.covers => Overdue(j)
    /\ Update(j, [job[j] EXCEPT !.live = FALSE])
    /\ UNCHANGED <<passed, host, op, world>>

\* The lease of a worker that is gone runs out.
ExpireAbandoned(j) == ~Attended(j) /\ Expire(j) /\ UNCHANGED left

\* The lease of a worker that stalls runs out.
Stall(j) == Attended(j) /\ Expire(j) /\ Spend("stall")

\* The process dies with its thread, and its transaction is rolled back.
Crash(w) ==
    /\ ~At(w, "idle") \/ ~OpAt(w, "none")
    /\ Spend("crash")
    /\ Return(w)
    /\ op' = [op EXCEPT ![w] = NoOp]
    /\ txn' = IF txn = w THEN NoWorker ELSE txn
    /\ UNCHANGED <<storeVars, scenario, registry, accepted>>

Clock == \E j \in Jobs : DeadlinePasses(j) \/ ExpireAbandoned(j)

HostStep(w) ==
    \/ Claim(w) \/ CheckJob(w) \/ StartHandler(w) \/ SlotTimeout(w)
    \/ DeadlineHits(w) \/ Unwind(w) \/ HandlerReturns(w) \/ Finish(w) \/ RetainLate(w)

OpStep(w) ==
    \/ OpStart(w) \/ Execute(w) \/ Recheck(w) \/ Commit(w) \/ Reconcile(w) \/ OpRetains(w)
    \/ Preview(w) \/ PrepareStart(w) \/ BeginAcceptance(w) \/ AcceptRun(w)

Next ==
    \/ \E w \in Workers : \/ HostStep(w) \/ OpStep(w) \/ ClearExpired(w)
                          \/ SeesCancel(w) \/ HeartbeatFails(w) \/ Crash(w)
    \/ \E j \in Jobs : Stall(j)
    \/ Clock \/ Client

Spec == Init /\ [][Next]_vars

-----------------------------------------------------------------------------
HostLocals ==
    [pc : {"idle", "check", "invoke", "await", "unwind", "finish", "retain"},
     job : Jobs \cup {NoJob}, tok : Nat, deadline : Nat,
     st : {"none", "succeeded", "failed", "timed_out"},
     err : ErrorCodes \cup {"preparation_failed"}, late : BOOLEAN]

OpLocals ==
    [pc : {"none", "start", "execute", "recheck", "commit", "reconcile", "begin", "accept",
           "done"},
     job : Jobs \cup {NoJob}, tok : Nat, deadline : Nat, cancelled : BOOLEAN,
     res : {"none", "receipt", "error"}]

\* A worker that is not idle and a thread that exists have a job.
TypeOK ==
    /\ job \in [Jobs -> JobRecord] /\ passed \in [Jobs -> SUBSET Nat]
    /\ host \in [Workers -> HostLocals] /\ op \in [Workers -> OpLocals]
    /\ \A w \in Workers : (~At(w, "idle") => host[w].job \in Jobs)
                         /\ (~OpAt(w, "none") => op[w].job \in Jobs)
    /\ registry \in [owner : Jobs \cup {NoJob}, st : {"none", "created", "removed"}]
    /\ txn \in Workers \cup {NoWorker}
    /\ scenario \in Scenarios /\ accepted \subseteq Jobs /\ left \in 0 .. MaxFaults

\* Once a cleanup has its receipt, the table of its provision is gone and
\* stays away: no worker of an earlier fence creates it again, given leases
\* that outlast the deadlines (_execute and its second check, the registry,
\* accept_action_job renewing a deadline).
CleanedIsGone ==
    scenario.covers => \A j \in Jobs :
        Kind[j] = "cleanup" /\ job[j].result =>
            registry # [owner |-> Parent[j], st |-> "created"]

\* A cleanup of the provision was asked for: another may create the table.
GivenUp(j) == \E c \in Jobs : Kind[c] = "cleanup" /\ Parent[c] = j /\ job[c].st # "absent"

\* A stored receipt tells of something that was committed, which the registry
\* still shows of a provision unless it was given up
\* (_committed_effect, retain_effect, finish_action_job).
ReceiptsAreTrue ==
    \A j \in Jobs : job[j].result =>
        /\ Kind[j] = "provision" => registry.owner = j \/ GivenUp(j)
        /\ Kind[j] = "prepare" => j \in accepted

\* The effect of the job is in the database.
Done(j) ==
    \/ Kind[j] = "provision" /\ registry.owner = j /\ registry.st = "created"
    \/ Kind[j] = "cleanup" /\ registry.owner = Parent[j] /\ registry.st = "removed"

\* A table that was created or dropped and has no receipt yet can still get
\* one: its job is open or may be asked for again, unless its caller lost the
\* right to it (accept_action_job, claim_action_job, _finish_failure).
UnrecordedIsRecoverable ==
    \A j \in Jobs : Done(j) /\ ~job[j].result /\ job[j].st # "absent" =>
        job[j].st \in Open \/ Renewable(j) \/ job[j].err = "authorization_denied"

\* No run comes of a preparation that was reported as cancelled
\* (cancel_action_job against mark_action_job_accepting and a new claim).
CancelledNeverAccepted ==
    \A j \in Jobs : job[j].st = "cancelled" => j \notin accepted

\* The receipt of a run that was accepted is kept by its preparation, late or
\* not, once nobody works on it (_run_preparation_handler on acceptance as a
\* durable side effect, finish_action_job on a late receipt).
AcceptedKeepsReceipt ==
    \A j \in accepted :
        job[j].st \in Terminal /\ (\A w \in Workers : j \notin {host[w].job, op[w].job}) =>
            job[j].result

(***************************************************************************)
(* Liveness.  Workers keep ticking and their threads running, deadlines    *)
(* pass, and the leases of dead workers run out.                           *)
(***************************************************************************)
Fairness ==
    /\ \A w \in Workers : WF_vars(HostStep(w)) /\ WF_vars(OpStep(w))
    /\ WF_vars(Clock)

FairSpec == Spec /\ Fairness

\* Every accepted action ends, whatever worker fails on the way: once the client
\* stops asking, nothing stays open (claim_action_job, the deadline of a job and
\* the lease of its worker).
AcceptedEnds ==
    (\E j \in Jobs : job[j].st \in Open) ~> (\A j \in Jobs : job[j].st \notin Open)
=============================================================================
