---------------------------- MODULE RouteDispatch ----------------------------
(***************************************************************************)
(* The managed Prefect route over DispatchStore: dispatchers               *)
(* (packages/etlantic-prefect dispatcher.py) that create a remote flow run *)
(* for accepted work and link it, the flow runs and their workers          *)
(* (worker.py), and operators who retire, reactivate and clean up the      *)
(* route (deployment.py).  Every action is one call that changes the store *)
(* or the Prefect server, or one read that a later action relies on, so    *)
(* that anything may happen between two calls.                             *)
(*                                                                         *)
(* The Prefect server is external: it creates at most one flow run for an  *)
(* idempotency key that it still knows, and the answer may be lost.  A     *)
(* flow run that was deleted is not known any more.                        *)
(***************************************************************************)
EXTENDS DispatchStore

CONSTANTS Operators,     \* operators of the route
          Scheduled,     \* whether a schedule refers to the route
          Faults,        \* the kinds of faults that happen
          MaxFaults,     \* bound: how many of them happen
          MaxRuns,       \* bound: flow runs created
          MaxToken,      \* bound: dispatch claims
          MaxRev         \* bound: route transitions

ASSUME BoundAssumption ==
    /\ {MaxFaults, MaxRuns, MaxToken, MaxRev} \subseteq Nat
    /\ Scheduled \in BOOLEAN

VARIABLES deployment,  \* the Prefect deployment: "active", "paused" or "deleted"
          runs,        \* the flow runs in the order of their creation
          proc,        \* the control state and the locals of each dispatcher
          op,          \* the control state and the locals of each operator
          left         \* how many faults may still happen

vars == <<storeVars, deployment, runs, proc, op, left>>

RunIds == 1 .. Len(runs)

\* st is what the server says of the run, worker where its process stands.
NewRun(gen) == [gen |-> gen, st |-> "scheduled", worker |-> "none"]

Active == {"scheduled", "running"}

\* Locals: the fencing token and the generation of the claim, the status
\* prepare_dispatch returned, the run created or found, the status to
\* release with, and the state observed of a linked run.
Idle == [pc |-> "idle", tok |-> 0, gen |-> 0, seen |-> "none", run |-> NoRun,
         rel |-> "none", obs |-> "none"]

AtRest == [pc |-> "idle", st |-> "none", rev |-> 0]

Init ==
    /\ InitStore
    /\ deployment = "active"
    /\ runs = <<>>
    /\ proc = [d \in Dispatchers |-> Idle]
    /\ op = [o \in Operators |-> AtRest]
    /\ left = MaxFaults

Spend(fault) == fault \in Faults /\ left > 0 /\ left' = left - 1

At(d, pc) == proc[d].pc = pc

Goto(d, pc) == proc' = [proc EXCEPT ![d].pc = pc]

Return(d) == proc' = [proc EXCEPT ![d] = Idle]

\* An exception: the lease is released with the given status.
Raise(d, status) == proc' = [proc EXCEPT ![d].pc = "release", ![d].rel = status]

\* Only the dispatch record, or nothing of the store, changes.
OnlyDispatch == UNCHANGED <<route, held, sub, outbox, lease, attempt>>

remoteVars == <<deployment, runs>>

(***************************************************************************)
(* The dispatcher's tick: the remote binding is verified, a linked run     *)
(* that failed before it was claimed is rearmed, pending work dispatched.  *)
(***************************************************************************)
\* _verify_remote_binding raises for a deployment that is paused or gone.
tick(d) ==
    /\ At(d, "idle")
    /\ deployment = "active"
    /\ proc' = [proc EXCEPT ![d].pc = IF LinkedForReconciliation
                                        THEN "observe" ELSE "scan",
                            ![d].run = dispatch.run]
    /\ UNCHANGED <<storeVars, remoteVars, op, left>>

\* read_flow_run of the linked run.
ObserveRun(d) ==
    /\ At(d, "observe")
    /\ proc' = [proc EXCEPT ![d].obs = runs[proc[d].run].st,
                            ![d].pc = IF runs[proc[d].run].st \in {"failed", "deleted"}
                                        THEN "rearm" ELSE "scan"]
    /\ UNCHANGED <<storeVars, remoteVars, op, left>>

\* rearm_dispatch_after_remote_failure and _after_remote_missing.
Rearm(d) ==
    /\ At(d, "rearm")
    /\ IF CanRearm(proc[d].run) /\ (proc[d].obs = "deleted" => dispatch.aged)
         THEN rearm_dispatch
         ELSE UNCHANGED dispatch
    /\ Goto(d, "scan")
    /\ OnlyDispatch
    /\ UNCHANGED <<remoteVars, op, left>>

Scan(d) ==
    /\ At(d, "scan")
    /\ IF PendingDispatch THEN Goto(d, "prepare") ELSE Return(d)
    /\ UNCHANGED <<storeVars, remoteVars, op, left>>

(***************************************************************************)
(* _dispatch_submission.                                                   *)
(***************************************************************************)
Prepare(d) ==
    /\ At(d, "prepare")
    /\ prepare_dispatch
    /\ IF dispatch'.st \in {"dispatched", "cancelled"}
         THEN Return(d)
         ELSE proc' = [proc EXCEPT ![d].pc = "claim", ![d].seen = dispatch'.st]
    /\ OnlyDispatch
    /\ UNCHANGED <<remoteVars, op, left>>

Claim(d) ==
    /\ At(d, "claim")
    /\ \/ /\ CanClaim
          /\ dispatch.token < MaxToken
          /\ claim_dispatch(d)
          /\ proc' = [proc EXCEPT ![d].pc = "check", ![d].tok = dispatch.token + 1,
                                  ![d].gen = dispatch.gen]
       \/ /\ ~CanClaim \/ dispatch.token = MaxToken
          /\ Return(d)
          /\ UNCHANGED dispatch
    /\ OnlyDispatch
    /\ UNCHANGED <<remoteVars, op, left>>

\* get_submission after the claim, judged by the status read before it; an
\* error before the remote create leaves nothing uncertain.
CheckSubmission(d) ==
    /\ At(d, "check")
    /\ \/ /\ sub = "accepted"
          /\ Goto(d, "create")
          /\ UNCHANGED left
       \/ /\ sub \in {"cancel_requested", "cancelled"} /\ proc[d].seen = "uncertain"
          /\ Goto(d, "resolve")
          /\ UNCHANGED left
       \/ /\ sub # "accepted" /\ ~(sub \in {"cancel_requested", "cancelled"}
                                   /\ proc[d].seen = "uncertain")
          /\ Raise(d, "cancelled")
          /\ UNCHANGED left
       \/ /\ Spend("client")
          /\ Raise(d, "pending")
    /\ UNCHANGED <<storeVars, remoteVars, op>>

Known(gen) == {r \in RunIds : runs[r].gen = gen /\ runs[r].st # "deleted"}

\* create_flow_run_from_deployment with the claim's creation key.
CreatedRun(gen) ==
    IF Known(gen) # {} THEN CHOOSE r \in Known(gen) : TRUE ELSE Len(runs) + 1

CreateAtServer(gen) ==
    runs' = IF Known(gen) # {} THEN runs ELSE Append(runs, NewRun(gen))

Create(d) ==
    /\ At(d, "create")
    /\ Known(proc[d].gen) = {} => Len(runs) < MaxRuns
    /\ \/ /\ deployment # "deleted"
          /\ CreateAtServer(proc[d].gen)
          /\ proc' = [proc EXCEPT ![d].pc = "link", ![d].run = CreatedRun(proc[d].gen)]
          /\ UNCHANGED left
       \/ /\ Spend("lost")
          /\ \/ deployment # "deleted" /\ CreateAtServer(proc[d].gen)
             \/ UNCHANGED runs
          /\ Raise(d, "uncertain")
       \/ /\ deployment = "deleted"
          /\ Raise(d, "uncertain")
          /\ UNCHANGED <<runs, left>>
    /\ UNCHANGED <<storeVars, deployment, op>>

\* A record linked to this run already is the answer; any other refusal is
\* an exception after the create was started.
Link(d) ==
    /\ At(d, "link")
    /\ \/ /\ CanLink(d, proc[d].tok)
          /\ link_dispatch(proc[d].run)
          /\ Return(d)
       \/ /\ ~CanLink(d, proc[d].tok)
          /\ IF dispatch.st = "dispatched" /\ dispatch.run = proc[d].run
               THEN Return(d) ELSE Raise(d, "uncertain")
          /\ UNCHANGED dispatch
    /\ OnlyDispatch
    /\ UNCHANGED <<remoteVars, op, left>>

Release(d) ==
    /\ At(d, "release")
    /\ release_dispatch(d, proc[d].tok, proc[d].rel)
    /\ Return(d)
    /\ OnlyDispatch
    /\ UNCHANGED <<remoteVars, op, left>>

(***************************************************************************)
(* _resolve_cancelled_uncertain_create: find the run of the key, link it,  *)
(* ask the server to cancel it, finalize the cancellation.                 *)
(***************************************************************************)
Resolve(d) ==
    /\ At(d, "resolve")
    /\ \/ /\ Cardinality(Known(proc[d].gen)) = 1
          /\ proc' = [proc EXCEPT ![d].pc = "relink", ![d].run = CreatedRun(proc[d].gen)]
          /\ UNCHANGED left
       \/ /\ Cardinality(Known(proc[d].gen)) # 1
          /\ Raise(d, "uncertain")
          /\ UNCHANGED left
       \/ /\ Spend("lost")
          /\ Raise(d, "uncertain")
    /\ UNCHANGED <<storeVars, remoteVars, op>>

LinkResolved(d) ==
    /\ At(d, "relink")
    /\ IF CanLink(d, proc[d].tok)
         THEN link_dispatch(proc[d].run) /\ Goto(d, "stop")
         ELSE Raise(d, "uncertain") /\ UNCHANGED dispatch
    /\ OnlyDispatch
    /\ UNCHANGED <<remoteVars, op, left>>

\* set_flow_run_state: a run that has not started is cancelled, a running
\* one is asked to stop and goes on until it notices.
CancelAtServer(r) ==
    runs' = [runs EXCEPT ![r].st = IF @ = "scheduled" THEN "cancelled" ELSE @]

StopRun(d) ==
    /\ At(d, "stop")
    /\ \/ /\ CancelAtServer(proc[d].run)
          /\ Goto(d, "sweep")
          /\ UNCHANGED left
       \/ /\ Spend("lost")
          /\ Raise(d, "uncertain")
          /\ UNCHANGED runs
    /\ UNCHANGED <<storeVars, deployment, op>>

FinalizeCancel(d) ==
    /\ At(d, "sweep")
    /\ IF CanFinalizeCancel
         THEN reconcile_cancelled_submissions(TRUE)
         ELSE UNCHANGED storeVars
    /\ Return(d)
    /\ UNCHANGED <<remoteVars, op, left>>

(***************************************************************************)
(* managed_execution_flow: a flow run and its worker.                      *)
(***************************************************************************)
RunStarts(r) ==
    /\ runs[r].st = "scheduled"
    /\ runs' = [runs EXCEPT ![r].st = "running", ![r].worker = "verify"]
    /\ UNCHANGED <<storeVars, deployment, proc, op, left>>

\* The process ends; the server learns of the outcome unless it forgot the run.
WorkerEnds(r, st) ==
    runs' = [runs EXCEPT ![r].worker = "gone",
                         ![r].st = IF @ = "deleted" THEN @ ELSE st]

\* The run and its deployment are read from the server.
FlowVerify(r) ==
    /\ runs[r].worker = "verify"
    /\ IF deployment = "active" /\ runs[r].st # "deleted"
         THEN runs' = [runs EXCEPT ![r].worker = "check"]
         ELSE WorkerEnds(r, "failed")
    /\ UNCHANGED <<storeVars, deployment, proc, op, left>>

\* The durable dispatch intent must match this flow run.
IntentMatches(r) ==
    /\ dispatch.st \in {"leased", "uncertain", "dispatched"}
    /\ dispatch.st = "dispatched" => dispatch.run = r

FlowCheck(r) ==
    /\ runs[r].worker = "check"
    /\ IF IntentMatches(r)
         THEN runs' = [runs EXCEPT ![r].worker = "execute"]
         ELSE WorkerEnds(r, "failed")
    /\ UNCHANGED <<storeVars, deployment, proc, op, left>>

\* execute_submission: the host takes the execution lease, or finds nothing
\* to do (the sweeps of its tick are HostSweep).
FlowAcquire(r) ==
    /\ runs[r].worker = "execute"
    /\ \/ /\ sub = "accepted" /\ outbox
          /\ lease.live => lease.run = r
          /\ lease' = [run |-> r, live |-> TRUE]
          /\ runs' = [runs EXCEPT ![r].worker = "start"]
       \/ /\ ~(sub = "accepted" /\ outbox /\ (lease.live => lease.run = r))
          /\ WorkerEnds(r, IF sub \in {"failed", "cancelled"} THEN "failed" ELSE "completed")
          /\ UNCHANGED lease
    /\ UNCHANGED <<route, held, sub, outbox, attempt, dispatch, deployment, proc, op, left>>

HoldsLease(r) == lease.run = r /\ lease.live

FlowStart(r) ==
    /\ runs[r].worker = "start"
    /\ IF HoldsLease(r) /\ sub = "accepted"
         THEN attempt' = "running" /\ runs' = [runs EXCEPT ![r].worker = "run"]
         ELSE WorkerEnds(r, "failed") /\ UNCHANGED attempt
    /\ UNCHANGED <<route, held, sub, outbox, lease, dispatch, deployment, proc, op, left>>

\* The host closes the attempt and the outbox row under its lease, and
\* releases it; without the lease it leaves the work to recovery.
FlowEnds(r) ==
    /\ runs[r].worker = "run"
    /\ \/ /\ HoldsLease(r) /\ sub \in Open
          /\ \E outcome \in {"completed", "failed"} :
                /\ sub' = IF sub = "cancel_requested" THEN "cancelled" ELSE outcome
                /\ WorkerEnds(r, IF sub' = "completed" THEN "completed" ELSE "failed")
          /\ attempt' = "over"
          /\ outbox' = FALSE
          /\ lease' = [lease EXCEPT !.live = FALSE]
       \/ /\ ~(HoldsLease(r) /\ sub \in Open)
          /\ WorkerEnds(r, "failed")
          /\ UNCHANGED <<sub, outbox, lease, attempt>>
    /\ UNCHANGED <<route, held, dispatch, deployment, proc, op, left>>

(***************************************************************************)
(* Operators: retire, reactivate and cleanup.  Each reads the lifecycle,   *)
(* calls the server, and moves the route with the revision it read.  When  *)
(* that revision is stale, the operator reads again and goes on if another *)
(* one made the same move, and gets an error otherwise.                    *)
(***************************************************************************)
OpAt(o, pc) == op[o].pc = pc

OpGoto(o, pc) == op' = [op EXCEPT ![o].pc = pc]

OpReturn(o) == op' = [op EXCEPT ![o] = AtRest]

\* An operator makes at most two transitions with what it read.
WithinBound == route.rev + 2 <= MaxRev

ReadLifecycle(o, pc) == op' = [op EXCEPT ![o] = [pc |-> pc, st |-> route.st, rev |-> route.rev]]

\* The route moves and the operator goes on with the record it gets back.
MoveRoute(o, status, pc) ==
    /\ CanTransition(op[o].rev, status)
    /\ transition_execution_route_state(status)
    /\ op' = [op EXCEPT ![o] = [pc |-> pc, st |-> status, rev |-> route.rev + 1]]

Refused(o, status) == ~CanTransition(op[o].rev, status) /\ UNCHANGED route

OnlyRoute == UNCHANGED <<held, sub, outbox, lease, attempt, dispatch>>

ActiveRuns == {r \in RunIds : runs[r].st \in Active}

Pause == deployment' = IF deployment = "active" THEN "paused" ELSE deployment

\* Where a retirement goes from a lifecycle in the given status.
Retiring(status) ==
    CASE status = "active" -> "drain"
      [] status = "draining" /\ Drained /\ ~held -> "pause"
      [] status = "retired" -> "repause"
      [] OTHER -> "idle"

retire(o) ==
    /\ OpAt(o, "idle")
    /\ WithinBound
    /\ Retiring(route.st) # "idle"
    /\ ReadLifecycle(o, Retiring(route.st))
    /\ UNCHANGED <<storeVars, remoteVars, proc, left>>

DrainRoute(o) ==
    /\ OpAt(o, "drain")
    /\ \/ MoveRoute(o, "draining", Retiring("draining"))
       \/ /\ Refused(o, "draining")
          /\ IF route.st \in {"draining", "retired"}
               THEN ReadLifecycle(o, Retiring(route.st)) ELSE OpReturn(o)
    /\ OnlyRoute
    /\ UNCHANGED <<remoteVars, proc, left>>

\* Remote runs are looked for before and after the deployment is paused.
PauseDeployment(o) ==
    /\ OpAt(o, "pause")
    /\ IF ActiveRuns = {}
         THEN Pause /\ OpGoto(o, "confirm")
         ELSE UNCHANGED deployment /\ OpReturn(o)
    /\ UNCHANGED <<storeVars, runs, proc, left>>

ConfirmQuiet(o) ==
    /\ OpAt(o, "confirm")
    /\ IF ActiveRuns = {} THEN OpGoto(o, "retire") ELSE OpReturn(o)
    /\ UNCHANGED <<storeVars, remoteVars, proc, left>>

RetireRoute(o) ==
    /\ OpAt(o, "retire")
    /\ \/ MoveRoute(o, "retired", "idle")
       \/ /\ Refused(o, "retired")
          /\ IF op[o].rev # route.rev /\ route.st = "retired"
               THEN ReadLifecycle(o, "repause") ELSE OpReturn(o)
    /\ OnlyRoute
    /\ UNCHANGED <<remoteVars, proc, left>>

RepauseRetired(o) ==
    /\ OpAt(o, "repause")
    /\ Pause
    /\ OpReturn(o)
    /\ UNCHANGED <<storeVars, runs, proc, left>>

reactivate(o) ==
    /\ OpAt(o, "idle")
    /\ WithinBound
    /\ route.st \in {"draining", "retired"} \/ (route.st = "active" /\ deployment = "paused")
    /\ ReadLifecycle(o, "resume")
    /\ UNCHANGED <<storeVars, remoteVars, proc, left>>

ResumeDeployment(o) ==
    /\ OpAt(o, "resume")
    /\ IF deployment = "deleted"
         THEN UNCHANGED deployment /\ OpReturn(o)
         ELSE deployment' = "active" /\ OpGoto(o, "resumed")
    /\ UNCHANGED <<storeVars, runs, proc, left>>

\* The deployment is read again and must still be active.
ConfirmResumed(o) ==
    /\ OpAt(o, "resumed")
    /\ IF deployment = "active" /\ op[o].st # "active" THEN OpGoto(o, "reopen") ELSE OpReturn(o)
    /\ UNCHANGED <<storeVars, remoteVars, proc, left>>

ReopenRoute(o) ==
    /\ OpAt(o, "reopen")
    /\ \/ MoveRoute(o, "active", "idle")
       \/ Refused(o, "active") /\ OpReturn(o)
    /\ OnlyRoute
    /\ UNCHANGED <<remoteVars, proc, left>>

ReferencesClear == Drained /\ ~held /\ sub = "absent"

cleanup(o) ==
    /\ OpAt(o, "idle")
    /\ WithinBound
    /\ route.st \in {"retired", "cleanup_pending"}
    /\ ReferencesClear
    /\ ReadLifecycle(o, "unused")
    /\ UNCHANGED <<storeVars, remoteVars, proc, left>>

NoHistory == \A r \in RunIds : runs[r].st = "deleted"

\* Mutant: the deployment is deleted without fencing the route first.
VerifyUnusedUnfenced(o) ==
    /\ OpAt(o, "unused")
    /\ Pause
    /\ IF NoHistory THEN OpGoto(o, "delete") ELSE OpReturn(o)
    /\ UNCHANGED <<storeVars, runs, proc, left>>

\* verify_unused_paused_deployment, and no flow run in any state.
VerifyUnused(o) ==
    /\ OpAt(o, "unused")
    /\ Pause
    /\ CASE ~NoHistory -> OpReturn(o)
         [] NoHistory /\ op[o].st = "retired" -> OpGoto(o, "fence")
         [] OTHER -> OpGoto(o, "delete")
    /\ UNCHANGED <<storeVars, runs, proc, left>>

FenceCleanup(o) ==
    /\ OpAt(o, "fence")
    /\ \/ MoveRoute(o, "cleanup_pending", "unused")
       \/ /\ Refused(o, "cleanup_pending")
          /\ IF op[o].rev # route.rev /\ route.st = "cleanup_pending" /\ ReferencesClear
               THEN ReadLifecycle(o, "unused") ELSE OpReturn(o)
    /\ OnlyRoute
    /\ UNCHANGED <<remoteVars, proc, left>>

DeleteDeployment(o) ==
    /\ OpAt(o, "delete")
    /\ deployment' = "deleted"
    /\ OpGoto(o, "clean")
    /\ UNCHANGED <<storeVars, runs, proc, left>>

CleanRoute(o) ==
    /\ OpAt(o, "clean")
    /\ \/ MoveRoute(o, "cleaned", "idle")
       \/ Refused(o, "cleaned") /\ OpReturn(o)
    /\ OnlyRoute
    /\ UNCHANGED <<remoteVars, proc, left>>

\* rearm_exhausted_dispatch: once per behaviour here.
RearmExhausted ==
    /\ dispatch.gen = MaxGenerations
    /\ rearm_reconciliation_required_dispatch(dispatch.gen, dispatch.run)
    /\ OnlyDispatch
    /\ UNCHANGED <<remoteVars, proc, op, left>>

(***************************************************************************)
(* Clients, hosts, time and faults.                                        *)
(***************************************************************************)
Client ==
    /\ \/ accept \/ cancel_submission
       \/ Scheduled /\ reserve_execution_route_reference
       \/ Scheduled /\ release_execution_route_reference
    /\ UNCHANGED <<remoteVars, proc, op, left>>

\* request_managed_run_cancellation, after the durable cancellation.
RequestRemoteCancellation ==
    /\ sub \in {"cancel_requested", "cancelled"}
    /\ dispatch.st = "dispatched"
    /\ CancelAtServer(dispatch.run)
    /\ UNCHANGED <<storeVars, deployment, proc, op, left>>

\* The sweeps of a host's tick.
HostSweep ==
    /\ \/ CanFinalizeCancel /\ reconcile_cancelled_submissions(FALSE)
       \/ AcknowledgeClosed
    /\ UNCHANGED <<remoteVars, proc, op, left>>

Working(d) == proc[d].tok = dispatch.token /\ ~At(d, "idle") /\ dispatch.owner = d

LeaseRunsOut ==
    /\ dispatch.st = "leased" /\ dispatch.live
    /\ dispatch' = [dispatch EXCEPT !.live = FALSE]
    /\ OnlyDispatch
    /\ UNCHANGED <<remoteVars, proc, op>>

\* The lease of a dispatcher that is gone runs out.
ExpireAbandoned ==
    /\ \A d \in Dispatchers : ~Working(d)
    /\ LeaseRunsOut
    /\ UNCHANGED left

\* The lease of a dispatcher at work runs out: a bounded number of times.
ExpireUnderWork ==
    /\ \E d \in Dispatchers : Working(d)
    /\ LeaseRunsOut
    /\ Spend("expire")

TimePasses ==
    /\ dispatch.waiting \/ (dispatch.st = "dispatched" /\ ~dispatch.aged)
    /\ dispatch' = [dispatch EXCEPT !.waiting = FALSE, !.aged = dispatch.st = "dispatched"]
    /\ OnlyDispatch
    /\ UNCHANGED <<remoteVars, proc, op, left>>

\* The lease of a worker that is gone runs out; a live one renews it.
ExpireLease ==
    /\ lease.live
    /\ runs[lease.run].worker = "gone"
    /\ lease' = [lease EXCEPT !.live = FALSE]
    /\ UNCHANGED <<route, held, sub, outbox, attempt, dispatch, remoteVars, proc, op, left>>

WorkerDies(r) ==
    /\ runs[r].worker \notin {"none", "gone"}
    /\ Spend("die")
    /\ runs' = [runs EXCEPT ![r].worker = "gone"]
    /\ UNCHANGED <<storeVars, deployment, proc, op>>

\* The server notices that the process of a run is gone.
RunCrashes(r) ==
    /\ runs[r].worker = "gone" /\ runs[r].st = "running"
    /\ runs' = [runs EXCEPT ![r].st = "failed"]
    /\ UNCHANGED <<storeVars, deployment, proc, op, left>>

DeleteRun(r) ==
    /\ runs[r].st # "deleted"
    /\ Spend("delete")
    /\ runs' = [runs EXCEPT ![r].st = "deleted"]
    /\ UNCHANGED <<storeVars, deployment, proc, op>>

Crash ==
    /\ Spend("crash")
    /\ \/ \E d \in Dispatchers :
             ~At(d, "idle") /\ Return(d) /\ UNCHANGED op
       \/ \E o \in Operators :
             ~OpAt(o, "idle") /\ OpReturn(o) /\ UNCHANGED proc
    /\ UNCHANGED <<storeVars, remoteVars>>

DispatcherStep(d) ==
    \/ tick(d) \/ ObserveRun(d) \/ Rearm(d) \/ Scan(d) \/ Prepare(d) \/ Claim(d)
    \/ CheckSubmission(d) \/ Create(d) \/ Link(d) \/ Release(d)
    \/ Resolve(d) \/ LinkResolved(d) \/ StopRun(d) \/ FinalizeCancel(d)

FlowStep(r) ==
    RunStarts(r) \/ FlowVerify(r) \/ FlowCheck(r) \/ FlowAcquire(r) \/ FlowStart(r) \/ FlowEnds(r)

OperatorStep(o) ==
    \/ retire(o) \/ DrainRoute(o) \/ PauseDeployment(o) \/ ConfirmQuiet(o)
    \/ RetireRoute(o) \/ RepauseRetired(o)
    \/ reactivate(o) \/ ResumeDeployment(o) \/ ConfirmResumed(o) \/ ReopenRoute(o)
    \/ cleanup(o) \/ VerifyUnused(o) \/ FenceCleanup(o) \/ DeleteDeployment(o)
    \/ CleanRoute(o)

Next ==
    \/ \E d \in Dispatchers : DispatcherStep(d)
    \/ \E r \in RunIds : FlowStep(r) \/ WorkerDies(r) \/ RunCrashes(r) \/ DeleteRun(r)
    \/ \E o \in Operators : OperatorStep(o)
    \/ RearmExhausted \/ Client \/ RequestRemoteCancellation \/ HostSweep
    \/ ExpireAbandoned \/ ExpireUnderWork \/ TimePasses \/ ExpireLease \/ Crash

Spec == Init /\ [][Next]_vars

-----------------------------------------------------------------------------
FlowRun ==
    [gen : Nat,
     st : Active \cup {"completed", "failed", "cancelled", "deleted"},
     worker : {"none", "verify", "check", "execute", "start", "run", "gone"}]

DispatcherLocals ==
    [pc : {"idle", "observe", "rearm", "scan", "prepare", "claim", "check", "create",
           "link", "resolve", "relink", "stop", "sweep", "release"},
     tok : Nat, gen : Nat, run : Nat,
     seen : DispatchStatuses,
     rel : {"none", "pending", "uncertain", "cancelled"},
     obs : {"none", "scheduled", "running", "completed", "failed", "cancelled", "deleted"}]

OperatorLocals ==
    [pc : {"idle", "drain", "pause", "confirm", "retire", "repause", "resume", "resumed",
           "reopen", "unused", "fence", "delete", "clean"},
     st : RouteStatuses \cup {"none"},
     rev : Nat]

DispatchRecord ==
    [st : DispatchStatuses, gen : 1 .. MaxGenerations + 1, token : Nat, run : Nat,
     owner : Dispatchers \cup {NoOwner}, live : BOOLEAN, waiting : BOOLEAN, aged : BOOLEAN]

TypeOK ==
    /\ route \in [st : RouteStatuses, rev : Nat]
    /\ held \in BOOLEAN
    /\ sub \in {"absent"} \cup Open \cup Closed
    /\ outbox \in BOOLEAN
    /\ lease \in [run : Nat, live : BOOLEAN]
    /\ attempt \in {"none", "running", "over"}
    /\ dispatch \in DispatchRecord
    /\ dispatch.owner # NoOwner <=> dispatch.st = "leased"
    /\ deployment \in {"active", "paused", "deleted"}
    /\ runs \in Seq(FlowRun)
    /\ proc \in [Dispatchers -> DispatcherLocals]
    /\ op \in [Operators -> OperatorLocals]
    /\ left \in Nat

\* The run a dispatch is linked to was created for the dispatch's own
\* generation: no dispatcher that was overtaken by a rearm links the run of an
\* earlier one (link_dispatch, claim_dispatch, _rearm_dispatch_if_unclaimed).
LinkedIsCurrent ==
    dispatch.st \in {"dispatched", "reconciliation_required"} =>
        runs[dispatch.run].gen = dispatch.gen

\* Nothing of the route is on its way once it is retired: no open work, no
\* attempt and no execution lease, no schedule that will submit to it, no
\* dispatcher that could still link a run, and the run that was linked has
\* ended on the server, although store and server were looked at in different
\* calls (retire and transition_execution_route_state against accept,
\* claim_dispatch, link_dispatch and a reactivation).  It says nothing of a run
\* that an overtaken dispatcher creates after the last look at the server.
RetiredIsQuiet ==
    route.st \in {"retired", "cleanup_pending", "cleaned"} =>
        /\ sub \notin Open /\ attempt # "running" /\ ~lease.live /\ ~held
        /\ dispatch.st = "dispatched" => runs[dispatch.run].st \notin Active
        /\ \A d \in Dispatchers : ~HoldsDispatch(d, proc[d].tok)

\* A deployment is deleted only under a route that nothing was ever accepted
\* on and that never comes back (cleanup against accept and reactivate).
DeletedIsUnused ==
    deployment = "deleted" =>
        sub = "absent" /\ route.st \in {"cleanup_pending", "cleaned"}

\* A new generation, which means another remote run of the same work, is only
\* opened while no run has begun to execute it (dispatcher and operator rearms
\* against the flow's acquire_lease and start_attempt).
RearmedIsUnexecuted ==
    [][ dispatch'.gen # dispatch.gen =>
          /\ attempt = "none"
          /\ \A r \in RunIds : runs[r].worker # "run" ]_vars

(***************************************************************************)
(* Liveness.  Dispatchers keep polling, the server runs what it was given  *)
(* and notices dead processes, deadlines pass, hosts sweep.                *)
(***************************************************************************)
Fairness ==
    /\ \A d \in Dispatchers : WF_vars(DispatcherStep(d))
    /\ WF_vars(\E r \in RunIds : FlowStep(r) \/ RunCrashes(r))
    /\ WF_vars(ExpireAbandoned)
    /\ WF_vars(TimePasses)
    /\ WF_vars(ExpireLease)
    /\ WF_vars(HostSweep)

FairSpec == Spec /\ Fairness

\* Accepted work reaches an execution, is cancelled, or is handed to an
\* operator, whatever dispatcher or worker fails on the way.
AcceptedIsDelivered ==
    sub = "accepted" ~>
        (sub # "accepted" \/ attempt # "none" \/ dispatch.st = "reconciliation_required")

\* A create whose answer was lost is resolved after a cancellation: the
\* dispatch of cancelled work does not stay leased or uncertain.
CancelledIsResolved ==
    sub = "cancelled" ~> dispatch.st \notin {"leased", "uncertain"}
=============================================================================
