---------------------------- MODULE DispatchStore ----------------------------
(***************************************************************************)
(* The part of src/src/etlantic/control_plane/durable_memory.py that a     *)
(* remote execution route uses, for one route and one submission accepted  *)
(* on it: the lifecycle of the route, and the dispatch record that carries *)
(* the submission to a remote run.  Every method runs under the store's    *)
(* lock and is one atomic step; RouteDispatch calls them from its          *)
(* processes.                                                              *)
(*                                                                         *)
(* A creation key names a generation of the submission's dispatch, so the  *)
(* generation stands for it.  Wall-clock deadlines are Booleans here:      *)
(* "live" says the dispatch lease has not expired, "waiting" that the      *)
(* backoff of a release has not passed, "aged" that the link is older than *)
(* the grace period of a missing run.                                      *)
(***************************************************************************)
EXTENDS Naturals, FiniteSets, Sequences

CONSTANTS Dispatchers,      \* the owner ids of the dispatchers
          NoOwner,
          MaxGenerations    \* _MAX_DISPATCH_GENERATIONS

ASSUME DispatchAssumption ==
    /\ NoOwner \notin Dispatchers
    /\ MaxGenerations \in Nat \ {0}

VARIABLES route,     \* the ExecutionRouteRecord: st, rev
          held,      \* a schedule holds a reference to the route
          sub,       \* the status of the submission, "absent" before accept
          outbox,    \* whether its outbox row is still unpublished
          lease,     \* its execution lease: the remote run that holds it, live
          attempt,   \* its newest attempt: "none", "running" or "over"
          dispatch   \* its DispatchRecord, st = "none" before prepare_dispatch

storeVars == <<route, held, sub, outbox, lease, attempt, dispatch>>

\* No remote run.
NoRun == 0

RouteStatuses == {"active", "draining", "retired", "cleanup_pending", "cleaned"}

DispatchStatuses ==
    {"none", "pending", "leased", "uncertain", "dispatched", "cancelled",
     "reconciliation_required"}

Open == {"accepted", "cancel_requested"}

Closed == {"cancelled", "completed", "failed"}

NoDispatch == [st |-> "none", gen |-> 1, owner |-> NoOwner, token |-> 0,
               live |-> FALSE, waiting |-> FALSE, aged |-> FALSE, run |-> NoRun]

InitStore ==
    /\ route = [st |-> "active", rev |-> 0]
    /\ held = FALSE
    /\ sub = "absent"
    /\ outbox = FALSE
    /\ lease = [run |-> NoRun, live |-> FALSE]
    /\ attempt = "none"
    /\ dispatch = NoDispatch

(***************************************************************************)
(* The lifecycle of the route.                                             *)
(***************************************************************************)
\* Mutant: a dispatch that is being created is not counted.
DrainedButCreating ==
    /\ sub \notin Open
    /\ attempt # "running"
    /\ dispatch.st \notin {"pending", "reconciliation_required"}
    /\ ~outbox

\* ExecutionRouteWorkload.drained.
Drained ==
    /\ sub \notin Open
    /\ attempt # "running"
    /\ dispatch.st \in {"none", "dispatched", "cancelled"}
    /\ ~outbox

Allowed == {<<"active", "draining">>, <<"draining", "active">>,
            <<"draining", "retired">>, <<"retired", "active">>,
            <<"retired", "cleanup_pending">>, <<"cleanup_pending", "cleaned">>}

CanTransition(rev, status) ==
    /\ route.rev = rev
    /\ <<route.st, status>> \in Allowed
    /\ status = "retired" => Drained /\ ~held
    /\ status = "cleanup_pending" => Drained /\ ~held /\ sub = "absent"

transition_execution_route_state(status) ==
    route' = [st |-> status, rev |-> route.rev + 1]

accept ==
    /\ sub = "absent"
    /\ route.st = "active"
    /\ sub' = "accepted"
    /\ outbox' = TRUE
    /\ UNCHANGED <<route, held, lease, attempt, dispatch>>

reserve_execution_route_reference ==
    /\ route.st = "active"
    /\ held' = TRUE
    /\ UNCHANGED <<route, sub, outbox, lease, attempt, dispatch>>

release_execution_route_reference ==
    /\ held' = FALSE
    /\ UNCHANGED <<route, sub, outbox, lease, attempt, dispatch>>

(***************************************************************************)
(* Cancellation.                                                           *)
(***************************************************************************)
\* Queued work has no owner to wake: its lease ends at once.
cancel_submission ==
    /\ sub \in Open
    /\ sub' = "cancel_requested"
    /\ lease' = [lease EXCEPT !.live = @ /\ attempt = "running"]
    /\ UNCHANGED <<route, held, outbox, attempt, dispatch>>

\* A create that may have succeeded keeps the cancellation open.
CanFinalizeCancel ==
    /\ sub = "cancel_requested"
    /\ ~lease.live
    /\ ~(dispatch.st = "uncertain" /\ dispatch.run = NoRun)

reconcile_cancelled_submissions(acknowledge) ==
    /\ sub' = "cancelled"
    /\ attempt' = IF attempt = "running" THEN "over" ELSE attempt
    /\ dispatch' = IF dispatch.st \in {"pending", "reconciliation_required"}
                     THEN [dispatch EXCEPT !.st = "cancelled", !.waiting = FALSE]
                     ELSE dispatch
    /\ outbox' = (outbox /\ ~acknowledge)
    /\ UNCHANGED <<route, held, lease>>

\* mark_published of a host that has released what closed work held.
AcknowledgeClosed ==
    /\ sub \in Closed
    /\ outbox
    /\ outbox' = FALSE
    /\ UNCHANGED <<route, held, sub, lease, attempt, dispatch>>

(***************************************************************************)
(* The dispatch record.                                                    *)
(***************************************************************************)
CancelledUncertain ==
    dispatch.st = "uncertain" /\ sub \in {"cancel_requested", "cancelled"}

\* pending_dispatches lists the submission.
PendingDispatch ==
    /\ outbox
    /\ sub = "accepted" \/ CancelledUncertain
    /\ dispatch.st \in {"none", "pending", "leased", "uncertain"}
    /\ ~dispatch.waiting
    /\ ~(dispatch.st = "leased" /\ dispatch.live)

\* dispatched_for_reconciliation lists it.
LinkedForReconciliation ==
    dispatch.st = "dispatched" /\ dispatch.run # NoRun /\ sub = "accepted"

prepare_dispatch ==
    dispatch' = IF dispatch.st # "none"
                  THEN dispatch
                  ELSE [dispatch EXCEPT !.st = IF sub = "accepted"
                                                 THEN "pending" ELSE "cancelled"]

\* Mutant: a holder whose lease ran out is waited for.
CanClaimReleased ==
    /\ dispatch.st \in {"pending", "uncertain"}
    /\ ~dispatch.waiting
    /\ sub = "accepted" \/ CancelledUncertain

CanClaim ==
    /\ dispatch.st \in {"pending", "leased", "uncertain"}
    /\ ~dispatch.waiting
    /\ sub = "accepted" \/ CancelledUncertain
    /\ ~(dispatch.st = "leased" /\ dispatch.live)

claim_dispatch(d) ==
    dispatch' = [dispatch EXCEPT !.st = "leased", !.owner = d, !.token = @ + 1,
                                 !.live = TRUE]

HoldsDispatch(d, token) ==
    dispatch.st = "leased" /\ dispatch.owner = d /\ dispatch.token = token

\* Mutant: whoever holds some lease may link.
CanLinkUnfenced(d, token) == dispatch.st = "leased"

CanLink(d, token) == HoldsDispatch(d, token) /\ dispatch.live

link_dispatch(r) ==
    dispatch' = [dispatch EXCEPT !.st = "dispatched", !.run = r, !.owner = NoOwner,
                                 !.live = FALSE, !.waiting = FALSE, !.aged = FALSE]

\* A caller that lost the lease is refused; an expired lease is still the
\* caller's until somebody else claims.
release_dispatch(d, token, status) ==
    dispatch' = IF HoldsDispatch(d, token)
                  THEN [dispatch EXCEPT !.st = status, !.owner = NoOwner, !.live = FALSE,
                                        !.waiting = status # "cancelled"]
                  ELSE dispatch

Unexecuted == ~lease.live /\ attempt = "none"

\* Mutant: only a lease that is held counts as execution.
CanRearmUnleased(r) ==
    dispatch.st = "dispatched" /\ dispatch.run = r /\ sub = "accepted" /\ ~lease.live

\* _rearm_dispatch_if_unclaimed refuses nothing: a run that is not the
\* linked one, or work that was claimed, is left alone.
CanRearm(r) ==
    /\ dispatch.st = "dispatched"
    /\ dispatch.run = r
    /\ sub = "accepted"
    /\ Unexecuted

NextGeneration == [dispatch EXCEPT !.gen = @ + 1, !.st = "pending", !.run = NoRun,
                                   !.waiting = FALSE]

rearm_dispatch ==
    dispatch' = IF dispatch.gen >= MaxGenerations
                  THEN [dispatch EXCEPT !.st = "reconciliation_required", !.waiting = FALSE]
                  ELSE NextGeneration

\* An operator's decision, made on the generation and the run it saw.
rearm_reconciliation_required_dispatch(gen, r) ==
    /\ dispatch.st = "reconciliation_required"
    /\ dispatch.gen = gen
    /\ dispatch.run = r
    /\ sub = "accepted"
    /\ route.st = "active"
    /\ Unexecuted
    /\ dispatch' = NextGeneration
=============================================================================
