----------------------------- MODULE ActionJobs -----------------------------
(***************************************************************************)
(* The action jobs of src/src/etlantic/control_plane/durable_memory.py:    *)
(* maintenance actions that a client asks for under an idempotency key and *)
(* a worker executes under a fenced lease and before a deadline.  Every    *)
(* method runs under the store's lock and is one atomic step; ActionWorker *)
(* calls them from its processes.                                          *)
(*                                                                         *)
(* A job stands for one idempotency key.  Its record keeps the status, the *)
(* phase of a preparation, the fencing token, the worker and whether its   *)
(* lease is live, whether a result is stored, the error code, and the      *)
(* number of the deadline: asking again with the same key may renew it.    *)
(***************************************************************************)
EXTENDS Naturals, FiniteSets

CONSTANTS Jobs,       \* action jobs
          Kind,       \* what each of them does
          Parent,     \* the provision that a cleanup undoes
          Workers,    \* the ids of the workers
          NoWorker

Effectful == {"provision", "cleanup", "prepare"}

ASSUME JobAssumption ==
    /\ Kind \in [Jobs -> Effectful \cup {"preview"}]
    /\ \A j \in Jobs :
          Kind[j] = "cleanup" => Parent[j] \in Jobs /\ Kind[Parent[j]] = "provision"
    /\ NoWorker \notin Workers

VARIABLES job,      \* the ActionJobRecord of each job
          passed    \* the deadlines of each job that have passed

storeVars == <<job, passed>>

Open == {"queued", "running", "cancel_requested"}

Terminal == {"succeeded", "failed", "timed_out", "cancelled"}

NoRecord == [st |-> "absent", phase |-> "queued", tok |-> 0, worker |-> NoWorker,
             live |-> FALSE, result |-> FALSE, err |-> "none", deadline |-> 1]

Phases == {"queued", "preparing", "accepting", "cancelled"}

ErrorCodes == {"none", "deadline_exceeded", "action_failed", "authorization_denied"}

JobRecord == [st : {"absent"} \cup Open \cup Terminal, phase : Phases, tok : Nat,
              worker : Workers \cup {NoWorker}, live : BOOLEAN, result : BOOLEAN,
              err : ErrorCodes, deadline : Nat]

InitStore ==
    /\ job = [j \in Jobs |-> NoRecord]
    /\ passed = [j \in Jobs |-> {}]

Past(j, deadline) == deadline \in passed[j]

Overdue(j) == Past(j, job[j].deadline)

Update(j, record) == job' = [job EXCEPT ![j] = record]

(***************************************************************************)
(* Acceptance and cancellation.                                            *)
(***************************************************************************)
\* verify_provision_parent: a cleanup names a stored receipt of its provision.
ParentVerified(j) ==
    Kind[j] = "cleanup" =>
        /\ job[Parent[j]].st \in {"succeeded", "timed_out", "cancelled"}
        /\ job[Parent[j]].result

\* Mutant: an action that timed out is not taken up again.
RenewableUnlessLate(j) ==
    /\ Kind[j] \in {"provision", "cleanup"}
    /\ ~job[j].result
    /\ job[j].st = "failed"
    /\ job[j].err = "action_failed"

\* Asking again with the same key takes up what the provider may have done.
Renewable(j) ==
    /\ Kind[j] \in {"provision", "cleanup"}
    /\ ~job[j].result
    /\ job[j].st \in {"timed_out", "failed"}
    /\ job[j].err \in {"deadline_exceeded", "action_failed", "provider_timeout"}

accept_action_job(j) ==
    /\ ParentVerified(j)
    /\ \/ job[j].st = "absent" /\ Update(j, [job[j] EXCEPT !.st = "queued"])
       \/ /\ Renewable(j)
          /\ Update(j, [job[j] EXCEPT !.st = "queued", !.phase = "queued", !.err = "none",
                                      !.deadline = @ + 1])
    /\ UNCHANGED passed

cancel_action_job(j) ==
    /\ Kind[j] = "prepare"
    /\ \/ job[j].st = "queued"
          /\ Update(j, [job[j] EXCEPT !.st = "cancelled", !.phase = "cancelled"])
       \/ job[j].st = "running" /\ job[j].phase # "accepting"
          /\ Update(j, [job[j] EXCEPT !.st = "cancel_requested"])
    /\ UNCHANGED passed

(***************************************************************************)
(* The worker's calls.                                                     *)
(***************************************************************************)
Released(j) == [job[j] EXCEPT !.worker = NoWorker, !.live = FALSE]

\* Mutant: a job whose deadline passed is left to its worker.
SweptCancelled(j) ==
    IF job[j].st = "cancel_requested" /\ ~job[j].live
      THEN [Released(j) EXCEPT !.st = "cancelled", !.phase = "cancelled"]
      ELSE job[j]

\* What every claim does with a job before it looks for one to execute.
Swept(j) ==
    IF job[j].st = "cancel_requested" /\ ~job[j].live
      THEN [Released(j) EXCEPT !.st = "cancelled", !.phase = "cancelled"]
      ELSE IF job[j].st \in Open /\ Overdue(j)
        THEN [Released(j) EXCEPT !.st = "timed_out", !.err = "deadline_exceeded"]
        ELSE job[j]

Claimable(j) ==
    /\ job[j].st = "queued" \/ (job[j].st = "running" /\ ~job[j].live)
    /\ ~Overdue(j)

\* Mutant: a new worker starts the preparation over.
ClaimedAfresh(j, w) ==
    [job[j] EXCEPT !.st = "running", !.tok = @ + 1, !.worker = w, !.live = TRUE,
                   !.phase = "preparing"]

Claimed(j, w) ==
    [job[j] EXCEPT !.st = "running", !.tok = @ + 1, !.worker = w, !.live = TRUE,
                   !.phase = IF @ = "queued" THEN "preparing" ELSE @]

claim_action_job(j, w) ==
    /\ Claimable(j)
    /\ job' = [k \in Jobs |-> IF k = j THEN Claimed(j, w) ELSE Swept(k)]
    /\ UNCHANGED passed

ClaimNothing ==
    /\ \A j \in Jobs : ~Claimable(j)
    /\ job' = [k \in Jobs |-> Swept(k)]
    /\ UNCHANGED passed

\* The fence of heartbeat_action_job and finish_action_job.
Holds(j, w, tok) ==
    /\ job[j].st \in {"running", "cancel_requested"}
    /\ job[j].worker = w
    /\ job[j].tok = tok
    /\ job[j].live

CanMarkAccepting(j, w, tok) ==
    Holds(j, w, tok) /\ job[j].st = "running" /\ Kind[j] = "prepare"

mark_action_job_accepting(j) == Update(j, [job[j] EXCEPT !.phase = "accepting"])

\* An outcome with a receipt of something durable.
Retains(j, st) == st = "succeeded" /\ Kind[j] \in Effectful

LateReceipt(j, tok, st) ==
    job[j].st \in {"timed_out", "cancelled"} /\ job[j].tok = tok /\ Retains(j, st)

CanFinish(j, w, tok, st) ==
    \/ LateReceipt(j, tok, st)
    \/ Holds(j, w, tok) /\ (st = "timed_out" => Overdue(j) \/ job[j].st = "cancel_requested")

\* The store knows a fixed set of error codes and replaces any other.
StoredCode(err) == IF err = "preparation_failed" THEN "action_failed" ELSE err

\* A receipt describes what was done, not how the action ended: a cancelled or
\* late action keeps its status and the receipt.
Finished(j, st, err) ==
    IF job[j].st \in Terminal
      THEN [job[j] EXCEPT !.result = TRUE]
      ELSE IF job[j].st = "cancel_requested"
        THEN [Released(j) EXCEPT !.st = "cancelled", !.phase = "cancelled",
                                 !.result = Retains(j, st)]
        ELSE IF st = "timed_out" \/ Overdue(j)
          THEN [Released(j) EXCEPT !.st = "timed_out", !.err = "deadline_exceeded",
                                   !.result = Retains(j, st)]
          ELSE [Released(j) EXCEPT !.st = st, !.result = st = "succeeded",
                                   !.err = StoredCode(err)]

finish_action_job(j, st, err) == Update(j, Finished(j, st, err))

\* The payload of a preview is deleted when its retention ends.
cleanup_expired_action_results(j) ==
    /\ Kind[j] = "preview" /\ job[j].result
    /\ Update(j, [job[j] EXCEPT !.result = FALSE])
    /\ UNCHANGED passed
=============================================================================
