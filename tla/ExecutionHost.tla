--------------------------- MODULE ExecutionHost ---------------------------
(***************************************************************************)
(* The execution hosts (run workers) over the durable work store.  A host  *)
(* ticks: it finalizes expired cancellations, acknowledges terminal work,  *)
(* then leases each pending item, starts an attempt, runs the accepted     *)
(* plan beside a lease monitor, and closes the attempt.  Each call to the  *)
(* store, the quota provider or the report store is a step of its own, so  *)
(* that hosts, cancellations, lease expiry and faults interleave between   *)
(* any two of them.  A call the store refuses raises out of the tick       *)
(* wherever the code does not catch it.                                    *)
(*                                                                         *)
(* The ETL run is the runtime's: what is kept of it is that it may commit  *)
(* its target, and that a report it returns tells the truth about that.    *)
(***************************************************************************)
EXTENDS Naturals, Sequences, FiniteSets, SequencesExt

CONSTANTS
  Submission, NoSubmission, Owner, NoOwner, NoReport,
  Host,        \* execution host processes
  OwnerOf,     \* host -> the owner_id it was configured with
  TTL,         \* life of a lease, in ticks
  Faults,      \* kinds of fault that may happen
  MaxFaults,   \* bound: faults in a behaviour
  MaxToken     \* bound: fencing tokens granted per submission

FaultKind == {"crash", "restart", "stall", "outage", "quota", "report",
              "runner", "event", "confirm"}

\* What a run report says of the run and of its target.
Report == [status : {"succeeded"}, effect : {"none", "committed"}]
     \cup [status : {"failed", "cancelled"}, effect : {"none", "committed", "unknown"}]

\* The last conjuncts are what the store assumes of its parameters.
ASSUME HostAssumption ==
  /\ OwnerOf \in [Host -> Owner]
  /\ Faults \subseteq FaultKind
  /\ MaxFaults \in Nat
  /\ IsFiniteSet(Submission) /\ NoSubmission \notin Submission
  /\ NoOwner \notin Owner /\ NoReport \notin Report
  /\ TTL \in Nat \ {0} /\ MaxToken \in Nat

VARIABLES
  status, outbox, lease, attempts, effect,   \* the durable work store
  host,       \* host -> its thread: program counter and locals
  result,     \* submission -> the report in the run report store
  quota,      \* submission -> its concurrency reservation is held
  target,     \* submission -> ETL runs begun, and whether one committed
  faults      \* faults so far

storeVars == <<status, outbox, lease, attempts, effect>>
vars == <<storeVars, host, result, quota, target, faults>>

Store == INSTANCE DurableWork WITH
           Checkpoint <- {}, checkpoint <- <<>>,
           AdmissionLimit <- Cardinality(Submission),
           EffectInput <- {"none", "committed", "unknown"}, MaxVersion <- 0

---------------------------------------------------------------------------
Closing == {"effect", "quota", "finish", "publish", "release"}

\* The exceptions the runner classifies: ExecutionRejected, ExecutionCancelled,
\* and everything else, which says nothing of the target.
Raised == [status : {"rejected", "stopped", "error"}, effect : {"unknown"}]

HostState ==
  [pc : {"down", "idle", "scan", "cleanup", "ack", "results", "mark", "poll",
         "leased", "listed", "lookup", "etl", "ran", "closing"},
   todo : SUBSET Submission,              \* outbox items still to visit
   sub : Submission \cup {NoSubmission},  \* the item being worked on
   token : Nat,                           \* fencing token of its lease
   attempt : Nat,                         \* the attempt started for it
   recovered : BOOLEAN,                   \* earlier attempts were listed
   cancel : BOOLEAN,                      \* cancel event of the run
   lost : BOOLEAN,                        \* lease_lost event of the monitor
   outcome : Report \cup Raised \cup {NoReport},
   steps : Seq(Closing)]                  \* closing calls still to make

Idle == [pc |-> "idle", todo |-> {}, sub |-> NoSubmission, token |-> 0,
         attempt |-> 0, recovered |-> FALSE, cancel |-> FALSE, lost |-> FALSE,
         outcome |-> NoReport, steps |-> <<>>]

Polling(todo) == [Idle EXCEPT !.pc = "poll", !.todo = todo]

TypeOK ==
  /\ Store!TypeOK
  /\ host \in [Host -> HostState]
  /\ result \in [Submission -> Report \cup {NoReport}]
  /\ quota \in [Submission -> BOOLEAN]
  /\ target \in [Submission -> [runs : Nat, committed : BOOLEAN]]
  /\ faults \in 0..MaxFaults

Init ==
  /\ Store!Init
  /\ host = [h \in Host |-> Idle]
  /\ result = [s \in Submission |-> NoReport]
  /\ quota = [s \in Submission |-> FALSE]
  /\ target = [s \in Submission |-> [runs |-> 0, committed |-> FALSE]]
  /\ faults = 0

---------------------------------------------------------------------------
(* Shorthands: where a host is, where it goes next, and what may fail.     *)

At(h, pc) == host[h].pc = pc

Becomes(h, state) == host' = [host EXCEPT ![h] = state]

\* The exception leaves tick: the rest of the page is dropped.
TickRaises(h) == Becomes(h, Idle)

\* This item is done with; the loop goes on to the next one.
NextItem(h) == Becomes(h, Polling(host[h].todo))

Fault(kind) ==
  /\ kind \in Faults
  /\ faults < MaxFaults
  /\ faults' = faults + 1

Working(h, s) ==
  /\ host[h].sub = s
  /\ host[h].pc \in {"leased", "listed", "lookup", "etl", "ran", "closing"}

\* The host still holds the live lease it works under.
Holds(h) == Store!HoldsLease(host[h].sub, OwnerOf[h], host[h].token)

Attended(s) == \E h \in Host : Working(h, s) /\ Holds(h)

\* pending_result_publications: the attempts of s whose mirrored report waits.
Undelivered(s) ==
  {n \in DOMAIN attempts[s] : attempts[s][n].report # NoReport /\ ~attempts[s][n].delivered}

\* get_latest_result_publication: the newest report mirrored by an attempt.
Mirrored(s) ==
  LET withReport == {n \in DOMAIN attempts[s] : attempts[s][n].report # NoReport}
  IN  IF withReport = {} THEN NoReport ELSE attempts[s][Max(withReport)].report

Stored(s) == IF result[s] # NoReport THEN result[s] ELSE Mirrored(s)

---------------------------------------------------------------------------
(* Clients, the provider of the target, and time.                          *)

\* Admission reserves the concurrency quota before the store accepts.
Submit(s) ==
  /\ Store!Accept(s)
  /\ quota' = [quota EXCEPT ![s] = TRUE]
  /\ UNCHANGED <<host, result, target, faults>>

RequestCancel(s) ==
  /\ status[s] \in Store!Runnable
  /\ Store!CancelSubmission(s)
  /\ UNCHANGED <<host, result, quota, target, faults>>

\* A provider confirms a commit with reconciliation evidence.
ProviderConfirms(s) ==
  /\ "confirm" \in Faults
  /\ target[s].committed /\ effect[s] # "committed"
  /\ Store!RecordEffect(s, "committed", "reconciliation")
  /\ UNCHANGED <<host, result, quota, target, faults>>

\* A lease runs out under its working holder only when that holder stalls.
Elapse(s) ==
  /\ Store!Elapse(s)
  /\ IF Attended(s) /\ lease[s].left = 1 THEN Fault("stall") ELSE UNCHANGED faults
  /\ UNCHANGED <<host, result, quota, target>>

Crash(h) ==
  /\ ~At(h, "down")
  /\ Fault("crash")
  /\ Becomes(h, [Idle EXCEPT !.pc = "down"])
  /\ UNCHANGED <<storeVars, result, quota, target>>

\* A supervisor starts the process again, with the same owner_id.
Restart(h) ==
  /\ At(h, "down") /\ "restart" \in Faults
  /\ Becomes(h, Idle)
  /\ UNCHANGED <<storeVars, result, quota, target, faults>>

---------------------------------------------------------------------------
(* The tick up to the run.                                                 *)

\* Mutant of BeginTick: expired cancellations are not finalized.
BeginTickWithoutSweep(h) ==
  /\ At(h, "idle")
  /\ Becomes(h, [Idle EXCEPT !.pc = "scan"])
  /\ UNCHANGED <<storeVars, result, quota, target, faults>>

BeginTick(h) ==
  /\ At(h, "idle")
  /\ Store!ReconcileCancelled(Store!Reconcilable, FALSE)
  /\ Becomes(h, [Idle EXCEPT !.pc = "scan"])
  /\ UNCHANGED <<result, quota, target, faults>>

\* Mutant of ScanTerminal: terminal work is left to whoever finished it.
ScanNothing(h) ==
  /\ At(h, "scan")
  /\ Becomes(h, [host[h] EXCEPT !.pc = "cleanup"])
  /\ UNCHANGED <<storeVars, result, quota, target, faults>>

\* Mutant of ScanTerminal: requested cancellations count as terminal.
ScanCancelling(h) ==
  /\ At(h, "scan")
  /\ Becomes(h, [host[h] EXCEPT !.pc = "cleanup",
       !.todo = {s \in Submission : outbox[s] = "pending" /\ status[s] \notin Store!Runnable}])
  /\ UNCHANGED <<storeVars, result, quota, target, faults>>

ScanTerminal(h) ==
  /\ At(h, "scan")
  /\ Becomes(h, [host[h] EXCEPT !.pc = "cleanup",
       !.todo = {s \in Submission : outbox[s] = "pending" /\ status[s] \in Store!Terminal}])
  /\ UNCHANGED <<storeVars, result, quota, target, faults>>

\* _reconcile_terminal_work: the outbox waits until the quota is released.
CleanupQuota(h, s) ==
  /\ At(h, "cleanup") /\ s \in host[h].todo
  /\ \/ /\ quota' = [quota EXCEPT ![s] = FALSE]
        /\ Becomes(h, [host[h] EXCEPT !.pc = "ack", !.sub = s])
        /\ UNCHANGED faults
     \/ /\ Fault("quota")
        /\ Becomes(h, [host[h] EXCEPT !.todo = @ \ {s}])
        /\ UNCHANGED quota
  /\ UNCHANGED <<storeVars, result, target>>

Acknowledge(s) == Store!MarkPublished(s) \/ (outbox[s] # "pending" /\ UNCHANGED storeVars)

CleanupAck(h) ==
  /\ At(h, "ack")
  /\ Acknowledge(host[h].sub)
  /\ Becomes(h, [Idle EXCEPT !.pc = "cleanup", !.todo = host[h].todo \ {host[h].sub}])
  /\ UNCHANGED <<result, quota, target, faults>>

\* Mutant of ScanResults: results of terminal submissions are not looked for.
ScanOpenResults(h) ==
  /\ At(h, "cleanup") /\ host[h].todo = {}
  /\ Becomes(h, [host[h] EXCEPT !.pc = "results",
       !.todo = {s \in Submission : Undelivered(s) # {} /\ status[s] \notin Store!Terminal}])
  /\ UNCHANGED <<storeVars, result, quota, target, faults>>

ScanResults(h) ==
  /\ At(h, "cleanup") /\ host[h].todo = {}
  /\ Becomes(h, [host[h] EXCEPT !.pc = "results",
                   !.todo = {s \in Submission : Undelivered(s) # {}}])
  /\ UNCHANGED <<storeVars, result, quota, target, faults>>

\* Mutant of PublishResult: a report the store refused is marked all the same.
PublishResultUnchecked(h, s, n) ==
  /\ At(h, "results") /\ s \in host[h].todo /\ n \in Undelivered(s)
  /\ Becomes(h, [host[h] EXCEPT !.pc = "mark", !.sub = s, !.attempt = n,
                                !.outcome = attempts[s][n].report])
  /\ \/ result' = [result EXCEPT ![s] = attempts[s][n].report] /\ UNCHANGED faults
     \/ Fault("report") /\ UNCHANGED result
  /\ UNCHANGED <<storeVars, quota, target>>

\* _reconcile_result_publications: a mirrored report goes to the report store
\* first and is marked delivered after; one that fails waits for another tick.
PublishResult(h, s, n) ==
  /\ At(h, "results") /\ s \in host[h].todo /\ n \in Undelivered(s)
  /\ \/ /\ result' = [result EXCEPT ![s] = attempts[s][n].report]
        /\ Becomes(h, [host[h] EXCEPT !.pc = "mark", !.sub = s, !.attempt = n,
                                      !.outcome = attempts[s][n].report])
        /\ UNCHANGED faults
     \/ /\ Fault("report")
        /\ Becomes(h, [host[h] EXCEPT !.todo = @ \ {s}])
        /\ UNCHANGED result
  /\ UNCHANGED <<storeVars, quota, target>>

\* Another host delivered it meanwhile: publishing and marking again is idle.
SkipResult(h, s) ==
  /\ At(h, "results") /\ s \in host[h].todo /\ Undelivered(s) = {}
  /\ Becomes(h, [host[h] EXCEPT !.todo = @ \ {s}])
  /\ UNCHANGED <<storeVars, result, quota, target, faults>>

MarkResult(h) ==
  LET s == host[h].sub
      n == host[h].attempt
  IN
  /\ At(h, "mark")
  /\ IF attempts[s][n].report = host[h].outcome
     THEN Store!MarkResultPublished(s, n, host[h].outcome)
     ELSE UNCHANGED storeVars
  /\ Becomes(h, [Idle EXCEPT !.pc = "results",
       !.todo = IF Undelivered(s) \subseteq {n} THEN host[h].todo \ {s} ELSE host[h].todo])
  /\ UNCHANGED <<result, quota, target, faults>>

ScanPending(h) ==
  /\ At(h, "results") /\ host[h].todo = {}
  /\ Becomes(h, Polling({s \in Submission :
                           outbox[s] = "pending" /\ status[s] \in Store!NonTerminal}))
  /\ UNCHANGED <<storeVars, result, quota, target, faults>>

EndTick(h) ==
  /\ At(h, "poll") /\ host[h].todo = {}
  /\ Becomes(h, Idle)
  /\ UNCHANGED <<storeVars, result, quota, target, faults>>

\* A refused item is passed over; so is one that has used up its tokens.
Acquire(h, s) ==
  /\ At(h, "poll") /\ s \in host[h].todo
  /\ IF Store!MayAcquire(s, OwnerOf[h]) /\ Store!NextToken(s, OwnerOf[h]) <= MaxToken
     THEN /\ Store!AcquireLease(s, OwnerOf[h])
          /\ Becomes(h, [host[h] EXCEPT !.pc = "leased", !.sub = s, !.todo = @ \ {s},
                                        !.token = Store!NextToken(s, OwnerOf[h])])
     ELSE /\ Becomes(h, [host[h] EXCEPT !.todo = @ \ {s}])
          /\ UNCHANGED storeVars
  /\ UNCHANGED <<result, quota, target, faults>>

\* Mutant of ListAttempts: only attempts known to be lost count as earlier work.
ListRunningAttempts(h) ==
  /\ At(h, "leased")
  /\ Becomes(h, [host[h] EXCEPT !.pc = "listed",
                   !.recovered = \E n \in DOMAIN attempts[host[h].sub] :
                                   attempts[host[h].sub][n].status = "lost"])
  /\ UNCHANGED <<storeVars, result, quota, target, faults>>

ListAttempts(h) ==
  /\ At(h, "leased")
  /\ Becomes(h, [host[h] EXCEPT !.pc = "listed",
                                !.recovered = attempts[host[h].sub] # <<>>])
  /\ UNCHANGED <<storeVars, result, quota, target, faults>>

StartAttempt(h) ==
  LET s == host[h].sub IN
  /\ At(h, "listed")
  /\ IF Store!MayStart(s, OwnerOf[h], host[h].token)
     THEN /\ Store!StartAttempt(s, OwnerOf[h], host[h].token)
          /\ Becomes(h, [host[h] EXCEPT !.pc = "lookup",
                                        !.attempt = Len(attempts[s]) + 1])
     ELSE TickRaises(h) /\ UNCHANGED storeVars
  /\ UNCHANGED <<result, quota, target, faults>>

---------------------------------------------------------------------------
(* The run: the lease monitor, and the managed runner beside it.           *)

\* The monitor is stopped after the run; a check it has begun still ends.
Monitored(h) == host[h].pc \in {"lookup", "etl", "ran"}

Heartbeat(h) ==
  /\ Monitored(h) /\ ~host[h].cancel
  /\ Store!Heartbeat(host[h].sub, OwnerOf[h], host[h].token)
  /\ UNCHANGED <<host, result, quota, target, faults>>

MonitorSeesCancel(h) ==
  /\ Monitored(h) /\ ~host[h].cancel
  /\ status[host[h].sub] = "cancel_requested"
  /\ Becomes(h, [host[h] EXCEPT !.cancel = TRUE])
  /\ UNCHANGED <<storeVars, result, quota, target, faults>>

\* The heartbeat is refused (a cancellation may have come after the monitor
\* read the status), or the store cannot be reached.
MonitorLosesLease(h) ==
  /\ Monitored(h) /\ ~host[h].cancel
  /\ IF status[host[h].sub] \in Store!Runnable /\ Holds(h)
     THEN Fault("outage") ELSE UNCHANGED faults
  /\ Becomes(h, [host[h] EXCEPT !.cancel = TRUE, !.lost = TRUE])
  /\ UNCHANGED <<storeVars, result, quota, target>>

Returns(h, outcome) ==
  Becomes(h, [host[h] EXCEPT !.pc = "ran", !.outcome = outcome])

Raises(h, error) == Returns(h, [status |-> error, effect |-> "unknown"])

\* The fenced result publisher of the attempt, when the report store fails.
MirrorReport(h, r) ==
  LET s == host[h].sub
      n == host[h].attempt
      t == host[h].token
  IN IF Store!MayRecordResult(s, n, OwnerOf[h], t, r)
     THEN Store!RecordResult(s, n, OwnerOf[h], t, r) /\ Returns(h, r)
     ELSE Raises(h, "error") /\ UNCHANGED storeVars

\* _ResultRecoveryReportStore.put mirrors what it could not store, and raises.
MirrorIfAllowed(h, r) ==
  LET s == host[h].sub
      n == host[h].attempt
      t == host[h].token
  IN IF Store!MayRecordResult(s, n, OwnerOf[h], t, r)
     THEN Store!RecordResult(s, n, OwnerOf[h], t, r)
     ELSE UNCHANGED storeVars

\* A report store that cannot be read counts as one without the report.
NotFound(s) == IF result[s] = NoReport THEN UNCHANGED faults ELSE Fault("report")

\* An earlier run left its report: it is the outcome, and ETL is not run again.
RecoverReport(h) ==
  LET s == host[h].sub IN
  /\ At(h, "lookup")
  /\ \/ /\ result[s] # NoReport
        /\ \/ Returns(h, result[s]) /\ UNCHANGED faults
           \/ Raises(h, "error") /\ Fault("event")
        /\ UNCHANGED storeVars
     \/ /\ Mirrored(s) # NoReport
        /\ NotFound(s)
        /\ MirrorReport(h, Mirrored(s))
     \/ /\ Stored(s) # NoReport
        /\ Fault(IF result[s] # NoReport THEN "report" ELSE "event")
        /\ Raises(h, "error")
        /\ MirrorIfAllowed(h, Stored(s))
  /\ UNCHANGED <<result, quota, target>>

\* Mutant of RefuseRerun: a recovered attempt without a report is rejected,
\* as if no earlier attempt could have written.
RefuseRerunAsRejection(h) ==
  /\ At(h, "lookup") /\ Mirrored(host[h].sub) = NoReport
  /\ host[h].recovered
  /\ NotFound(host[h].sub)
  /\ Becomes(h, [host[h] EXCEPT !.pc = "ran", !.recovered = FALSE,
                   !.outcome = [status |-> "rejected", effect |-> "unknown"]])
  /\ UNCHANGED <<storeVars, result, quota, target>>

\* UnknownCommitError: an earlier attempt left no report.
RefuseRerun(h) ==
  /\ At(h, "lookup") /\ Mirrored(host[h].sub) = NoReport
  /\ host[h].recovered
  /\ NotFound(host[h].sub)
  /\ Raises(h, "error")
  /\ UNCHANGED <<storeVars, result, quota, target>>

\* Stopped before the run: the envelope does not qualify, cancellation was seen
\* while waiting for the artifact workspace, or some other check raises.
StopBeforeRun(h) ==
  /\ At(h, "lookup")
  /\ \/ Raises(h, "rejected") /\ UNCHANGED faults
     \/ host[h].cancel /\ Raises(h, "stopped") /\ UNCHANGED faults
     \/ Fault("runner") /\ Raises(h, "error")
  /\ UNCHANGED <<storeVars, result, quota, target>>

BeginEtl(h) ==
  LET s == host[h].sub IN
  /\ At(h, "lookup") /\ Mirrored(s) = NoReport
  /\ ~host[h].recovered
  /\ NotFound(s)
  /\ target' = [target EXCEPT ![s].runs = @ + 1]
  /\ Becomes(h, [host[h] EXCEPT !.pc = "etl"])
  /\ UNCHANGED <<storeVars, result, quota>>

CommitTarget(h) ==
  /\ At(h, "etl") /\ ~target[host[h].sub].committed
  /\ target' = [target EXCEPT ![host[h].sub].committed = TRUE]
  /\ UNCHANGED <<storeVars, host, result, quota, faults>>

\* What the runtime may report of the run that now ends.
Truthful(h, r) ==
  /\ r.effect = "committed" => target[host[h].sub].committed
  /\ r.effect = "none" => ~target[host[h].sub].committed
  /\ r.status = "cancelled" => host[h].cancel

\* The runtime stores its report; the adapter then stores the enriched one and
\* publishes the event, and an error of either is the outcome.
EndEtl(h, r) ==
  /\ At(h, "etl") /\ Truthful(h, r)
  /\ \/ /\ result' = [result EXCEPT ![host[h].sub] = r]
        /\ \/ Returns(h, r) /\ UNCHANGED <<storeVars, faults>>
           \/ Raises(h, "error") /\ Fault("event") /\ UNCHANGED storeVars
           \/ Raises(h, "error") /\ Fault("report") /\ MirrorIfAllowed(h, r)
     \/ /\ Fault("report")
        /\ MirrorReport(h, r)
        /\ UNCHANGED result
  /\ UNCHANGED <<quota, target>>

EtlRaises(h) ==
  /\ At(h, "etl")
  /\ Fault("runner")
  /\ Raises(h, "error")
  /\ UNCHANGED <<storeVars, result, quota, target>>

---------------------------------------------------------------------------
(* Closing the attempt.                                                    *)

\* A report decides the effect and the outcome, except that a run told to
\* cancel is only believed when it reports that it cancelled.
Classified(h) ==
  /\ host[h].outcome \in Report
  /\ host[h].cancel => host[h].outcome.status = "cancelled"

Effect(h) == IF Classified(h) THEN host[h].outcome.effect ELSE "unknown"

Verdict(h) ==
  LET how == host[h].outcome.status IN
  CASE Classified(h) -> IF how = "succeeded" THEN "completed" ELSE how
    [] how = "stopped" -> "cancelled"
    [] how = "rejected" /\ ~host[h].recovered -> "failed"
    [] OTHER -> "lost"

Acknowledged == <<"finish", "publish", "release">>

\* Mutant of ClosingSteps: a recovered cancellation records no effect.
ClosingStepsWithoutRecovery(h) ==
  CASE host[h].outcome.status = "stopped" -> <<"quota">> \o Acknowledged
    [] host[h].outcome.status = "rejected" /\ ~host[h].recovered -> <<"quota">> \o Acknowledged
    [] OTHER -> <<"effect", "quota">> \o Acknowledged

\* Mutant of ClosingSteps: the outbox is acknowledged before the quota.
ClosingStepsPublishFirst(h) ==
  <<"effect", "finish", "publish", "quota", "release">>

\* The order of the closing calls.  Stops before the run have no effect of
\* their own, but a recovered one still answers for the earlier attempts.
ClosingSteps(h) ==
  CASE host[h].outcome.status = "stopped" ->
         (IF host[h].recovered THEN <<"quota", "effect">> ELSE <<"quota">>)
           \o Acknowledged
    [] host[h].outcome.status = "rejected" /\ ~host[h].recovered -> <<"quota">> \o Acknowledged
    [] OTHER -> <<"effect", "quota">> \o Acknowledged

\* A host that lost its lease leaves the item to the new holder.
Conclude(h) ==
  /\ At(h, "ran")
  /\ IF host[h].lost
     THEN NextItem(h)
     ELSE Becomes(h, [host[h] EXCEPT !.pc = "closing", !.steps = ClosingSteps(h)])
  /\ UNCHANGED <<storeVars, result, quota, target, faults>>

Closes(h, step) == At(h, "closing") /\ host[h].steps # <<>> /\ Head(host[h].steps) = step

StepDone(h) == Becomes(h, [host[h] EXCEPT !.steps = Tail(@)])

Evidence(h) == IF Effect(h) = "committed" THEN "idempotency" ELSE "no_evidence"

\* A refused unknown effect is let pass if the commit is already confirmed.
ReceiptAllows(h) ==
  \/ Store!EffectMayBecome(effect[host[h].sub], Effect(h), Evidence(h))
  \/ ~Classified(h) /\ effect[host[h].sub] = "committed"

MayRecordEffect(h) ==
  Store!MayRecordAttemptEffect(host[h].sub, host[h].attempt, OwnerOf[h], host[h].token)

CloseEffect(h) ==
  LET s == host[h].sub IN
  /\ Closes(h, "effect")
  /\ IF MayRecordEffect(h) /\ Store!EffectMayBecome(effect[s], Effect(h), Evidence(h))
     THEN /\ Store!RecordAttemptEffect(s, host[h].attempt, OwnerOf[h], host[h].token,
                                       Effect(h), Evidence(h))
          /\ StepDone(h)
     ELSE /\ IF ~Classified(h) /\ effect[s] = "committed"
             THEN StepDone(h) ELSE TickRaises(h)
          /\ UNCHANGED storeVars
  /\ UNCHANGED <<result, quota, target, faults>>

\* If the release fails the item stays in the outbox for a later attempt.
CloseQuota(h) ==
  /\ Closes(h, "quota")
  /\ \/ /\ quota' = [quota EXCEPT ![host[h].sub] = FALSE]
        /\ StepDone(h)
        /\ UNCHANGED faults
     \/ /\ Fault("quota")
        /\ Becomes(h, [host[h] EXCEPT !.steps = <<"release">>])
        /\ UNCHANGED quota
  /\ UNCHANGED <<storeVars, result, target>>

CloseFinish(h) ==
  LET s == host[h].sub
      n == host[h].attempt
  IN
  /\ Closes(h, "finish")
  /\ IF Store!MayFinish(s, OwnerOf[h], host[h].token)
     THEN /\ IF n \in Store!Running(s)
             THEN Store!FinishAttempt(s, n, OwnerOf[h], host[h].token, Verdict(h))
             ELSE UNCHANGED storeVars
          /\ StepDone(h)
     ELSE TickRaises(h) /\ UNCHANGED storeVars
  /\ UNCHANGED <<result, quota, target, faults>>

ClosePublish(h) ==
  /\ Closes(h, "publish")
  /\ Acknowledge(host[h].sub)
  /\ StepDone(h)
  /\ UNCHANGED <<result, quota, target, faults>>

CloseRelease(h) ==
  /\ Closes(h, "release")
  /\ IF Holds(h) THEN Store!ReleaseLease(host[h].sub, OwnerOf[h], host[h].token)
                 ELSE UNCHANGED storeVars
  /\ NextItem(h)
  /\ UNCHANGED <<result, quota, target, faults>>

---------------------------------------------------------------------------
TickNext(h) ==
  \/ BeginTick(h) \/ ScanTerminal(h) \/ CleanupAck(h) \/ ScanPending(h)
  \/ ScanResults(h) \/ MarkResult(h)
  \/ EndTick(h) \/ ListAttempts(h) \/ StartAttempt(h)
  \/ \E s \in Submission :
       \/ CleanupQuota(h, s) \/ SkipResult(h, s) \/ Acquire(h, s)
       \/ \E n \in DOMAIN attempts[s] : PublishResult(h, s, n)

RunNext(h) ==
  \/ RecoverReport(h) \/ RefuseRerun(h) \/ StopBeforeRun(h) \/ BeginEtl(h)
  \/ CommitTarget(h) \/ EtlRaises(h)
  \/ \E r \in Report : EndEtl(h, r)

CloseNext(h) ==
  \/ Conclude(h) \/ CloseEffect(h) \/ CloseQuota(h) \/ CloseFinish(h)
  \/ ClosePublish(h) \/ CloseRelease(h)

\* The host's own thread.
HostNext(h) == TickNext(h) \/ RunNext(h) \/ CloseNext(h)

MonitorNext(h) == Heartbeat(h) \/ MonitorSeesCancel(h) \/ MonitorLosesLease(h)

Environment ==
  \/ \E s \in Submission :
       Submit(s) \/ RequestCancel(s) \/ ProviderConfirms(s) \/ Elapse(s)
  \/ \E h \in Host : Crash(h) \/ Restart(h)

Next == Environment \/ \E h \in Host : HostNext(h) \/ MonitorNext(h)

Spec == Init /\ [][Next]_vars

\* Hosts that are up keep polling, runs end, and a lease nobody works under
\* runs out.  Nothing obliges clients, monitors, providers or faults to act.
Fairness ==
  /\ \A h \in Host : WF_vars(HostNext(h))
  /\ \A s \in Submission : WF_vars(Elapse(s) /\ ~Attended(s))

FairSpec == Spec /\ Fairness

---------------------------------------------------------------------------
(* Safety.                                                                 *)

\* Whatever crashes, stalls, outages, cancellations and takeovers happen, the
\* ETL of an accepted submission is started at most once: a recovering host
\* reuses the report of an earlier attempt or refuses to run.
EtlAtMostOnce == \A s \in Submission : target[s].runs <= 1

\* The effect receipt never lies about the target: a closed submission whose
\* run committed says committed or unknown, and committed is only said of a
\* target that did commit, however the run, its reports and its hosts ended.
EffectsAreHonest ==
  \A s \in Submission :
    /\ effect[s] = "committed" => target[s].committed
    /\ status[s] \in Store!Terminal /\ target[s].committed
         => effect[s] \in {"committed", "unknown"}

\* A mirrored report is marked delivered only when its readers can have it.
DeliveredIsStored ==
  \A s \in Submission :
    \A n \in DOMAIN attempts[s] : attempts[s][n].delivered => result[s] # NoReport

\* The outbox row is the only reminder to release the concurrency reservation:
\* no path acknowledges it before the release is durable.
NoQuotaLeak == \A s \in Submission : outbox[s] = "published" => ~quota[s]

\* A host that runs ETL under its live lease still has the reservation.
QuotaCoversRun ==
  \A h \in Host : At(h, "etl") /\ Holds(h) => quota[host[h].sub]

\* execution_host.py promises to preserve a stronger receipt a provider wrote
\* before or during recovery, and to let the finalization decide.  So a host
\* whose attempt runs under its live lease is never thrown out of its tick by
\* the receipt it finds.
ReceiptNeverBlocksClosing ==
  \A h \in Host : Closes(h, "effect") /\ MayRecordEffect(h) => ReceiptAllows(h)

---------------------------------------------------------------------------
(* The abstract promise, and the hosts as an implementation of it.         *)

Phase(s) == CASE status[s] \in Store!NonTerminal -> "open"
              [] OTHER -> status[s]

RunState(s) == IF target[s].committed THEN "committed"
               ELSE IF target[s].runs > 0 THEN "begun" ELSE "never"

Once == INSTANCE OnceExecution WITH
          phase   <- [s \in Submission |-> Phase(s)],
          run     <- [s \in Submission |-> RunState(s)],
          receipt <- effect

\* Ticks, leases, monitors, crashes and takeovers together execute each
\* submission once, with a receipt that covers even a run that outlives it.
ImplementsOnce == Once!OnceSpec

---------------------------------------------------------------------------
(* Liveness.                                                               *)

\* Accepted work is resolved and acknowledged, its quota released, as long as
\* some host keeps running.
AcceptedIsResolved ==
  \A s \in Submission :
    status[s] = "accepted" ~> status[s] \in Store!Terminal /\ outbox[s] = "published"

\* A requested cancellation takes effect.
CancelTakesEffect ==
  \A s \in Submission : status[s] = "cancel_requested" ~> status[s] = "cancelled"

\* A report that only the durable work store has is brought to its readers,
\* even after its submission closed.
MirroredIsDelivered ==
  \A s \in Submission : Mirrored(s) # NoReport ~> result[s] # NoReport
============================================================================
