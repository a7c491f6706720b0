---------------------------- MODULE DurableWork ----------------------------
(***************************************************************************)
(* The durable work store of the control plane: accepted submissions and   *)
(* their outbox rows, TTL leases with fencing tokens, attempts, the        *)
(* authoritative "<submission>:execution" effect receipt, the mirrored     *)
(* run results and the namespaced checkpoints.                             *)
(*                                                                         *)
(* Every operation of the store runs under one lock (the SQL provider runs *)
(* the same code inside one transaction), so each is one action here.  The *)
(* callers are arbitrary: Next lets any owner call any operation with any  *)
(* token, fresh or stale.  A call the store refuses changes nothing and is *)
(* no step.  Wall-clock time appears only as the remaining life of a lease.*)
(***************************************************************************)
EXTENDS Naturals, Sequences, FiniteSets

CONSTANTS
  Submission,      \* submission identities
  Owner,           \* lease owner identities (worker processes)
  NoOwner,         \* owner of a lease that was never granted
  Report,          \* fingerprints of run reports
  NoReport,        \* no report mirrored for an attempt
  Checkpoint,      \* namespaced checkpoint identities
  NoSubmission,    \* submission of a checkpoint that was never written
  TTL,             \* life of a fresh or renewed lease, in ticks
  AdmissionLimit,  \* admission_limit: open submissions per tenant
  EffectInput,     \* effect statuses the callers report
  MaxToken,        \* bound: fencing tokens granted per submission
  MaxVersion       \* bound: checkpoint versions

EffectStatus == {"none", "pending", "committed", "not_committed", "failed",
                 "unknown"}
Evidence     == {"no_evidence", "idempotency", "reconciliation"}

ASSUME StoreAssumption ==
  /\ TTL \in Nat \ {0}
  /\ AdmissionLimit \in Nat
  /\ EffectInput \subseteq EffectStatus
  /\ MaxToken \in Nat
  /\ MaxVersion \in Nat
  /\ NoOwner \notin Owner
  /\ NoReport \notin Report
  /\ NoSubmission \notin Submission

VARIABLES
  status,      \* submission -> lifecycle status
  outbox,      \* submission -> its outbox row
  lease,       \* submission -> current lease record, expired ones included
  attempts,    \* submission -> attempts in start order
  effect,      \* submission -> authoritative execution effect receipt
  checkpoint   \* checkpoint -> version and the attempt that wrote it

vars == <<status, outbox, lease, attempts, effect, checkpoint>>

---------------------------------------------------------------------------
Runnable    == {"accepted", "dispatched"}
NonTerminal == Runnable \cup {"cancel_requested"}
Terminal    == {"cancelled", "completed", "failed"}

AttemptStatus == {"running", "completed", "failed", "cancelled", "lost"}

LeaseRecord == [owner : Owner \cup {NoOwner}, token : Nat, left : 0..TTL]

AttemptRecord == [owner : Owner, token : Nat, status : AttemptStatus,
                  report : Report \cup {NoReport}, delivered : BOOLEAN]

CheckpointRecord == [version : Nat, submission : Submission \cup {NoSubmission},
                     attempt : Nat]

TypeOK ==
  /\ status \in [Submission -> NonTerminal \cup Terminal \cup {"absent"}]
  /\ outbox \in [Submission -> {"absent", "pending", "published"}]
  /\ lease \in [Submission -> LeaseRecord]
  /\ attempts \in [Submission -> Seq(AttemptRecord)]
  /\ effect \in [Submission -> EffectStatus \cup {"absent"}]
  /\ checkpoint \in [Checkpoint -> CheckpointRecord]

Init ==
  /\ status = [s \in Submission |-> "absent"]
  /\ outbox = [s \in Submission |-> "absent"]
  /\ lease = [s \in Submission |-> [owner |-> NoOwner, token |-> 0, left |-> 0]]
  /\ attempts = [s \in Submission |-> <<>>]
  /\ effect = [s \in Submission |-> "absent"]
  /\ checkpoint = [c \in Checkpoint |->
                     [version |-> 0, submission |-> NoSubmission, attempt |-> 0]]

---------------------------------------------------------------------------
(* What the guards of the operations are made of.                          *)

Live(s) == lease[s].left > 0

\* _require_lease
HoldsLease(s, o, t) ==
  /\ lease[s].owner = o
  /\ lease[s].token = t
  /\ Live(s)

Running(s) == {n \in DOMAIN attempts[s] : attempts[s][n].status = "running"}

InFlight == {s \in Submission : status[s] \in NonTerminal}

\* The attempts with every running one marked lost.
Retired(s) ==
  [n \in DOMAIN attempts[s] |->
     IF n \in Running(s) THEN [attempts[s][n] EXCEPT !.status = "lost"]
                         ELSE attempts[s][n]]

MayAcquire(s, o) ==
  /\ status[s] \in Runnable
  /\ Live(s) => lease[s].owner = o

\* Mutant of MayStart: a running attempt of the same fence is superseded too.
MayStartIgnoringRunning(s, o, t) ==
  /\ HoldsLease(s, o, t)
  /\ status[s] \in Runnable

\* Mutant of MayStart: the live lease is the owner's, its token is not compared.
MayStartByOwner(s, o, t) ==
  /\ lease[s].owner = o /\ Live(s)
  /\ status[s] \in Runnable
  /\ \A n \in Running(s) : attempts[s][n].token < t

MayStart(s, o, t) ==
  /\ HoldsLease(s, o, t)
  /\ status[s] \in Runnable
  /\ \A n \in Running(s) : attempts[s][n].token < t

\* Once cancellation is requested the holder may finish on an expired lease.
MayFinish(s, o, t) ==
  /\ lease[s].owner = o
  /\ lease[s].token = t
  /\ status[s] = "cancel_requested" \/ Live(s)

\* A committed receipt is final; an unknown one moves only on evidence.
EffectMayBecome(old, new, evidence) ==
  /\ old = "committed" => new = "committed"
  /\ old = "unknown" =>
       \/ new = "unknown"
       \/ new = "committed" /\ evidence # "no_evidence"
       \/ /\ new \in {"none", "not_committed", "failed"}
          /\ evidence = "reconciliation"

OwnsAttempt(s, n, o, t) ==
  /\ n \in DOMAIN attempts[s]
  /\ attempts[s][n].owner = o
  /\ attempts[s][n].token = t

MayRecordAttemptEffect(s, n, o, t) ==
  /\ OwnsAttempt(s, n, o, t)
  /\ n \in Running(s)
  /\ status[s] \notin Terminal
  /\ HoldsLease(s, o, t)

\* Mutant of MayRecordResult: the lease is checked, the attempt's fence is not.
MayRecordResultOfAnyAttempt(s, n, o, t, r) ==
  /\ HoldsLease(s, o, t)
  /\ n \in DOMAIN attempts[s]
  /\ attempts[s][n].delivered => attempts[s][n].report = r

MayRecordResult(s, n, o, t, r) ==
  /\ HoldsLease(s, o, t)
  /\ OwnsAttempt(s, n, o, t)
  /\ attempts[s][n].delivered => attempts[s][n].report = r

---------------------------------------------------------------------------
(* Acceptance, publication and cancellation.                               *)

\* The call that creates the submission; a replay of its key writes nothing.
Accept(s) ==
  /\ status[s] = "absent"
  /\ Cardinality(InFlight) < AdmissionLimit
  /\ status' = [status EXCEPT ![s] = "accepted"]
  /\ outbox' = [outbox EXCEPT ![s] = "pending"]
  /\ UNCHANGED <<lease, attempts, effect, checkpoint>>

MarkPublished(s) ==
  /\ outbox[s] = "pending"
  /\ outbox' = [outbox EXCEPT ![s] = "published"]
  /\ status' = [status EXCEPT ![s] = IF @ = "accepted" THEN "dispatched" ELSE @]
  /\ UNCHANGED <<lease, attempts, effect, checkpoint>>

\* Queued work has no owner to wake, so its lease is expired at once.
CancelSubmission(s) ==
  /\ status[s] \in NonTerminal
  /\ status' = [status EXCEPT ![s] = "cancel_requested"]
  /\ lease' = IF Running(s) = {} THEN [lease EXCEPT ![s].left = 0] ELSE lease
  /\ UNCHANGED <<outbox, attempts, effect, checkpoint>>

ReconcileTerminalOutbox(S) ==
  /\ \A s \in S : outbox[s] = "pending" /\ status[s] \in Terminal
  /\ outbox' = [s \in Submission |-> IF s \in S THEN "published" ELSE outbox[s]]
  /\ UNCHANGED <<status, lease, attempts, effect, checkpoint>>

Reconcilable == {s \in Submission : status[s] = "cancel_requested" /\ ~Live(s)}

\* Mutant of ReconcileCancelled: running attempts are left running.
ReconcileForgettingAttempts(S, ack) ==
  /\ S \subseteq Reconcilable
  /\ status' = [s \in Submission |-> IF s \in S THEN "cancelled" ELSE status[s]]
  /\ UNCHANGED <<outbox, lease, attempts, effect, checkpoint>>

\* Mutant of ReconcileCancelled: lost attempts leave no effect receipt.
ReconcileForgettingEffects(S, ack) ==
  /\ S \subseteq Reconcilable
  /\ status' = [s \in Submission |-> IF s \in S THEN "cancelled" ELSE status[s]]
  /\ attempts' = [s \in Submission |-> IF s \in S THEN Retired(s) ELSE attempts[s]]
  /\ UNCHANGED <<outbox, lease, effect, checkpoint>>

\* Finalize the cancellations in S, acknowledging their outbox rows if ack.
ReconcileCancelled(S, ack) ==
  /\ S \subseteq Reconcilable
  /\ status' = [s \in Submission |-> IF s \in S THEN "cancelled" ELSE status[s]]
  /\ attempts' = [s \in Submission |-> IF s \in S THEN Retired(s) ELSE attempts[s]]
  /\ effect' = [s \in Submission |->
                  IF s \in S /\ Running(s) # {} /\ effect[s] # "committed"
                  THEN "unknown" ELSE effect[s]]
  /\ outbox' = [s \in Submission |->
                  IF ack /\ s \in S THEN "published" ELSE outbox[s]]
  /\ UNCHANGED <<lease, checkpoint>>

---------------------------------------------------------------------------
(* Leases.                                                                 *)

\* The live lease of the same owner keeps its token, any other grant fences.
NextToken(s, o) == IF Live(s) THEN lease[s].token ELSE lease[s].token + 1

AcquireLease(s, o) ==
  /\ MayAcquire(s, o)
  /\ NextToken(s, o) <= MaxToken
  /\ lease' = [lease EXCEPT ![s] =
                 [owner |-> o, token |-> NextToken(s, o), left |-> TTL]]
  /\ UNCHANGED <<status, outbox, attempts, effect, checkpoint>>

Heartbeat(s, o, t) ==
  /\ status[s] \in Runnable
  /\ HoldsLease(s, o, t)
  /\ lease' = [lease EXCEPT ![s].left = TTL]
  /\ UNCHANGED <<status, outbox, attempts, effect, checkpoint>>

\* The expired record stays as a tombstone that keeps the token.
ReleaseLease(s, o, t) ==
  /\ HoldsLease(s, o, t)
  /\ lease' = [lease EXCEPT ![s].left = 0]
  /\ UNCHANGED <<status, outbox, attempts, effect, checkpoint>>

Elapse(s) ==
  /\ Live(s)
  /\ lease' = [lease EXCEPT ![s].left = @ - 1]
  /\ UNCHANGED <<status, outbox, attempts, effect, checkpoint>>

---------------------------------------------------------------------------
(* Attempts, their effect receipts, results and checkpoints.               *)

NewAttempt(o, t) == [owner |-> o, token |-> t, status |-> "running",
                     report |-> NoReport, delivered |-> FALSE]

StartAttempt(s, o, t) ==
  /\ MayStart(s, o, t)
  /\ attempts' = [attempts EXCEPT ![s] = Append(Retired(s), NewAttempt(o, t))]
  /\ UNCHANGED <<status, outbox, lease, effect, checkpoint>>

\* Mutant of FinishAttempt: the attempt's outcome is taken for the submission's.
FinishAttemptRawOutcome(s, n, o, t, outcome) ==
  /\ MayFinish(s, o, t)
  /\ n \in Running(s)
  /\ attempts' = [attempts EXCEPT ![s][n].status = outcome]
  /\ status' = [status EXCEPT ![s] = outcome]
  /\ UNCHANGED <<outbox, lease, effect, checkpoint>>

\* Finishing an attempt that no longer runs returns it and changes nothing.
FinishAttempt(s, n, o, t, outcome) ==
  LET acknowledgesCancel ==
        outcome = "cancelled" \/ status[s] = "cancel_requested"
  IN
  /\ MayFinish(s, o, t)
  /\ n \in Running(s)
  /\ attempts' = [attempts EXCEPT ![s][n].status =
                    IF acknowledgesCancel THEN "cancelled" ELSE outcome]
  /\ status' = [status EXCEPT ![s] =
                  IF acknowledgesCancel THEN "cancelled"
                  ELSE IF outcome = "completed" THEN "completed" ELSE "failed"]
  /\ UNCHANGED <<outbox, lease, effect, checkpoint>>

RecordAttemptEffect(s, n, o, t, e, evidence) ==
  /\ MayRecordAttemptEffect(s, n, o, t)
  /\ EffectMayBecome(effect[s], e, evidence)
  /\ effect' = [effect EXCEPT ![s] = e]
  /\ UNCHANGED <<status, outbox, lease, attempts, checkpoint>>

\* An operator or provider reports the effect outside any attempt.
RecordEffect(s, e, evidence) ==
  /\ status[s] # "absent"
  /\ EffectMayBecome(effect[s], e, evidence)
  /\ effect' = [effect EXCEPT ![s] = e]
  /\ UNCHANGED <<status, outbox, lease, attempts, checkpoint>>

RecordResult(s, n, o, t, r) ==
  /\ MayRecordResult(s, n, o, t, r)
  /\ attempts' = [attempts EXCEPT ![s][n].report = r]
  /\ UNCHANGED <<status, outbox, lease, effect, checkpoint>>

MarkResultPublished(s, n, r) ==
  /\ n \in DOMAIN attempts[s]
  /\ attempts[s][n].report = r /\ r # NoReport
  /\ attempts' = [attempts EXCEPT ![s][n].delivered = TRUE]
  /\ UNCHANGED <<status, outbox, lease, effect, checkpoint>>

\* Mutant of CompareAndSwapCheckpoint: any attempt of the submission may write.
CompareAndSwapByAnyAttempt(c, expected, s, n, t) ==
  /\ checkpoint[c].version = expected
  /\ status[s] \in Runnable
  /\ HoldsLease(s, attempts[s][n].owner, t)
  /\ checkpoint[c].submission \in {NoSubmission, s}
  /\ expected < MaxVersion
  /\ checkpoint' = [checkpoint EXCEPT ![c] =
                      [version |-> expected + 1, submission |-> s, attempt |-> n]]
  /\ UNCHANGED <<status, outbox, lease, attempts, effect>>

\* compare_and_swap_checkpoint, fenced by the given token, not the attempt's
CompareAndSwapCheckpoint(c, expected, s, n, t) ==
  /\ checkpoint[c].version = expected
  /\ n \in Running(s)
  /\ status[s] \in Runnable
  /\ HoldsLease(s, attempts[s][n].owner, t)
  /\ checkpoint[c].submission \in {NoSubmission, s}
  /\ expected < MaxVersion
  /\ checkpoint' = [checkpoint EXCEPT ![c] =
                      [version |-> expected + 1, submission |-> s, attempt |-> n]]
  /\ UNCHANGED <<status, outbox, lease, attempts, effect>>

---------------------------------------------------------------------------
Token == 1..MaxToken
Outcome == AttemptStatus \ {"running"}

LeaseNext(s) ==
  \/ Elapse(s)
  \/ \E o \in Owner :
       \/ AcquireLease(s, o)
       \/ \E t \in Token : Heartbeat(s, o, t) \/ ReleaseLease(s, o, t)

AttemptNext(s) ==
  \E o \in Owner, t \in Token :
    \/ StartAttempt(s, o, t)
    \/ \E n \in DOMAIN attempts[s] :
         \/ \E outcome \in Outcome : FinishAttempt(s, n, o, t, outcome)
         \/ \E e \in EffectInput, v \in Evidence :
              RecordAttemptEffect(s, n, o, t, e, v)
         \/ \E r \in Report : RecordResult(s, n, o, t, r)

CommandNext(s) ==
  \/ Accept(s)
  \/ MarkPublished(s)
  \/ CancelSubmission(s)
  \/ \E e \in EffectInput, v \in Evidence : RecordEffect(s, e, v)
  \/ \E n \in DOMAIN attempts[s], r \in Report : MarkResultPublished(s, n, r)
  \/ \E n \in DOMAIN attempts[s], t \in Token, c \in Checkpoint,
        v \in 0..MaxVersion : CompareAndSwapCheckpoint(c, v, s, n, t)

SweepNext ==
  \E S \in SUBSET Submission :
    \/ ReconcileTerminalOutbox(S)
    \/ \E ack \in BOOLEAN : ReconcileCancelled(S, ack)

Next ==
  \/ \E s \in Submission : CommandNext(s) \/ LeaseNext(s) \/ AttemptNext(s)
  \/ SweepNext

Spec == Init /\ [][Next]_vars

---------------------------------------------------------------------------
(* Safety.                                                                 *)

\* However leases expire and owners race, start_attempt never leaves two
\* attempts of a submission running, and the only one that can run is the
\* newest: fencing tokens strictly increase along the attempt history and
\* never exceed the token of the lease record.
AttemptsAreFenced ==
  \A s \in Submission :
    /\ \A n \in DOMAIN attempts[s] : attempts[s][n].token <= lease[s].token
    /\ \A m, n \in DOMAIN attempts[s] :
         m < n => attempts[s][m].token < attempts[s][n].token
    /\ Running(s) \subseteq {Len(attempts[s])}

\* finish_attempt and reconcile_cancelled_submissions resolve a submission and
\* its attempts together: an open submission that was ever started is running
\* its newest attempt, and a terminal one runs nothing.
ResolvedTogether ==
  \A s \in Submission :
    /\ status[s] \in Terminal => Running(s) = {}
    /\ status[s] \in NonTerminal /\ attempts[s] # <<>>
         => Len(attempts[s]) \in Running(s)

\* A submission is completed exactly when one of its attempts completed, so a
\* cancellation that won the race never hides a completed attempt.
CompletionAgrees ==
  \A s \in Submission :
    status[s] = "completed" <=>
      \E n \in DOMAIN attempts[s] : attempts[s][n].status = "completed"

\* A cancellation that abandoned a started attempt leaves a receipt: what that
\* attempt may have written is never recorded as nothing at all.
AbandonedRunHasReceipt ==
  \A s \in Submission :
    \A n \in DOMAIN attempts[s] :
      status[s] = "cancelled" /\ n = Len(attempts[s])
        /\ attempts[s][n].status = "lost" => effect[s] # "absent"

\* accept keeps the tenant's open submissions within admission_limit.
AdmissionRespected == Cardinality(InFlight) <= AdmissionLimit

---------------------------------------------------------------------------
(* What a step may never do.                                               *)

\* A requested cancellation ends in cancelled or stays requested, whatever
\* outcome the worker reports, and a terminal submission never changes again.
CancelSticks ==
  [][\A s \in Submission :
       /\ status[s] = "cancel_requested"
            => status'[s] \in {"cancel_requested", "cancelled"}
       /\ status[s] \in Terminal => status'[s] = status[s]]_vars

\* Once a newer attempt has started, no call of the older attempt's worker
\* (finish, result publication, checkpoint) changes the older attempt: only the
\* delivery mark of a result it had already mirrored may still be set.
SupersededIsInert ==
  [][\A s \in Submission :
       \A n \in DOMAIN attempts[s] :
         n < Len(attempts[s]) =>
           [attempts'[s][n] EXCEPT !.delivered = FALSE] =
             [attempts[s][n] EXCEPT !.delivered = FALSE]]_vars

\* A committed effect receipt is never downgraded, by workers, operators or the
\* cancellation sweep.
CommittedIsFinal ==
  [][\A s \in Submission : effect[s] = "committed" => effect'[s] = "committed"]_vars

\* A checkpoint stays with the submission that first wrote it and is never
\* written by an attempt older than its last writer.
CheckpointMovesForward ==
  [][\A c \in Checkpoint :
       /\ checkpoint[c].submission # NoSubmission =>
            checkpoint'[c].submission = checkpoint[c].submission
       /\ checkpoint'[c].attempt >= checkpoint[c].attempt]_vars

\* DURABLE_WORK.md: "The attempt must hold the current lease and fencing token
\* for every terminal write": an attempt that completes or fails carries the
\* token of the lease it is finished under.
TerminalWriteByOwnFence ==
  [][\A s \in Submission :
       \A n \in Running(s) :
         attempts'[s][n].status \in {"completed", "failed"} =>
           attempts[s][n].token = lease[s].token]_vars
---------------------------------------------------------------------------
(* The abstract promise, and the store as an implementation of it.         *)

Phase(s) == CASE status[s] \in Runnable -> "open"
              [] status[s] = "cancel_requested" -> "cancelling"
              [] OTHER -> status[s]

WorkerFence(s) ==
  IF Running(s) = {} THEN 0 ELSE attempts[s][Len(attempts[s])].token

Fenced == INSTANCE FencedExecution WITH
            phase  <- [s \in Submission |-> Phase(s)],
            fence  <- [s \in Submission |-> lease[s].token],
            worker <- [s \in Submission |-> WorkerFence(s)]

\* Seen through its fence, its running attempt and its phase, the store with
\* all its leases, expiries, sweeps and stale callers is the fenced execution.
ImplementsFencing == Fenced!FencedSpec
============================================================================
