-------------------------- MODULE ManagedAdmission --------------------------
(***************************************************************************)
(* How the managed service accepts one command: submit_run, called once or *)
(* several times with the same idempotency key, overlapping, retried or    *)
(* crashed.  Three stores must agree on the outcome: the quota provider    *)
(* (QuotaProvider), the control-plane receipt store (CP1) and the durable  *)
(* work store (CP3, one row of DurableWork).  Each is durable on its own,  *)
(* so an attempt that fails between two of them compensates, recovers what *)
(* another attempt left, or reports that the outcome is uncertain.  Each   *)
(* call to a store is a step.                                              *)
(*                                                                         *)
(* The intent, plan and inputs of the command are the same in all attempts;*)
(* what differs between their envelopes is the reservation they name.  The *)
(* plan reads an uploaded input, whose lease has an identity that all      *)
(* attempts derive from the command, and so one lease is shared.           *)
(***************************************************************************)
EXTENDS Naturals, Sequences, FiniteSets

CONSTANTS
  Attempt,          \* calls of submit_run with the key
  NoClaim,
  Faults,           \* kinds of fault that may happen
  MaxFaults,        \* bound: faults in a behaviour
  MaxReservations   \* bound: reservations made for the command

FaultKind == {"crash", "admit", "receipt", "durable", "read", "cancel", "release"}

ASSUME AdmissionAssumption ==
  /\ NoClaim \notin Attempt
  /\ Faults \subseteq FaultKind
  /\ MaxFaults \in Nat
  /\ MaxReservations \in Nat

VARIABLES
  usage, reservations,   \* the quota provider, one workspace and one key
  cp1,      \* the receipt: its run's status and the reservation it names
  cp3,      \* the durable row: its status, reservation and how it came about
  leased,   \* the lease that keeps the command's inputs is held
  call,     \* attempt -> its thread: program counter and locals
  user,     \* the client that cancels the run
  faults    \* faults so far

vars == <<usage, reservations, cp1, cp3, leased, call, user, faults>>
quotaVars == <<usage, reservations>>
storeVars == <<cp1, cp3, leased>>

Quota == INSTANCE QuotaProvider WITH
           Scope <- {"ws"}, ScopeOrder <- <<"ws">>, Weight <- [s \in {"ws"} |-> 1],
           Key <- {"key"}, Claim <- Attempt, Units <- {1}, Limit <- 1,
           unkeyed <- [s \in {"ws"} |-> 0], blocked <- [s \in {"ws"} |-> {}],
           pressure <- 0 > 1, cursor <- 0

Reservations == reservations["ws"]["key"]
ChargedFor(g) == ~Reservations[g].released

---------------------------------------------------------------------------
Open == {"open", "cancelling"}

Step == {"idle", "looked", "gate", "inputs", "guard", "receipt", "receipt_error",
         "durable", "durable_error", "cancel_receipt", "look_again", "cancel_durable",
         "release_inputs", "abandon", "rebind", "check", "readmit", "recheck", "restore",
         "last_check", "undo", "done"}

Result == {"none", "accepted", "rejected", "uncertain", "crashed"}

CallState == [pc : Step,
              seen : Nat,         \* reservation named by the receipt it read, 0 for none
              mine : Nat,         \* reservation it holds a claim on, 0 for none
              created : BOOLEAN,  \* its receipt is a new one
              definite : BOOLEAN, \* the store refused rather than failed
              result : Result]

TypeOK ==
  /\ Quota!TypeOK
  /\ cp1 \in [status : {"absent", "accepted", "cancel_requested"}, names : Nat]
  /\ cp3 \in [status : {"absent", "closed", "settled"} \cup Open, names : Nat,
              via : {"none", "created", "replayed", "recovered"}]
  /\ leased \in BOOLEAN
  /\ call \in [Attempt -> CallState]
  /\ user \in {"idle", "cancelled", "acknowledged"}
  /\ faults \in 0..MaxFaults

Init ==
  /\ Quota!Init
  /\ cp1 = [status |-> "absent", names |-> 0]
  /\ cp3 = [status |-> "absent", names |-> 0, via |-> "none"]
  /\ leased = FALSE
  /\ call = [a \in Attempt |-> [pc |-> "idle", seen |-> 0, mine |-> 0, created |-> FALSE,
                                definite |-> FALSE, result |-> "none"]]
  /\ user = "idle"
  /\ faults = 0

---------------------------------------------------------------------------
(* Shorthands.                                                             *)

At(a, pc) == call[a].pc = pc

Goto(a, pc) == call' = [call EXCEPT ![a].pc = pc]

Ends(a, result) == call' = [call EXCEPT ![a].pc = "done", ![a].result = result]

Fault(kind) ==
  /\ kind \in Faults
  /\ faults < MaxFaults
  /\ faults' = faults + 1

\* The store call raised; definite when the store refused the command.
Raises(a, pc, definite) ==
  call' = [call EXCEPT ![a].pc = pc, ![a].definite = definite]

\* quotas.admit with this attempt's claim, joining or making a reservation.
Admit(a) == Quota!Join("ws", "key", 1, a) \/ Quota!Reserve("ws", "key", 1, a)

AdmittedTo == Len(reservations'["ws"]["key"])

---------------------------------------------------------------------------
(* Lookup of what earlier attempts left.                                   *)

LookupReceipt(a) ==
  /\ At(a, "idle")
  /\ call' = [call EXCEPT ![a].pc = "looked", ![a].seen = cp1.names]
  /\ UNCHANGED <<quotaVars, storeVars, user, faults>>

LookupDurable(a) ==
  /\ At(a, "looked")
  /\ CASE call[a].seen > 0 /\ cp3.status # "absent" -> Ends(a, "accepted")
       [] call[a].seen > 0 /\ cp3.status = "absent" -> Goto(a, "check")
       [] call[a].seen = 0 /\ cp3.status # "absent" -> Goto(a, "rebind")
       [] OTHER -> Goto(a, "gate")
  /\ UNCHANGED <<quotaVars, storeVars, user, faults>>

\* The receipt was not there yet when it was looked for, the row was: the
\* receipt of the row's own envelope is accepted, or found.
Rebind(a) ==
  /\ At(a, "rebind")
  /\ cp1' = IF cp1.status = "absent"
            THEN [status |-> "accepted", names |-> cp3.names] ELSE cp1
  /\ Ends(a, IF cp1'.names = cp3.names THEN "accepted" ELSE "rejected")
  /\ UNCHANGED <<quotaVars, cp3, leased, user, faults>>

---------------------------------------------------------------------------
(* A new command: gate, inputs, receipt, durable row.                      *)

\* gate_pre_submit; when it raises, the claim is given back under the admission
\* key, which is no reservation's, and so stays if it was registered.
Gate(a) ==
  /\ At(a, "gate")
  /\ \/ /\ Admit(a)
        /\ call' = [call EXCEPT ![a].pc = "inputs", ![a].mine = AdmittedTo]
        /\ UNCHANGED faults
     \/ Ends(a, "rejected") /\ UNCHANGED <<quotaVars, faults>>
     \/ Admit(a) /\ Fault("admit") /\ Ends(a, "uncertain")
  /\ UNCHANGED <<storeVars, user>>

\* _protect_input_resources may refuse, and then leases nothing.
ProtectInputs(a) ==
  /\ At(a, "inputs")
  /\ \/ leased' = TRUE /\ Goto(a, "guard")
     \/ UNCHANGED leased /\ Goto(a, "abandon")
  /\ UNCHANGED <<quotaVars, cp1, cp3, user, faults>>

\* The preparation job or the schedule occurrence this attempt works for may
\* have been cancelled or taken over.
AcceptanceGuard(a) ==
  /\ At(a, "guard")
  /\ Goto(a, "receipt") \/ Goto(a, "release_inputs")
  /\ UNCHANGED <<quotaVars, storeVars, user, faults>>

PutReceipt(a) ==
  IF cp1.status = "absent"
  THEN cp1' = [status |-> "accepted", names |-> call[a].mine] ELSE UNCHANGED cp1

\* The same envelope is answered with the receipt that exists, another envelope
\* is refused.  An acknowledgement may be lost before or after the commit.
AcceptReceipt(a) ==
  /\ At(a, "receipt")
  /\ \/ /\ cp1.status = "absent" \/ cp1.names = call[a].mine
        /\ PutReceipt(a)
        /\ call' = [call EXCEPT ![a].pc = "durable", ![a].created = cp1.status = "absent"]
        /\ UNCHANGED faults
     \/ /\ cp1.status # "absent" /\ cp1.names # call[a].mine
        /\ Raises(a, "receipt_error", TRUE)
        /\ UNCHANGED <<cp1, faults>>
     \/ /\ Fault("receipt")
        /\ Raises(a, "receipt_error", FALSE)
        /\ PutReceipt(a) \/ UNCHANGED cp1
  /\ UNCHANGED <<quotaVars, cp3, leased, user>>

\* Mutant of ReconcileReceipt: a receipt that is found is not compared.
ReconcileAnyReceipt(a) ==
  /\ At(a, "receipt_error")
  /\ IF cp1.status # "absent" THEN Goto(a, "durable") ELSE Ends(a, "uncertain")
  /\ UNCHANGED <<quotaVars, storeVars, user, faults>>

\* A receipt that is found stands for the lost acknowledgement.  A read that
\* fails too counts as none found.
ReconcileReceipt(a) ==
  /\ At(a, "receipt_error")
  /\ \/ /\ cp1.status # "absent"
        /\ UNCHANGED faults
        /\ Goto(a, IF cp1.names = call[a].mine THEN "durable" ELSE "release_inputs")
     \/ /\ IF cp1.status = "absent" THEN UNCHANGED faults ELSE Fault("read")
        /\ IF call[a].definite THEN Goto(a, "release_inputs") ELSE Ends(a, "uncertain")
  /\ UNCHANGED <<quotaVars, storeVars, user>>

\* The row that durable_work.accept makes for an attempt, if there is none.
PutRow(g, via) ==
  IF cp3.status = "absent"
  THEN cp3' = [status |-> "open", names |-> g, via |-> via] ELSE UNCHANGED cp3

\* durable_work.accept: a row of the same envelope is answered, another one
\* refused; a new one may be refused by the route or by admission_limit.
AcceptDurable(g, via, accepted, refused, failed) ==
  \/ /\ cp3.status = "absent" \/ cp3.names = g
     /\ PutRow(g, via)
     /\ accepted
     /\ UNCHANGED faults
  \/ /\ cp3.status = "absent" \/ cp3.names # g
     /\ refused
     /\ UNCHANGED <<cp3, faults>>
  \/ /\ Fault("durable")
     /\ failed
     /\ PutRow(g, via) \/ UNCHANGED cp3

AcceptRow(a) ==
  /\ At(a, "durable")
  /\ AcceptDurable(call[a].mine, IF call[a].created THEN "created" ELSE "replayed",
                   Ends(a, "accepted"),
                   Raises(a, "durable_error", TRUE), Raises(a, "durable_error", FALSE))
  /\ UNCHANGED <<quotaVars, cp1, leased, user>>

---------------------------------------------------------------------------
(* Compensation of a new command the durable store did not take.           *)

\* Only the creator of the receipt compensates, and only a definite refusal.
ReconcileRow(a) ==
  /\ At(a, "durable_error")
  /\ \/ Fault("read") /\ Ends(a, "uncertain")
     \/ /\ UNCHANGED faults
        /\ CASE cp3.status # "absent" ->
                  Ends(a, IF cp3.names = call[a].mine THEN "accepted" ELSE "rejected")
             [] cp3.status = "absent" /\ ~call[a].definite -> Ends(a, "uncertain")
             [] OTHER -> IF call[a].created THEN Goto(a, "cancel_receipt")
                                            ELSE Ends(a, "rejected")
  /\ UNCHANGED <<quotaVars, storeVars, user>>

CancelledReceipt == [cp1 EXCEPT !.status = IF @ = "accepted" THEN "cancel_requested" ELSE @]

\* _cancel_cp1
CancelReceipt(a) ==
  /\ At(a, "cancel_receipt")
  /\ \/ cp1' = CancelledReceipt /\ Goto(a, "look_again") /\ UNCHANGED faults
     \/ UNCHANGED cp1 /\ Ends(a, "uncertain") /\ Fault("cancel")
  /\ UNCHANGED <<quotaVars, cp3, leased, user>>

\* A concurrent attempt may have reached the durable store meanwhile.
LookAgain(a) ==
  /\ At(a, "look_again")
  /\ \/ /\ Goto(a, IF cp3.status = "absent" THEN "release_inputs" ELSE "cancel_durable")
        /\ UNCHANGED faults
     \/ Ends(a, "uncertain") /\ Fault("read")
  /\ UNCHANGED <<quotaVars, storeVars, user>>

CancelledRow == [cp3 EXCEPT !.status = IF @ = "open" THEN "cancelling" ELSE @]

\* cancel_submission, its error suppressed.
CancelRowSuppressed ==
  \/ cp3' = CancelledRow /\ UNCHANGED faults
  \/ UNCHANGED cp3 /\ Fault("cancel")

CancelDurable(a) ==
  /\ At(a, "cancel_durable")
  /\ CancelRowSuppressed
  /\ Goto(a, "release_inputs")
  /\ UNCHANGED <<quotaVars, cp1, leased, user>>

\* _release_input_lease; an error is suppressed, or raised by the paths of the
\* guard and of the compensation.
ReleaseInputs(a) ==
  /\ At(a, "release_inputs")
  /\ \/ leased' = FALSE /\ Goto(a, "abandon") /\ UNCHANGED faults
     \/ UNCHANGED leased /\ Fault("release") /\ Goto(a, "abandon")
     \/ UNCHANGED leased /\ Fault("release") /\ Ends(a, "uncertain")
  /\ UNCHANGED <<quotaVars, cp1, cp3, user>>

\* Mutant of AbandonClaim: the compensation omits its claim_id.
AbandonReservation(a) ==
  /\ At(a, "abandon")
  /\ IF ChargedFor(call[a].mine) THEN Quota!Release("ws", "key", call[a].mine)
                                 ELSE UNCHANGED quotaVars
  /\ Ends(a, "rejected")
  /\ UNCHANGED <<storeVars, user, faults>>

\* _release_quota_reservation with this attempt's claim.  An error is suppressed,
\* but leaves the outcome of a compensated receipt open.
AbandonClaim(a) ==
  /\ At(a, "abandon")
  /\ \/ /\ IF a \in Reservations[call[a].mine].claims
           THEN Quota!Abandon("ws", "key", call[a].mine, a) ELSE UNCHANGED quotaVars
        /\ Ends(a, "rejected")
        /\ UNCHANGED faults
     \/ /\ Fault("release")
        /\ Ends(a, IF call[a].created THEN "uncertain" ELSE "rejected")
        /\ UNCHANGED quotaVars
  /\ UNCHANGED <<storeVars, user>>

---------------------------------------------------------------------------
(* Recovery of a receipt without a durable row.                            *)

\* require_live_receipt, and where its verdict leads.
RequireLiveReceipt(live, dead) ==
  IF cp1.status = "accepted" THEN live ELSE dead

CheckReceipt(a) ==
  /\ At(a, "check")
  /\ RequireLiveReceipt(Goto(a, "readmit"), Ends(a, "rejected"))
  /\ UNCHANGED <<quotaVars, storeVars, user, faults>>

\* The receipt's own reservation must be the one that is charged still.
Readmit(a) ==
  /\ At(a, "readmit")
  /\ \/ /\ Admit(a)
        /\ call' = [call EXCEPT ![a].mine = AdmittedTo,
                      ![a].pc = IF AdmittedTo = call[a].seen THEN "recheck" ELSE "abandon"]
     \/ Ends(a, "rejected") /\ UNCHANGED quotaVars
  /\ UNCHANGED <<storeVars, user, faults>>

\* The acceptance guard of a schedule may refuse as well.
RecheckReceipt(a) ==
  /\ At(a, "recheck")
  /\ RequireLiveReceipt(Goto(a, "restore") \/ Goto(a, "abandon"), Goto(a, "abandon"))
  /\ UNCHANGED <<quotaVars, storeVars, user, faults>>

RestoreRow(a) ==
  /\ At(a, "restore")
  /\ AcceptDurable(call[a].seen, "recovered",
                   Goto(a, "last_check"), Goto(a, "abandon"), Ends(a, "uncertain"))
  /\ UNCHANGED <<quotaVars, cp1, leased, user>>

\* Mutant of LastCheck: the restored row is not checked against the receipt.
NoLastCheck(a) ==
  /\ At(a, "last_check")
  /\ Ends(a, "accepted")
  /\ UNCHANGED <<quotaVars, storeVars, user, faults>>

LastCheck(a) ==
  /\ At(a, "last_check")
  /\ RequireLiveReceipt(Ends(a, "accepted"), Goto(a, "undo"))
  /\ UNCHANGED <<quotaVars, storeVars, user, faults>>

\* The row keeps its reservation until its worker cleans up.
UndoRow(a) ==
  /\ At(a, "undo")
  /\ CancelRowSuppressed
  /\ Ends(a, "rejected")
  /\ UNCHANGED <<quotaVars, cp1, leased, user>>

---------------------------------------------------------------------------
(* Crashes, the worker of the row, and the client that cancels the run.    *)

Crash(a) ==
  /\ ~At(a, "idle") /\ ~At(a, "done")
  /\ Fault("crash")
  /\ Ends(a, "crashed")
  /\ UNCHANGED <<quotaVars, storeVars, user>>

WorkerCloses ==
  /\ cp3.status \in Open
  /\ cp3' = [cp3 EXCEPT !.status = "closed"]
  /\ UNCHANGED <<quotaVars, cp1, leased, call, user, faults>>

\* The worker releases the reservation its envelope names, then acknowledges.
WorkerSettles ==
  /\ cp3.status = "closed"
  /\ IF ChargedFor(cp3.names) THEN Quota!Release("ws", "key", cp3.names)
                              ELSE UNCHANGED quotaVars
  /\ cp3' = [cp3 EXCEPT !.status = "settled"]
  /\ UNCHANGED <<cp1, leased, call, user, faults>>

\* cancel_run: the durable store first; without a row nothing is acknowledged.
UserCancels ==
  /\ user = "idle" /\ cp1.status # "absent"
  /\ cp3.status \in Open
  /\ cp3' = CancelledRow
  /\ user' = "cancelled"
  /\ UNCHANGED <<quotaVars, cp1, leased, call, faults>>

UserCancelsReceipt ==
  /\ user = "cancelled"
  /\ cp1' = CancelledReceipt
  /\ user' = "acknowledged"
  /\ UNCHANGED <<quotaVars, cp3, leased, call, faults>>

---------------------------------------------------------------------------
CallNext(a) ==
  \/ LookupReceipt(a) \/ LookupDurable(a) \/ Rebind(a) \/ Gate(a) \/ ProtectInputs(a)
  \/ AcceptanceGuard(a) \/ ReleaseInputs(a)
  \/ AcceptReceipt(a) \/ ReconcileReceipt(a) \/ AcceptRow(a) \/ ReconcileRow(a)
  \/ CancelReceipt(a) \/ LookAgain(a) \/ CancelDurable(a) \/ AbandonClaim(a)
  \/ CheckReceipt(a) \/ Readmit(a) \/ RecheckReceipt(a) \/ RestoreRow(a)
  \/ LastCheck(a) \/ UndoRow(a)

Environment ==
  \/ \E a \in Attempt : Crash(a)
  \/ WorkerCloses \/ WorkerSettles \/ UserCancels \/ UserCancelsReceipt

Next == Environment \/ \E a \in Attempt : CallNext(a)

Spec == Init /\ [][Next]_vars

---------------------------------------------------------------------------
(* Safety.                                                                 *)

\* However attempts overlap, fail, compensate, recover or crash, work that the
\* durable store accepted keeps its reservation charged until its worker
\* settles it: nobody's compensation uncharges it, and no receipt is restored
\* on a reservation that was released.
AcceptedIsCharged ==
  cp3.status \in Open \cup {"closed"} => ChargedFor(cp3.names)

\* The durable row and the receipt name the same reservation, so that the
\* worker releases what the receipt's admission charged.
RowMatchesReceipt ==
  cp3.status # "absent" => cp1.status # "absent" /\ cp1.names = cp3.names

\* All attempts ended with an answer, none of them lost or unsure of the outcome.
Answered == \A a \in Attempt : call[a].result \in {"accepted", "rejected"}

\* The last check of a recovery and the second look of a compensation close
\* either order of the receipt's cancellation and the row's acceptance: work
\* restored from a cancelled receipt is cancelled as well.
RecoveredIsFenced ==
  Answered /\ faults = 0 /\ cp1.status = "cancel_requested" /\ cp3.status = "open"
    => cp3.via = "replayed"

\* The same for every row, however it came about: once all attempts are answered,
\* a command whose receipt was cancelled is not left to run.
CompensatedNeverRuns ==
  Answered /\ faults = 0 /\ cp1.status = "cancel_requested" => cp3.status # "open"

\* MIGRATION_0_55_TO_0_56.md: compensating releases abandon their attempt and
\* "decrement usage only when no owners remain".  Once all attempts are answered
\* and the receipt was cancelled without a durable row, no owner remains.
CompensatedIsFree ==
  Answered /\ faults = 0 /\ cp1.status = "cancel_requested" /\ cp3.status = "absent"
    => usage["ws"] = 0

\* input_resources.py: a lease protects "one accepted, retryable or replayable
\* input reference".  Work that waits for its worker has its inputs leased.
AcceptedInputsAreLeased == cp3.status = "open" => leased
============================================================================
