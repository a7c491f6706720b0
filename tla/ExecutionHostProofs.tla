------------------------ MODULE ExecutionHostProofs ------------------------
(***************************************************************************)
(* Proofs about the execution hosts, for any number of hosts, owner        *)
(* identities (also shared ones), submissions, faults and tokens.  What    *)
(* the store promises comes from DurableWorkProofs, instantiated with the  *)
(* hosts' store.                                                           *)
(***************************************************************************)
EXTENDS ExecutionHost, SequenceTheorems, FiniteSetTheorems, WellFoundedInduction, TLAPS

SP == INSTANCE DurableWorkProofs WITH
        Checkpoint <- {}, checkpoint <- <<>>,
        AdmissionLimit <- Cardinality(Submission),
        EffectInput <- {"none", "committed", "unknown"}, MaxVersion <- 0

---------------------------------------------------------------------------
(* The inductive invariant.                                                *)

Started == {"lookup", "etl", "ran", "closing"}
Busy == {"leased", "listed"} \cup Started

\* What is still to be called, at any point of a closing.
ClosingLists ==
  { <<"effect", "quota", "finish", "publish", "release">>,
    <<"quota", "effect", "finish", "publish", "release">>,
    <<"quota", "finish", "publish", "release">>,
    <<"effect", "finish", "publish", "release">>,
    <<"finish", "publish", "release">>,
    <<"publish", "release">>,
    <<"release">> }

Ahead(h, step) == \E i \in DOMAIN host[h].steps : host[h].steps[i] = step

MayBegin(h) == host[h].pc = "lookup" /\ ~host[h].recovered

\* The one ETL run of s has ended.
Over(s) ==
  /\ target[s].runs = 1
  /\ \A h \in Host : host[h].sub = s => host[h].pc # "etl"

\* What the report r says of the run of s is so, and stays so.
Truth(s, r) ==
  /\ Over(s)
  /\ r.effect = "committed" => target[s].committed
  /\ r.effect = "none" => ~target[s].committed

\* Nothing was written, nothing will be, and the receipt says so.
Quiet(s) ==
  /\ ~target[s].committed
  /\ target[s].runs = 0 \/ effect[s] = "none"
  /\ \A h \in Host : host[h].sub = s => host[h].pc # "etl" /\ ~MayBegin(h)

Settled(s) == effect[s] \in {"committed", "unknown"} \/ Quiet(s)

RunOnce(s) ==
  /\ target[s].runs <= 1
  /\ target[s].committed => target[s].runs = 1
  /\ target[s].runs = 1 => attempts[s] # <<>>

ReportsTrue(s) ==
  /\ result[s] # NoReport => Truth(s, result[s])
  /\ \A n \in DOMAIN attempts[s] :
       /\ attempts[s][n].report # NoReport => Truth(s, attempts[s][n].report)
       /\ attempts[s][n].delivered => result[s] # NoReport

ReceiptTrue(s) ==
  /\ effect[s] \in {"absent", "none", "committed", "unknown"}
  /\ effect[s] = "committed" => target[s].committed
  /\ effect[s] = "none" => Over(s) /\ ~target[s].committed
  /\ status[s] \in Store!Terminal => Settled(s)

Charged(s) ==
  /\ outbox[s] = "published" => ~quota[s]
  /\ status[s] \in Store!NonTerminal /\ attempts[s] = <<>> => quota[s]

LeaseOK(s) == lease[s].left > 0 => lease[s].token \in 1..MaxToken

SubmissionOK(s) ==
  RunOnce(s) /\ ReportsTrue(s) /\ ReceiptTrue(s) /\ Charged(s) /\ LeaseOK(s)

\* What a host knows of the items it visits.
ItemOK(h) ==
  LET s == host[h].sub IN
  /\ host[h].pc \in Busy \cup {"ack", "mark"} => s \in Submission /\ status[s] # "absent"
  /\ host[h].pc \in Busy => host[h].token \in 1..MaxToken /\ host[h].token <= lease[s].token
  /\ host[h].pc = "listed" /\ ~host[h].recovered =>
       \A n \in DOMAIN attempts[s] :
         n = Len(attempts[s]) => attempts[s][n].token >= host[h].token
  /\ host[h].pc = "listed" /\ host[h].recovered => attempts[s] # <<>>
  /\ host[h].pc = "mark" => result[s] # NoReport /\ host[h].attempt \in DOMAIN attempts[s]
  /\ host[h].pc \in {"cleanup", "ack"} => \A u \in host[h].todo : status[u] \in Store!Terminal
  /\ host[h].pc = "ack" => ~quota[s]

\* The attempt a host started is its own, and the first one if it found none.
AttemptOK(h) ==
  LET s == host[h].sub
      n == host[h].attempt
  IN host[h].pc \in Started =>
       /\ n \in DOMAIN attempts[s]
       /\ attempts[s][n].token = host[h].token
       /\ attempts[s][n].owner = OwnerOf[h]
       /\ host[h].recovered <=> n # 1

OutcomeOK(h) ==
  LET s == host[h].sub
      r == host[h].outcome
  IN host[h].pc \in {"ran", "closing"} =>
       /\ r \in Report => Truth(s, r)
       /\ r \notin Report => r \in Raised
       /\ r.status \in {"stopped", "rejected"} /\ ~host[h].recovered => target[s].runs = 0

ClosingOK(h) ==
  LET s == host[h].sub IN
  host[h].pc = "closing" =>
    /\ host[h].steps \in ClosingLists
    /\ Ahead(h, "publish") /\ ~Ahead(h, "quota") => ~quota[s]
    /\ Ahead(h, "finish") /\ ~Ahead(h, "effect")
         /\ attempts[s][host[h].attempt].status = "running" => Settled(s)

\* How far the run of a host's attempt is.
StageOK(h) ==
  /\ MayBegin(h) => target[host[h].sub].runs = 0
  /\ host[h].pc = "etl" => target[host[h].sub].runs = 1 /\ ~host[h].recovered
  /\ OutcomeOK(h)
  /\ ClosingOK(h)

\* Work that may still write under its lease is open and charged.
Covered(h) ==
  (host[h].pc = "etl" \/ MayBegin(h)) /\ Holds(h) =>
    quota[host[h].sub] /\ status[host[h].sub] \notin Store!Terminal

\* No two hosts work on one attempt.
OneEach ==
  \A g, h \in Host :
    g # h /\ host[g].pc \in Started /\ host[h].pc \in Started /\ host[g].sub = host[h].sub
      => host[g].attempt # host[h].attempt

HostTypes ==
  /\ host \in [Host -> HostState]
  /\ result \in [Submission -> Report \cup {NoReport}]
  /\ quota \in [Submission -> BOOLEAN]
  /\ target \in [Submission -> [runs : Nat, committed : BOOLEAN]]
  /\ faults \in 0..MaxFaults

HostOK(h) == ItemOK(h) /\ AttemptOK(h) /\ StageOK(h) /\ Covered(h)

IInv ==
  /\ SP!Inv
  /\ HostTypes
  /\ \A s \in Submission : SubmissionOK(s)
  /\ \A h \in Host : HostOK(h)
  /\ OneEach

---------------------------------------------------------------------------
(* The store underneath.                                                   *)

\* The hosts' parameters are parameters of a store.
LEMMA HostStore == SP!StoreAssumption
BY HostAssumption, FS_CardinalityType DEF SP!StoreAssumption, SP!EffectStatus

\* The instance of the proofs speaks of the same store.
LEMMA SameTypes ==
  SP!TypeOK <=> Store!TypeOK
BY DEF SP!TypeOK, Store!TypeOK, SP!NonTerminal, Store!NonTerminal, SP!Runnable,
   Store!Runnable, SP!Terminal, Store!Terminal, SP!LeaseRecord, Store!LeaseRecord,
   SP!AttemptRecord, Store!AttemptRecord, SP!AttemptStatus, Store!AttemptStatus,
   SP!EffectStatus, Store!EffectStatus, SP!CheckpointRecord, Store!CheckpointRecord

\* What the history of a submission is like (DurableWorkProofs).
HistoryOK(s) ==
  /\ attempts[s] \in Seq(Store!AttemptRecord)
  /\ Len(attempts[s]) \in Nat
  /\ DOMAIN attempts[s] = 1..Len(attempts[s])
  /\ attempts[s] = <<>> <=> Len(attempts[s]) = 0
  /\ \A n \in DOMAIN attempts[s] :
       /\ attempts[s][n] \in Store!AttemptRecord
       /\ attempts[s][n].token \in Nat
       /\ attempts[s][n].token <= lease[s].token
       /\ attempts[s][n].status = "running" => n = Len(attempts[s])
       /\ attempts[s][n].report \in Report \cup {NoReport}
  /\ \A m, n \in DOMAIN attempts[s] : m < n => attempts[s][m].token < attempts[s][n].token
  /\ status[s] \in Store!Terminal =>
       \A n \in DOMAIN attempts[s] : attempts[s][n].status # "running"
  /\ status[s] \in Store!NonTerminal /\ attempts[s] # <<>> =>
       attempts[s][Len(attempts[s])].status = "running"
  /\ status[s] = "absent" => attempts[s] = <<>>
  /\ status[s] \in Store!NonTerminal \cup Store!Terminal \cup {"absent"}
  /\ lease[s] \in Store!LeaseRecord
  /\ lease[s].token \in Nat

\* From the invariant of the store.
LEMMA HistoryHolds ==
  ASSUME SP!Inv, NEW s \in Submission
  PROVE  HistoryOK(s)
<1>1. Store!TypeOK /\ SP!TypeOK
  BY SameTypes DEF SP!Inv
<1>2. /\ attempts[s] \in Seq(Store!AttemptRecord) /\ lease[s] \in Store!LeaseRecord
      /\ status[s] \in Store!NonTerminal \cup Store!Terminal \cup {"absent"}
  BY <1>1 DEF Store!TypeOK
<1>3. /\ Len(attempts[s]) \in Nat
      /\ DOMAIN attempts[s] = 1..Len(attempts[s])
      /\ attempts[s] = <<>> <=> Len(attempts[s]) = 0
      /\ lease[s].token \in Nat
      /\ \A n \in 1..Len(attempts[s]) : attempts[s][n].token \in Nat
  BY <1>1, HostStore, SP!HistoryFacts
<1>4. \A n \in DOMAIN attempts[s] :
        attempts[s][n] \in Store!AttemptRecord /\ attempts[s][n].report \in Report \cup {NoReport}
  <2>1. \A n \in DOMAIN attempts[s] : attempts[s][n] \in Store!AttemptRecord
    BY <1>2, <1>3
  <2> QED
    BY <2>1 DEF Store!AttemptRecord
<1>5. /\ \A n \in DOMAIN attempts[s] :
           /\ attempts[s][n].token <= lease[s].token
           /\ attempts[s][n].status = "running" => n = Len(attempts[s])
      /\ \A m, n \in DOMAIN attempts[s] : m < n => attempts[s][m].token < attempts[s][n].token
  BY DEF SP!Inv, SP!AttemptsAreFenced, SP!Running
<1>6. /\ status[s] \in Store!Terminal =>
           \A n \in DOMAIN attempts[s] : attempts[s][n].status # "running"
      /\ status[s] \in Store!NonTerminal /\ attempts[s] # <<>> =>
           attempts[s][Len(attempts[s])].status = "running"
  BY DEF SP!Inv, SP!ResolvedTogether, SP!Running, SP!Terminal, SP!NonTerminal, SP!Runnable,
         Store!Terminal, Store!NonTerminal, Store!Runnable
<1>7. status[s] = "absent" => attempts[s] = <<>>
  BY DEF SP!Inv, SP!Unstarted
<1> QED
  BY <1>2, <1>3, <1>4, <1>5, <1>6, <1>7 DEF HistoryOK

\* The calls the hosts make are operations of the store.
LEMMA StoreCalls ==
  ASSUME NEW s \in Submission
  PROVE  /\ Store!Accept(s) => SP!Next
         /\ Store!MarkPublished(s) => SP!Next
         /\ Store!CancelSubmission(s) => SP!Next
         /\ Store!Elapse(s) => SP!Next
         /\ \A e \in {"none", "committed", "unknown"}, v \in Store!Evidence :
              Store!RecordEffect(s, e, v) => SP!Next
         /\ \A n \in DOMAIN attempts[s], r \in Report :
              Store!MarkResultPublished(s, n, r) => SP!Next
<1>1. Store!Accept(s) => SP!Next
  <2>1. Store!InFlight = SP!InFlight
    BY DEF Store!InFlight, SP!InFlight, Store!NonTerminal, SP!NonTerminal, Store!Runnable,
           SP!Runnable
  <2>2. Store!Accept(s) => SP!Accept(s)
    BY <2>1, Zenon DEF Store!Accept, SP!Accept, Store!Cardinality, SP!Cardinality
  <2> QED
    BY <2>2 DEF SP!CommandNext, SP!Next
<1>2. Store!MarkPublished(s) => SP!Next
  BY DEF Store!MarkPublished, SP!MarkPublished, SP!CommandNext, SP!Next
<1>3. Store!CancelSubmission(s) => SP!Next
  <2>1. Store!CancelSubmission(s) => SP!CancelSubmission(s)
    BY DEF Store!CancelSubmission, SP!CancelSubmission, Store!Running, SP!Running,
           Store!NonTerminal, SP!NonTerminal, Store!Runnable, SP!Runnable
  <2> QED
    BY <2>1 DEF SP!CommandNext, SP!Next
<1>4. Store!Elapse(s) => SP!Next
  <2>1. Store!Elapse(s) => SP!Elapse(s)
    BY DEF Store!Elapse, SP!Elapse, Store!Live, SP!Live
  <2> QED
    BY <2>1 DEF SP!LeaseNext, SP!Next
<1>5. ASSUME NEW e \in {"none", "committed", "unknown"}, NEW v \in Store!Evidence,
             Store!RecordEffect(s, e, v)
      PROVE  SP!Next
  <2>1. SP!RecordEffect(s, e, v) /\ v \in SP!Evidence
    BY <1>5 DEF Store!RecordEffect, SP!RecordEffect, Store!EffectMayBecome,
           SP!EffectMayBecome, Store!Evidence, SP!Evidence
  <2> QED
    BY <2>1 DEF SP!CommandNext, SP!Next
<1>6. ASSUME NEW n \in DOMAIN attempts[s], NEW r \in Report, Store!MarkResultPublished(s, n, r)
      PROVE  SP!Next
  <2>1. SP!MarkResultPublished(s, n, r)
    BY <1>6 DEF Store!MarkResultPublished, SP!MarkResultPublished
  <2> QED
    BY <2>1 DEF SP!CommandNext, SP!Next
<1> QED
  BY <1>1, <1>2, <1>3, <1>4, <1>5, <1>6

\* The same for the calls that are made under a lease.
LEMMA FencedCalls ==
  ASSUME NEW s \in Submission, NEW o \in Owner, NEW t \in 1..MaxToken
  PROVE  /\ Store!Heartbeat(s, o, t) => SP!Next
         /\ Store!ReleaseLease(s, o, t) => SP!Next
         /\ Store!StartAttempt(s, o, t) => SP!Next
         /\ \A n \in DOMAIN attempts[s] :
              /\ \A outcome \in Store!Outcome : Store!FinishAttempt(s, n, o, t, outcome) => SP!Next
              /\ \A e \in {"none", "committed", "unknown"}, v \in Store!Evidence :
                   Store!RecordAttemptEffect(s, n, o, t, e, v) => SP!Next
              /\ \A r \in Report : Store!RecordResult(s, n, o, t, r) => SP!Next
<1> USE DEF SP!Token, Store!HoldsLease, SP!HoldsLease, Store!Live, SP!Live, Store!Running,
            SP!Running, Store!Runnable, SP!Runnable
<1>1. Store!Heartbeat(s, o, t) => SP!Next
  BY DEF Store!Heartbeat, SP!Heartbeat, SP!LeaseNext, SP!Next
<1>2. Store!ReleaseLease(s, o, t) => SP!Next
  BY DEF Store!ReleaseLease, SP!ReleaseLease, SP!LeaseNext, SP!Next
<1>3. Store!StartAttempt(s, o, t) => SP!Next
  <2>1. Store!StartAttempt(s, o, t) => SP!StartAttempt(s, o, t)
    BY DEF Store!StartAttempt, SP!StartAttempt, Store!MayStart, SP!MayStart, Store!Retired,
           SP!Retired, Store!NewAttempt, SP!NewAttempt
  <2> QED
    BY <2>1 DEF SP!AttemptNext, SP!Next
<1>4. ASSUME NEW n \in DOMAIN attempts[s], NEW outcome \in Store!Outcome,
             Store!FinishAttempt(s, n, o, t, outcome)
      PROVE  SP!Next
  <2>1. SP!FinishAttempt(s, n, o, t, outcome) /\ outcome \in SP!Outcome
    BY <1>4 DEF Store!FinishAttempt, SP!FinishAttempt, Store!MayFinish, SP!MayFinish,
           Store!Outcome, SP!Outcome, Store!AttemptStatus, SP!AttemptStatus
  <2> QED
    BY <2>1 DEF SP!AttemptNext, SP!Next
<1>5. ASSUME NEW n \in DOMAIN attempts[s], NEW e \in {"none", "committed", "unknown"},
             NEW v \in Store!Evidence, Store!RecordAttemptEffect(s, n, o, t, e, v)
      PROVE  SP!Next
  <2>1. SP!RecordAttemptEffect(s, n, o, t, e, v) /\ v \in SP!Evidence
    BY <1>5 DEF Store!RecordAttemptEffect, SP!RecordAttemptEffect, Store!EffectMayBecome,
           SP!EffectMayBecome, Store!Evidence, SP!Evidence, Store!MayRecordAttemptEffect,
           SP!MayRecordAttemptEffect, Store!OwnsAttempt, SP!OwnsAttempt, Store!Terminal,
           SP!Terminal
  <2> QED
    BY <2>1 DEF SP!AttemptNext, SP!Next
<1>6. ASSUME NEW n \in DOMAIN attempts[s], NEW r \in Report, Store!RecordResult(s, n, o, t, r)
      PROVE  SP!Next
  <2>1. SP!RecordResult(s, n, o, t, r)
    BY <1>6 DEF Store!RecordResult, SP!RecordResult, Store!MayRecordResult, SP!MayRecordResult,
           Store!OwnsAttempt, SP!OwnsAttempt
  <2> QED
    BY <2>1 DEF SP!AttemptNext, SP!Next
<1> QED
  BY <1>1, <1>2, <1>3, <1>4, <1>5, <1>6

\* The grant of a lease and the sweep of expired cancellations.
LEMMA OtherCalls ==
  /\ \A s \in Submission, o \in Owner : Store!AcquireLease(s, o) => SP!Next
  /\ Store!ReconcileCancelled(Store!Reconcilable, FALSE) => SP!Next
<1>1. ASSUME NEW s \in Submission, NEW o \in Owner, Store!AcquireLease(s, o)
      PROVE  SP!Next
  <2>1. SP!AcquireLease(s, o)
    BY <1>1 DEF Store!AcquireLease, SP!AcquireLease, Store!MayAcquire, SP!MayAcquire,
           Store!NextToken, SP!NextToken, Store!Live, SP!Live, Store!Runnable, SP!Runnable
  <2> QED
    BY <2>1 DEF SP!LeaseNext, SP!Next
<1>2. ASSUME Store!ReconcileCancelled(Store!Reconcilable, FALSE)
      PROVE  SP!Next
  <2>1. Store!Reconcilable = SP!Reconcilable
    BY DEF Store!Reconcilable, SP!Reconcilable, Store!Live, SP!Live
  <2>2. \A s \in Submission : Store!Retired(s) = SP!Retired(s) /\ Store!Running(s) = SP!Running(s)
    BY DEF Store!Retired, SP!Retired, Store!Running, SP!Running
  <2>3. SP!ReconcileCancelled(SP!Reconcilable, FALSE)
    BY <1>2, <2>1, <2>2 DEF Store!ReconcileCancelled, SP!ReconcileCancelled
  <2>4. SP!Reconcilable \in SUBSET Submission
    BY DEF SP!Reconcilable
  <2> QED
    BY <2>3, <2>4, Zenon DEF SP!SweepNext, SP!Next
<1> QED
  BY <1>1, <1>2

---------------------------------------------------------------------------
(* What a step does to the run of one submission.                          *)

\* The store moves onward, in the hosts' terms.
Moves(s) ==
  /\ Len(attempts'[s]) >= Len(attempts[s])
  /\ \A n \in DOMAIN attempts[s] :
       /\ n \in DOMAIN attempts'[s]
       /\ attempts'[s][n].owner = attempts[s][n].owner
       /\ attempts'[s][n].token = attempts[s][n].token
       /\ attempts'[s][n].status = "running" => attempts[s][n].status = "running"
  /\ lease'[s].token >= lease[s].token
  /\ \A o \in Owner, t \in Nat :
       t <= lease[s].token /\ Store!HoldsLease(s, o, t)' => Store!HoldsLease(s, o, t)
  /\ status[s] # "absent" => status'[s] # "absent"
  /\ status[s] \in Store!Terminal => status'[s] = status[s]

\* Nobody begins ETL, or comes to the point of beginning it, at this step.
EtlStays(s) ==
  \A g \in Host : host'[g].sub = s /\ host'[g].pc = "etl" =>
                    host[g].sub = s /\ host[g].pc = "etl"
BeginStays(s) ==
  \A g \in Host : host'[g].sub = s /\ MayBegin(g)' => host[g].sub = s /\ MayBegin(g)

TargetMove(s) ==
  \/ target'[s] = target[s] /\ EtlStays(s)
  \/ \E g \in Host : /\ MayBegin(g) /\ host[g].sub = s /\ host'[g].pc = "etl"
                     /\ target'[s].runs = target[s].runs + 1
                     /\ target'[s].committed = target[s].committed
  \/ \E g \in Host : /\ host[g].pc = "etl" /\ host[g].sub = s
                     /\ target'[s].runs = target[s].runs
                     /\ target'[s].committed /\ EtlStays(s)

BeginMove(s) == BeginStays(s) \/ (attempts[s] = <<>> /\ status[s] \notin Store!Terminal)

EffectMove(s) ==
  \/ effect'[s] = effect[s]
  \/ effect'[s] = "unknown"
  \/ effect'[s] = "committed" /\ target[s].committed
  \/ effect'[s] = "none" /\ Over(s) /\ ~target[s].committed /\ BeginStays(s)

RunMove(s) ==
  /\ Moves(s)
  /\ result[s] # NoReport => result'[s] # NoReport
  /\ quota'[s] => quota[s] \/ (status[s] = "absent" /\ outbox'[s] # "published")
  /\ TargetMove(s) /\ BeginMove(s) /\ EffectMove(s)

ReportMove(s) ==
  /\ result'[s] = result[s] \/ Truth(s, result[s])'
  /\ \A n \in DOMAIN attempts'[s] :
       /\ \/ attempts'[s][n].report = NoReport
          \/ Truth(s, attempts[s][n].report)'
          \/ n \in DOMAIN attempts[s] /\ attempts'[s][n].report = attempts[s][n].report
       /\ attempts'[s][n].delivered =>
            \/ result'[s] # NoReport
            \/ n \in DOMAIN attempts[s] /\ attempts[s][n].delivered

ClosedMove(s) == status'[s] \in Store!Terminal => status[s] \in Store!Terminal \/ Settled(s)'

ChargeMove(s) ==
  /\ outbox'[s] = "published" => outbox[s] = "published" \/ ~quota'[s]
  /\ status'[s] \in Store!NonTerminal /\ attempts'[s] = <<>> =>
       \/ quota'[s]
       \/ status[s] \in Store!NonTerminal /\ attempts[s] = <<>> /\ quota'[s] = quota[s]

\* A new attempt is started under the newest lease.
StartMove(s) ==
  \A n \in DOMAIN attempts'[s] \ DOMAIN attempts[s] : attempts'[s][n].token >= lease[s].token

\* A submission is only closed, and its reservation released, when nobody may
\* still write under a live lease.
CoverMove(s) ==
  \/ /\ quota[s] => quota'[s]
     /\ status'[s] \in Store!Terminal => status[s] \in Store!Terminal
  \/ \A g \in Host : host'[g].sub = s /\ (host'[g].pc = "etl" \/ MayBegin(g)') => ~Holds(g)'

SubmissionMove(s) ==
  /\ RunMove(s) /\ ReportMove(s) /\ ClosedMove(s) /\ ChargeMove(s) /\ CoverMove(s)
  /\ StartMove(s) /\ LeaseOK(s)'

\* The history after a step.
LEMMA HistoryThen ==
  ASSUME SP!Inv', NEW s \in Submission
  PROVE  HistoryOK(s)'
<1>1. SP!Inv => HistoryOK(s)
  BY HistoryHolds
<1> QED
  BY <1>1, HistoryHolds, PTL

\* The store below a step of the hosts.
LEMMA StoreMoves ==
  ASSUME IInv, [SP!Next]_(SP!vars)
  PROVE  SP!Inv' /\ \A s \in Submission : Moves(s)
<1>1. SP!Inv /\ SP!Inv'
  BY HostStore, SP!InvStep DEF IInv
<1>2. ASSUME NEW s \in Submission
      PROVE  Moves(s)
  <2>1. SP!Onward(s)
    BY <1>1, HostStore, SP!StoreGoesOn
  <2> QED
    BY <2>1 DEF Moves, SP!Onward, SP!Rewrites, SP!HoldsLease, Store!HoldsLease, SP!Live,
                Store!Live, SP!Terminal, Store!Terminal
<1> QED
  BY <1>1, <1>2

\* Once the ETL is over it stays over.
LEMMA OverStays ==
  ASSUME IInv, NEW s \in Submission, RunMove(s), Over(s)
  PROVE  Over(s)' /\ target'[s] = target[s]
<1>1. \A g \in Host : MayBegin(g) /\ host[g].sub = s => target[s].runs = 0
  BY DEF IInv, HostOK, StageOK
<1>2. target'[s] = target[s] /\ EtlStays(s)
  BY <1>1 DEF RunMove, TargetMove, Over
<1> QED
  BY <1>2 DEF Over, EtlStays

LEMMA TruthStays ==
  ASSUME IInv, NEW s \in Submission, RunMove(s), NEW r, Truth(s, r)
  PROVE  Truth(s, r)'
BY OverStays DEF Truth

\* What was settled stays settled.
LEMMA SettledStays ==
  ASSUME IInv, NEW s \in Submission, RunMove(s), Settled(s),
         attempts[s] # <<>> \/ status[s] \in Store!Terminal
  PROVE  Settled(s)'
<1>1. CASE effect'[s] \in {"committed", "unknown"}
  BY <1>1 DEF Settled
<1>2. CASE effect'[s] = effect[s] /\ Quiet(s)
  <2>1. target'[s] = target[s] /\ EtlStays(s)
    BY <1>2 DEF RunMove, TargetMove, Quiet
  <2>2. BeginStays(s)
    BY DEF RunMove, BeginMove
  <2> QED
    BY <1>2, <2>1, <2>2 DEF Settled, Quiet, EtlStays, BeginStays
<1>3. CASE effect'[s] = "none" /\ Over(s) /\ ~target[s].committed /\ BeginStays(s)
  <2>1. Over(s)' /\ target'[s] = target[s]
    BY <1>3, OverStays
  <2>2. \A g \in Host : host[g].sub = s => ~MayBegin(g)
    BY <1>3 DEF IInv, HostOK, StageOK, Over
  <2> QED
    BY <1>3, <2>1, <2>2 DEF Settled, Quiet, Over, BeginStays
<1> QED
  BY <1>1, <1>2, <1>3 DEF RunMove, EffectMove, Settled

\* The submission's part of the invariant.
LEMMA SubmissionStep ==
  ASSUME IInv, SP!Inv', HostTypes', NEW s \in Submission, SubmissionMove(s)
  PROVE  SubmissionOK(s)'
<1> USE DEF SubmissionMove
<1>0. /\ SubmissionOK(s) /\ HistoryOK(s) /\ HistoryOK(s)'
      /\ target[s].runs \in Nat /\ target'[s].runs \in Nat
  BY HistoryThen, HistoryHolds DEF IInv, HostTypes
<1>1. RunOnce(s)'
  <2>1. attempts[s] # <<>> => attempts'[s] # <<>>
    BY <1>0 DEF RunMove, Moves, HistoryOK
  <2>2. ASSUME NEW g \in Host, MayBegin(g), host[g].sub = s
        PROVE  target[s].runs = 0 /\ attempts[s] # <<>> /\ ~target[s].committed
    <3>1. target[s].runs = 0 /\ host[g].attempt \in DOMAIN attempts[s]
      BY <2>2 DEF IInv, HostOK, StageOK, AttemptOK, MayBegin, Started
    <3> QED
      BY <1>0, <3>1 DEF HistoryOK, SubmissionOK, RunOnce
  <2>3. ASSUME NEW g \in Host, host[g].pc = "etl", host[g].sub = s
        PROVE  target[s].runs = 1
    BY <2>3 DEF IInv, HostOK, StageOK
  <2> QED
    BY <1>0, <2>1, <2>2, <2>3 DEF SubmissionOK, RunOnce, RunMove, TargetMove
<1>2. ReportsTrue(s)'
  <2>1. result'[s] # NoReport => Truth(s, result[s])'
    <3>1. CASE result'[s] = result[s] /\ result[s] # NoReport
      <4>1. PICK r : r = result[s]
        OBVIOUS
      <4>2. Truth(s, r)'
        BY <1>0, <3>1, <4>1, TruthStays DEF SubmissionOK, ReportsTrue
      <4> QED
        BY <3>1, <4>1, <4>2 DEF Truth
    <3> QED
      BY <3>1 DEF ReportMove
  <2>2. ASSUME NEW n \in DOMAIN attempts'[s]
        PROVE  /\ attempts'[s][n].report # NoReport => Truth(s, attempts[s][n].report)'
               /\ attempts'[s][n].delivered => result'[s] # NoReport
    <3>1. ASSUME n \in DOMAIN attempts[s], attempts[s][n].report # NoReport,
                 attempts'[s][n].report = attempts[s][n].report
          PROVE  Truth(s, attempts[s][n].report)'
      <4>1. PICK r : r = attempts[s][n].report
        OBVIOUS
      <4>2. Truth(s, r)'
        BY <1>0, <3>1, <4>1, TruthStays DEF SubmissionOK, ReportsTrue
      <4>3. attempts'[s][n].report = r
        BY <3>1, <4>1
      <4> QED
        BY <4>2, <4>3 DEF Truth
    <3>2. attempts'[s][n].report # NoReport => Truth(s, attempts[s][n].report)'
      BY <3>1 DEF ReportMove
    <3>3. attempts'[s][n].delivered => result'[s] # NoReport
      BY <1>0 DEF ReportMove, RunMove, SubmissionOK, ReportsTrue
    <3> QED
      BY <3>2, <3>3
  <2> QED
    BY <2>1, <2>2 DEF ReportsTrue
<1>3. ReceiptTrue(s)'
  <2>1. target[s].committed => target'[s].committed
    BY DEF RunMove, TargetMove
  <2>2. Over(s) => Over(s)' /\ target'[s] = target[s]
    BY OverStays
  <2>3. status'[s] \in Store!Terminal => Settled(s)'
    BY <1>0, SettledStays DEF ClosedMove, SubmissionOK, ReceiptTrue
  <2> QED
    BY <1>0, <2>1, <2>2, <2>3 DEF SubmissionOK, ReceiptTrue, RunMove, EffectMove
<1>4. Charged(s)'
  BY <1>0 DEF SubmissionOK, Charged, ChargeMove, RunMove
<1> QED
  BY <1>1, <1>2, <1>3, <1>4 DEF SubmissionOK

---------------------------------------------------------------------------
(* What a step does to the hosts.                                          *)

\* Two hosts that found no earlier attempt do not work on one submission.
LEMMA FirstIsAlone ==
  ASSUME IInv, NEW g \in Host, NEW h \in Host, host[g].sub = host[h].sub,
         host[g].pc \in Started, host[h].pc \in Started,
         ~host[g].recovered, ~host[h].recovered
  PROVE  g = h
BY DEF IInv, HostOK, AttemptOK, OneEach

\* What a host knows of its item, its attempt and its run is not disturbed by
\* what the others do.
LEMMA HostStays ==
  ASSUME IInv, SP!Inv', NEW g \in Host, host'[g] = host[g],
         \A s \in Submission : SubmissionMove(s)
  PROVE  HostOK(g)'
<1> DEFINE s == host[g].sub
<1>0. /\ ItemOK(g) /\ AttemptOK(g) /\ StageOK(g) /\ Covered(g)
      /\ \A u \in Submission : HistoryOK(u) /\ HistoryOK(u)' /\ Moves(u) /\ RunMove(u)
      /\ host'[g].sub = host[g].sub
  BY HistoryThen, HistoryHolds DEF IInv, HostOK, SubmissionMove, RunMove
<1>a. host[g].pc \in Busy \cup {"ack", "mark"} => s \in Submission /\ status[s] # "absent"
  BY <1>0 DEF ItemOK
<1>1. ItemOK(g)'
  <2>1. host[g].pc \in Busy \cup {"ack", "mark"} => status'[s] # "absent"
    BY <1>0, <1>a DEF Moves
  <2>2. host[g].pc \in Busy => host[g].token \in 1..MaxToken /\ host[g].token <= lease'[s].token
    BY <1>0, <1>a DEF ItemOK, Moves, HistoryOK
  <2>3. ASSUME host[g].pc = "listed", ~host[g].recovered,
               NEW n \in DOMAIN attempts'[s], n = Len(attempts'[s])
        PROVE  attempts'[s][n].token >= host[g].token
    <3>1. s \in Submission /\ host[g].token \in Nat /\ host[g].token <= lease[s].token
      BY <1>0, <1>a, <2>3 DEF ItemOK, Busy
    <3>2. CASE n \in DOMAIN attempts[s]
      <4>1. n = Len(attempts[s])
        BY <1>0, <2>3, <3>1, <3>2 DEF HistoryOK, Moves
      <4> QED
        BY <1>0, <2>3, <3>1, <3>2, <4>1 DEF ItemOK, Moves
    <3>3. CASE n \notin DOMAIN attempts[s]
      <4>1. attempts'[s][n].token >= lease[s].token /\ attempts'[s][n].token \in Nat
        BY <1>0, <2>3, <3>1, <3>3 DEF SubmissionMove, StartMove, HistoryOK
      <4> QED
        BY <1>0, <3>1, <4>1 DEF HistoryOK
    <3> QED
      BY <3>2, <3>3
  <2>4. host[g].pc = "listed" /\ host[g].recovered => attempts'[s] # <<>>
    BY <1>0, <1>a DEF ItemOK, Moves, HistoryOK, Busy
  <2>5. host[g].pc = "mark" => result'[s] # NoReport /\ host[g].attempt \in DOMAIN attempts'[s]
    BY <1>0, <1>a DEF ItemOK, Moves, RunMove
  <2>6. host[g].pc \in {"cleanup", "ack"} => \A u \in host[g].todo : status'[u] \in Store!Terminal
    <3>1. host[g].todo \subseteq Submission
      BY DEF IInv, HostTypes, HostState
    <3> QED
      BY <1>0, <3>1 DEF ItemOK, Moves
  <2>7. host[g].pc = "ack" => ~quota'[s]
    BY <1>0, <1>a DEF ItemOK, RunMove
  <2> QED
    BY <1>0, <1>a, <2>1, <2>2, <2>3, <2>4, <2>5, <2>6, <2>7 DEF ItemOK
<1>b. host[g].pc \in Started => s \in Submission /\ status[s] # "absent" /\ attempts[s] # <<>>
  BY <1>0, <1>a DEF Busy, AttemptOK, HistoryOK
<1>2. AttemptOK(g)'
  BY <1>0, <1>b DEF AttemptOK, Moves
<1>c. ASSUME host[g].pc \in Started, ~host[g].recovered, TargetMove(s)
      PROVE  \/ target'[s] = target[s]
             \/ host[g].pc = "etl" /\ target'[s].runs = target[s].runs
             \/ target[s].runs # 0 /\ target'[s].runs = target[s].runs
  <2>1. ASSUME NEW f \in Host, MayBegin(f), host[f].sub = s, host'[f].pc = "etl"
        PROVE  FALSE
    <3>1. f = g
      BY <1>c, <2>1, FirstIsAlone DEF MayBegin, Started
    <3> QED
      BY <2>1, <3>1 DEF MayBegin
  <2>2. ASSUME NEW f \in Host, host[f].pc = "etl", host[f].sub = s
        PROVE  target[s].runs = 1
    BY <2>2 DEF IInv, HostOK, StageOK
  <2> QED
    BY <1>c, <2>1, <2>2 DEF TargetMove
<1>3. StageOK(g)'
  <2>1. MayBegin(g)' => target'[s].runs = 0
    BY <1>0, <1>b, <1>c DEF StageOK, MayBegin, RunMove, Started
  <2>2. host[g].pc = "etl" => target'[s].runs = 1 /\ ~host[g].recovered
    BY <1>0, <1>b, <1>c DEF StageOK, RunMove, Started
  <2>3. OutcomeOK(g)'
    <3> SUFFICES ASSUME host[g].pc \in {"ran", "closing"}
                 PROVE  OutcomeOK(g)'
      BY DEF OutcomeOK
    <3>0. s \in Submission /\ RunMove(s) /\ OutcomeOK(g)
      BY <1>0, <1>b DEF Started, StageOK
    <3>1. PICK r : r = host[g].outcome
      OBVIOUS
    <3>2. r \in Report => Truth(s, r)'
      BY <3>0, <3>1, TruthStays DEF OutcomeOK
    <3>3. r.status \in {"stopped", "rejected"} /\ ~host[g].recovered => target'[s].runs = 0
      BY <3>0, <3>1, <1>c DEF OutcomeOK, RunMove, Started
    <3>4. PICK u : u = host[g].sub
      OBVIOUS
    <3>5. r \in Report => Truth(u, r)'
      BY <3>2, <3>4
    <3>6. host'[g].outcome = r /\ host'[g].sub = u
      BY <3>1, <3>4
    <3>7. r \notin Report => r \in Raised
      BY <3>0, <3>1 DEF OutcomeOK
    <3>8. r.status \in {"stopped", "rejected"} /\ ~host'[g].recovered => target'[u].runs = 0
      BY <3>3, <3>4
    <3> QED
      BY <3>5, <3>6, <3>7, <3>8 DEF OutcomeOK
  <2>4. ClosingOK(g)'
    <3> SUFFICES ASSUME host[g].pc = "closing"
                 PROVE  ClosingOK(g)'
      BY DEF ClosingOK
    <3>0. /\ s \in Submission /\ RunMove(s) /\ Moves(s) /\ ClosingOK(g) /\ AttemptOK(g)
          /\ status[s] # "absent" /\ attempts[s] # <<>>
      BY <1>0, <1>b DEF Started, StageOK
    <3>1. ~quota[s] => ~quota'[s]
      BY <3>0 DEF RunMove
    <3>2. attempts'[s][host[g].attempt].status = "running" =>
            attempts[s][host[g].attempt].status = "running"
      BY <3>0 DEF Moves, AttemptOK, Started
    <3>3. Settled(s) => Settled(s)'
      BY <3>0, SettledStays
    <3>4. PICK u : u = host[g].sub
      OBVIOUS
    <3>5. Settled(u) => Settled(u)'
      BY <3>3, <3>4
    <3>6. host'[g].sub = u /\ host'[g].pc = "closing" /\ host'[g].steps = host[g].steps
          /\ host'[g].attempt = host[g].attempt /\ host[g].sub = u
      BY <3>4
    <3>7. \A step : Ahead(g, step)' <=> Ahead(g, step)
      BY DEF Ahead
    <3> QED
      BY <3>0, <3>1, <3>2, <3>5, <3>6, <3>7 DEF ClosingOK
  <2> QED
    BY <2>1, <2>2, <2>3, <2>4 DEF StageOK
<1>4. Covered(g)'
  <2> SUFFICES ASSUME host'[g].pc = "etl" \/ MayBegin(g)', Holds(g)'
               PROVE  quota'[s] /\ status'[s] \notin Store!Terminal
    BY DEF Covered
  <2>1. s \in Submission /\ host[g].token \in Nat /\ host[g].token <= lease[s].token
    BY <1>0, <1>b DEF MayBegin, Started, Busy, ItemOK
  <2>2. OwnerOf[g] \in Owner
    BY HostAssumption
  <2>3. Holds(g)
    <3>1. PICK u, t : u = host[g].sub /\ t = host[g].token
      OBVIOUS
    <3>2. Store!HoldsLease(u, OwnerOf[g], t)'
      BY <3>1 DEF Holds
    <3>3. Store!HoldsLease(u, OwnerOf[g], t)
      BY <1>0, <2>1, <2>2, <3>1, <3>2 DEF Moves
    <3> QED
      BY <3>1, <3>3 DEF Holds
  <2>4. quota[s] /\ status[s] \notin Store!Terminal
    BY <1>0, <2>3 DEF Covered, MayBegin
  <2>5. CoverMove(s)
    BY <2>1 DEF SubmissionMove
  <2> QED
    BY <2>1, <2>4, <2>5 DEF CoverMove
<1> QED
  BY <1>1, <1>2, <1>3, <1>4 DEF HostOK

\* A step of one host, or of none, keeps the invariant.
LEMMA StepKeepsInv ==
  ASSUME IInv, SP!Inv', HostTypes', NEW h \in Host,
         \A g \in Host : g # h => host'[g] = host[g],
         \A s \in Submission : SubmissionMove(s),
         HostOK(h)',
         host'[h].pc \in Started =>
           \/ /\ host[h].pc \in Started
              /\ host'[h].sub = host[h].sub /\ host'[h].attempt = host[h].attempt
           \/ /\ host'[h].sub \in Submission
              /\ host'[h].attempt \notin DOMAIN attempts[host'[h].sub]
  PROVE  IInv'
<1>1. \A s \in Submission : SubmissionOK(s)'
  BY SubmissionStep
<1>2. \A g \in Host : HostOK(g)'
  BY HostStays
<1>3. OneEach'
  <2>1. \A g \in Host : host[g].pc \in Started => host[g].attempt \in DOMAIN attempts[host[g].sub]
    BY DEF IInv, HostOK, AttemptOK
  <2>2. OneEach
    BY DEF IInv
  <2> QED
    BY <2>1, <2>2 DEF OneEach
<1> QED
  BY <1>1, <1>2, <1>3 DEF IInv

---------------------------------------------------------------------------
(* Kinds of steps.                                                         *)

\* Only h moves, and it neither begins ETL nor comes to where it may.
Aside(h) ==
  /\ \A g \in Host : g # h => host'[g] = host[g]
  /\ host'[h].pc = "etl" => host[h].pc = "etl" /\ host'[h].sub = host[h].sub
  /\ MayBegin(h)' => MayBegin(h) /\ host'[h].sub = host[h].sub

LEMMA AsideStays ==
  ASSUME NEW h \in Host, Aside(h)
  PROVE  \A s \in Submission : EtlStays(s) /\ BeginStays(s)
BY DEF Aside, EtlStays, BeginStays, MayBegin

\* The records a step leaves alone.
SameStore(s) ==
  /\ status'[s] = status[s] /\ outbox'[s] = outbox[s] /\ effect'[s] = effect[s]
  /\ attempts'[s] = attempts[s]
SameRun(s) == result'[s] = result[s] /\ quota'[s] = quota[s] /\ target'[s] = target[s]
Calm(s) ==
  /\ SameStore(s) /\ SameRun(s)
  /\ lease'[s] = lease[s] \/ LeaseOK(s)'
  /\ EtlStays(s) /\ BeginStays(s)

\* A submission nothing was written about.
LEMMA CalmMoves ==
  ASSUME IInv, NEW s \in Submission, Moves(s), Calm(s)
  PROVE  SubmissionMove(s)
<1>0. SubmissionOK(s)
  BY DEF IInv
<1>1. RunMove(s)
  BY DEF Calm, SameStore, SameRun, RunMove, TargetMove, BeginMove, EffectMove
<1>2. ReportMove(s)
  BY DEF Calm, SameStore, SameRun, ReportMove
<1>3. ClosedMove(s) /\ ChargeMove(s) /\ CoverMove(s) /\ StartMove(s)
  BY DEF Calm, SameStore, SameRun, ClosedMove, ChargeMove, CoverMove, StartMove
<1>4. LeaseOK(s)'
  <2>1. lease'[s] = lease[s] => LeaseOK(s)'
    BY <1>0 DEF SubmissionOK, LeaseOK
  <2> QED
    BY <2>1 DEF Calm
<1> QED
  BY <1>1, <1>2, <1>3, <1>4 DEF SubmissionMove

\* The store is idle.
LEMMA IdleStore ==
  ASSUME IInv, UNCHANGED storeVars
  PROVE  SP!Inv' /\ \A s \in Submission : Moves(s)
<1>1. UNCHANGED SP!vars
  BY DEF storeVars, SP!vars
<1> QED
  BY <1>1, StoreMoves

\* One host moves and nothing else does.
LEMMA OnlyHost ==
  ASSUME IInv, NEW h \in Host, Aside(h), UNCHANGED <<storeVars, result, quota, target>>
  PROVE  SP!Inv' /\ \A s \in Submission : SubmissionMove(s)
<1>1. SP!Inv' /\ \A s \in Submission : Moves(s)
  BY IdleStore
<1>2. \A s \in Submission : Calm(s)
  BY AsideStays DEF Calm, SameStore, SameRun, storeVars
<1> QED
  BY <1>1, <1>2, CalmMoves

\* The fields of a host's state.
LEMMA HostFields ==
  ASSUME IInv, NEW h \in Host
  PROVE  /\ host[h] \in HostState /\ host \in [Host -> HostState]
         /\ host[h].todo \subseteq Submission
         /\ host[h].sub \in Submission \cup {NoSubmission}
         /\ host[h].token \in Nat /\ host[h].attempt \in Nat
         /\ host[h].recovered \in BOOLEAN /\ host[h].cancel \in BOOLEAN
         /\ host[h].lost \in BOOLEAN
         /\ host[h].outcome \in Report \cup Raised \cup {NoReport}
         /\ host[h].steps \in Seq(Closing)
BY DEF IInv, HostTypes, HostState

\* The host drops its item, if it had one.
Dropped(x) ==
  /\ x \in HostState
  /\ x.pc \in {"down", "idle", "scan", "results", "poll"}

LEMMA DroppedIsAside ==
  ASSUME IInv, NEW h \in Host, NEW x, Dropped(x), Becomes(h, x)
  PROVE  /\ host' \in [Host -> HostState] /\ host'[h] = x
         /\ Aside(h) /\ HostOK(h)' /\ host'[h].pc \notin Started
<1>1. host' = [host EXCEPT ![h] = x] /\ x \in HostState /\ host \in [Host -> HostState]
  BY HostFields DEF Becomes, Dropped
<1>2. host'[h] = x /\ \A g \in Host : g # h => host'[g] = host[g]
  BY <1>1
<1>3. Aside(h)
  BY <1>2 DEF Aside, Dropped, MayBegin
<1>4. ItemOK(h)' /\ AttemptOK(h)'
  BY <1>2 DEF ItemOK, AttemptOK, Dropped, Busy, Started
<1>5. StageOK(h)' /\ Covered(h)'
  BY <1>2 DEF StageOK, OutcomeOK, ClosingOK, Covered, MayBegin, Dropped
<1> QED
  BY <1>1, <1>2, <1>3, <1>4, <1>5 DEF HostOK, Dropped, Started

\* A step that only drops or leaves an item.
LEMMA DropStep ==
  ASSUME IInv, NEW h \in Host, NEW x, Dropped(x), Becomes(h, x),
         UNCHANGED <<storeVars, result, quota, target>>, faults' \in 0..MaxFaults
  PROVE  IInv'
<1>1. /\ host' \in [Host -> HostState]
      /\ Aside(h) /\ HostOK(h)' /\ host'[h].pc \notin Started
  BY DroppedIsAside
<1>2. SP!Inv' /\ \A s \in Submission : SubmissionMove(s)
  BY <1>1, OnlyHost
<1>3. HostTypes'
  BY <1>1 DEF IInv, HostTypes
<1> QED
  BY <1>1, <1>2, <1>3, StepKeepsInv DEF Aside

\* The host works on: its item, its lease and its attempt are the same.
Works(h) ==
  /\ host[h].pc \in Started /\ host'[h].pc \in Started
  /\ host'[h].sub = host[h].sub /\ host'[h].attempt = host[h].attempt
  /\ host'[h].token = host[h].token /\ host'[h].recovered = host[h].recovered

LEMMA WorkGoesOn ==
  ASSUME IInv, SP!Inv', NEW h \in Host, Works(h), \A s \in Submission : Moves(s)
  PROVE  /\ ItemOK(h)' /\ AttemptOK(h)'
         /\ host[h].sub \in Submission /\ status[host[h].sub] # "absent"
         /\ attempts[host[h].sub] # <<>>
<1> DEFINE s == host[h].sub
<1>0. ItemOK(h) /\ AttemptOK(h)
  BY DEF IInv, HostOK
<1>1. /\ s \in Submission /\ status[s] # "absent"
      /\ host[h].token \in 1..MaxToken /\ host[h].token <= lease[s].token
  BY <1>0 DEF Works, ItemOK, Busy, Started
<1>2. Moves(s) /\ \A u \in Submission : HistoryOK(u) /\ HistoryOK(u)'
  BY <1>1, HistoryHolds, HistoryThen DEF IInv
<1>3. ItemOK(h)'
  BY <1>1, <1>2 DEF ItemOK, Works, Started, Busy, Moves, HistoryOK
<1>4. AttemptOK(h)'
  BY <1>0, <1>2 DEF AttemptOK, Works, Moves
<1>5. attempts[s] # <<>>
  BY <1>0, <1>2 DEF AttemptOK, Works, HistoryOK
<1> QED
  BY <1>1, <1>3, <1>4, <1>5

\* The shape of a step in which h works on.
LEMMA WorkStep ==
  ASSUME IInv, SP!Inv', HostTypes', NEW h \in Host, Works(h),
         \A g \in Host : g # h => host'[g] = host[g],
         \A s \in Submission : SubmissionMove(s),
         StageOK(h)', Covered(h)'
  PROVE  IInv'
<1>1. \A s \in Submission : Moves(s)
  BY DEF SubmissionMove, RunMove
<1>2. HostOK(h)'
  BY <1>1, WorkGoesOn DEF HostOK
<1> QED
  BY <1>2, StepKeepsInv DEF Works

---------------------------------------------------------------------------
(* The actions, one lemma each.  First those of the environment.           *)

\* Nothing but the store moves.
LEMMA EnvStep ==
  ASSUME IInv, SP!Next, UNCHANGED <<host, result, target>>,
         quota' \in [Submission -> BOOLEAN], faults' \in 0..MaxFaults,
         SP!Inv' /\ (\A s \in Submission : Moves(s)) => \A s \in Submission : SubmissionMove(s)
  PROVE  IInv'
<1>1. SP!Inv' /\ \A s \in Submission : Moves(s)
  BY StoreMoves
<1>2. HostTypes'
  BY DEF IInv, HostTypes
<1>3. \A g \in Host : HostOK(g)'
  BY <1>1, HostStays
<1>4. \A s \in Submission : SubmissionOK(s)'
  BY <1>1, <1>2, SubmissionStep
<1>5. OneEach'
  BY DEF IInv, OneEach
<1> QED
  BY <1>1, <1>2, <1>3, <1>4, <1>5 DEF IInv

LEMMA FaultBound ==
  ASSUME IInv
  PROVE  /\ faults \in 0..MaxFaults
         /\ \A kind : Fault(kind) => faults' \in 0..MaxFaults
         /\ UNCHANGED faults => faults' \in 0..MaxFaults
BY HostAssumption DEF IInv, HostTypes, Fault

\* The types of the store's records.
LEMMA StoreTypes ==
  ASSUME SP!Inv
  PROVE  /\ status \in [Submission -> Store!NonTerminal \cup Store!Terminal \cup {"absent"}]
         /\ outbox \in [Submission -> {"absent", "pending", "published"}]
         /\ lease \in [Submission -> Store!LeaseRecord]
         /\ attempts \in [Submission -> Seq(Store!AttemptRecord)]
         /\ effect \in [Submission -> Store!EffectStatus \cup {"absent"}]
BY SameTypes DEF SP!Inv, Store!TypeOK

LEMMA SubmitStep ==
  ASSUME IInv, NEW s \in Submission, Submit(s)
  PROVE  IInv'
<1>1. Store!Accept(s) /\ SP!Next
  BY StoreCalls DEF Submit
<1>2. /\ quota' = [quota EXCEPT ![s] = TRUE] /\ quota \in [Submission -> BOOLEAN]
      /\ UNCHANGED <<host, result, target, faults>>
  BY DEF Submit, IInv, HostTypes
<1>3. /\ status[s] = "absent" /\ status'[s] = "accepted" /\ outbox'[s] = "pending"
      /\ UNCHANGED <<lease, attempts, effect>>
      /\ \A u \in Submission \ {s} : status'[u] = status[u] /\ outbox'[u] = outbox[u]
  BY <1>1, StoreTypes DEF Store!Accept, IInv
<1>4. ASSUME SP!Inv', \A u \in Submission : Moves(u), NEW u \in Submission
      PROVE  SubmissionMove(u)
  <2>1. SubmissionOK(u) /\ EtlStays(u) /\ BeginStays(u)
    BY <1>2 DEF IInv, EtlStays, BeginStays, MayBegin
  <2>2. CASE u # s
    <3>1. Calm(u)
      BY <1>2, <1>3, <2>1, <2>2 DEF Calm, SameStore, SameRun
    <3> QED
      BY <1>4, <3>1, CalmMoves
  <2>3. CASE u = s
    <3>1. quota'[s] /\ result' = result /\ target' = target
      BY <1>2
    <3>2. RunMove(s)
      BY <1>3, <1>4, <2>1, <2>3, <3>1 DEF RunMove, TargetMove, BeginMove, EffectMove
    <3>3. ReportMove(s) /\ StartMove(s)
      BY <1>3, <3>1 DEF ReportMove, StartMove
    <3>4. ClosedMove(s) /\ ChargeMove(s) /\ CoverMove(s)
      BY <1>3, <3>1 DEF ClosedMove, ChargeMove, CoverMove, Store!Terminal
    <3>5. LeaseOK(s)'
      BY <1>3, <2>1, <2>3 DEF SubmissionOK, LeaseOK
    <3> QED
      BY <2>3, <3>2, <3>3, <3>4, <3>5 DEF SubmissionMove
  <2> QED
    BY <2>2, <2>3
<1>5. quota' \in [Submission -> BOOLEAN] /\ faults' \in 0..MaxFaults
  BY <1>2, FaultBound
<1> QED
  BY <1>1, <1>2, <1>4, <1>5, EnvStep

\* The steps of the store that leave every receipt, report and reservation.
LeaseStep(s) ==
  /\ UNCHANGED <<outbox, attempts, effect>>
  /\ \A u \in Submission :
       /\ status'[u] = status[u] \/ (status[u] \in Store!NonTerminal /\ status'[u] \in Store!NonTerminal)
       /\ lease'[u] = lease[u] \/ LeaseOK(u)'

LEMMA LeaseStepMoves ==
  ASSUME IInv, NEW s \in Submission, LeaseStep(s), UNCHANGED <<result, quota, target>>,
         NEW u \in Submission, Moves(u), EtlStays(u), BeginStays(u)
  PROVE  SubmissionMove(u)
<1>0. SubmissionOK(u) /\ Store!NonTerminal \cap Store!Terminal = {}
  BY DEF IInv, Store!NonTerminal, Store!Terminal, Store!Runnable
<1>1. RunMove(u)
  BY DEF LeaseStep, RunMove, TargetMove, BeginMove, EffectMove
<1>2. ReportMove(u) /\ StartMove(u)
  BY DEF LeaseStep, ReportMove, StartMove
<1>3. ClosedMove(u) /\ ChargeMove(u) /\ CoverMove(u)
  BY <1>0 DEF LeaseStep, ClosedMove, ChargeMove, CoverMove
<1>4. LeaseOK(u)'
  <2>1. lease'[u] = lease[u] => LeaseOK(u)'
    BY <1>0 DEF SubmissionOK, LeaseOK
  <2> QED
    BY <2>1 DEF LeaseStep
<1> QED
  BY <1>1, <1>2, <1>3, <1>4 DEF SubmissionMove

\* Such a step with every host where it was.
LEMMA LeaseEnvStep ==
  ASSUME IInv, NEW s \in Submission, LeaseStep(s), SP!Next,
         UNCHANGED <<host, result, quota, target>>, faults' \in 0..MaxFaults
  PROVE  IInv'
<1>1. \A u \in Submission : EtlStays(u) /\ BeginStays(u)
  BY DEF EtlStays, BeginStays, MayBegin
<1>2. quota' \in [Submission -> BOOLEAN]
  BY DEF IInv, HostTypes
<1> QED
  BY <1>1, <1>2, LeaseStepMoves, EnvStep

\* What the lease of one submission may become.
LEMMA LeaseWritten ==
  ASSUME IInv, NEW s \in Submission, NEW l,
         lease' = [lease EXCEPT ![s] = l],
         l.left > 0 => l.token \in 1..MaxToken
  PROVE  \A u \in Submission : lease'[u] = lease[u] \/ LeaseOK(u)'
<1>1. lease \in [Submission -> Store!LeaseRecord]
  BY StoreTypes DEF IInv
<1>2. lease'[s] = l /\ \A u \in Submission : u # s => lease'[u] = lease[u]
  BY <1>1
<1> QED
  BY <1>2 DEF LeaseOK

LEMMA RequestCancelStep ==
  ASSUME IInv, NEW s \in Submission, RequestCancel(s)
  PROVE  IInv'
<1>1. Store!CancelSubmission(s) /\ SP!Next /\ UNCHANGED <<host, result, quota, target, faults>>
  BY StoreCalls DEF RequestCancel
<1>2. \A u \in Submission : lease'[u] = lease[u] \/ LeaseOK(u)'
  <2>1. CASE lease' = lease
    BY <2>1
  <2>2. CASE lease' = [lease EXCEPT ![s].left = 0]
    <3>1. PICK l : l = [lease[s] EXCEPT !.left = 0]
      OBVIOUS
    <3>2. lease[s] \in Store!LeaseRecord
      BY StoreTypes DEF IInv
    <3>3. l.left = 0 /\ lease' = [lease EXCEPT ![s] = l]
      BY <2>2, <3>1, <3>2 DEF Store!LeaseRecord
    <3>4. l.left > 0 => l.token \in 1..MaxToken
      BY <3>3
    <3> QED
      BY <3>3, <3>4, LeaseWritten
  <2> QED
    BY <1>1, <2>1, <2>2 DEF Store!CancelSubmission
<1>3. \A u \in Submission :
        \/ status'[u] = status[u]
        \/ status[u] \in Store!NonTerminal /\ status'[u] \in Store!NonTerminal
  BY <1>1, StoreTypes DEF Store!CancelSubmission, IInv, Store!NonTerminal
<1>4. LeaseStep(s)
  BY <1>1, <1>2, <1>3 DEF LeaseStep, Store!CancelSubmission
<1> QED
  BY <1>1, <1>4, LeaseEnvStep, FaultBound

LEMMA ElapseStep ==
  ASSUME IInv, NEW s \in Submission, Elapse(s)
  PROVE  IInv'
<1>1. /\ Store!Elapse(s) /\ SP!Next /\ UNCHANGED <<host, result, quota, target>>
      /\ faults' \in 0..MaxFaults
  BY StoreCalls, FaultBound DEF Elapse
<1>2. PICK l : l = [lease[s] EXCEPT !.left = @ - 1]
  OBVIOUS
<1>3. lease[s] \in Store!LeaseRecord /\ LeaseOK(s)
  BY StoreTypes DEF IInv, SubmissionOK
<1>4. l.token = lease[s].token /\ l.left = lease[s].left - 1 /\ lease' = [lease EXCEPT ![s] = l]
  BY <1>1, <1>2, <1>3 DEF Store!Elapse, Store!LeaseRecord
<1>5. l.left > 0 => l.token \in 1..MaxToken
  BY <1>3, <1>4, HostAssumption DEF LeaseOK, Store!LeaseRecord
<1>6. LeaseStep(s)
  BY <1>1, <1>4, <1>5, LeaseWritten DEF LeaseStep, Store!Elapse
<1> QED
  BY <1>1, <1>6, LeaseEnvStep

LEMMA ProviderConfirmsStep ==
  ASSUME IInv, NEW s \in Submission, ProviderConfirms(s)
  PROVE  IInv'
<1>1. /\ Store!RecordEffect(s, "committed", "reconciliation") /\ target[s].committed
      /\ UNCHANGED <<host, result, quota, target, faults>>
  BY DEF ProviderConfirms
<1>2. SP!Next
  BY <1>1, StoreCalls DEF Store!Evidence
<1>3. /\ effect' = [effect EXCEPT ![s] = "committed"] /\ effect'[s] = "committed"
      /\ UNCHANGED <<status, outbox, lease, attempts>>
      /\ \A u \in Submission \ {s} : effect'[u] = effect[u]
  BY <1>1, StoreTypes DEF Store!RecordEffect, IInv
<1>4. ASSUME SP!Inv', \A u \in Submission : Moves(u), NEW u \in Submission
      PROVE  SubmissionMove(u)
  <2>1. SubmissionOK(u) /\ EtlStays(u) /\ BeginStays(u)
    BY <1>1 DEF IInv, EtlStays, BeginStays, MayBegin
  <2>2. RunMove(u)
    BY <1>1, <1>3, <1>4, <2>1 DEF RunMove, TargetMove, BeginMove, EffectMove
  <2>3. ReportMove(u) /\ StartMove(u)
    BY <1>1, <1>3 DEF ReportMove, StartMove
  <2>4. ClosedMove(u) /\ ChargeMove(u) /\ CoverMove(u)
    BY <1>1, <1>3 DEF ClosedMove, ChargeMove, CoverMove
  <2>5. LeaseOK(u)'
    BY <1>3, <2>1 DEF SubmissionOK, LeaseOK
  <2> QED
    BY <2>2, <2>3, <2>4, <2>5 DEF SubmissionMove
<1>5. quota' \in [Submission -> BOOLEAN] /\ faults' \in 0..MaxFaults
  BY <1>1, FaultBound DEF IInv, HostTypes
<1> QED
  BY <1>1, <1>2, <1>4, <1>5, EnvStep

\* The states in which a host has no item of its own.
LEMMA RestingStates ==
  /\ Idle \in HostState /\ Idle.pc = "idle" /\ Idle.todo = {} /\ Idle.sub = NoSubmission
  /\ Dropped(Idle)
  /\ Dropped([Idle EXCEPT !.pc = "down"])
  /\ Dropped([Idle EXCEPT !.pc = "scan"])
  /\ \A todo \in SUBSET Submission :
       /\ Dropped(Polling(todo))
       /\ Dropped([Idle EXCEPT !.pc = "results", !.todo = todo])
<1>1. <<>> \in Seq(Closing)
  OBVIOUS
<1>2. Idle \in HostState /\ Idle.pc = "idle" /\ Idle.todo = {} /\ Idle.sub = NoSubmission
  BY <1>1 DEF Idle, HostState
<1>3. ASSUME NEW todo \in SUBSET Submission, NEW pc \in {"down", "idle", "scan", "results", "poll"}
      PROVE  Dropped([Idle EXCEPT !.pc = pc, !.todo = todo])
  BY <1>2, <1>3 DEF Dropped, HostState
<1>4. \A pc \in {"down", "idle", "scan", "results", "poll"} : Dropped([Idle EXCEPT !.pc = pc])
  BY <1>2 DEF Dropped, HostState
<1>5. Dropped(Idle)
  BY <1>2 DEF Dropped
<1> QED
  BY <1>2, <1>3, <1>4, <1>5 DEF Polling

LEMMA CrashStep ==
  ASSUME IInv, NEW h \in Host, Crash(h) \/ Restart(h)
  PROVE  IInv'
<1>1. /\ \/ Becomes(h, Idle) \/ Becomes(h, [Idle EXCEPT !.pc = "down"])
      /\ UNCHANGED <<storeVars, result, quota, target>> /\ faults' \in 0..MaxFaults
  BY FaultBound DEF Crash, Restart
<1> QED
  BY <1>1, RestingStates, DropStep

LEMMA EndTickStep ==
  ASSUME IInv, NEW h \in Host, EndTick(h)
  PROVE  IInv'
<1>1. Becomes(h, Idle) /\ UNCHANGED <<storeVars, result, quota, target, faults>>
  BY DEF EndTick
<1> QED
  BY <1>1, RestingStates, DropStep, FaultBound

LEMMA ScanPendingStep ==
  ASSUME IInv, NEW h \in Host, ScanPending(h)
  PROVE  IInv'
<1>1. PICK todo \in SUBSET Submission :
        Becomes(h, Polling(todo)) /\ UNCHANGED <<storeVars, result, quota, target, faults>>
  BY DEF ScanPending
<1> QED
  BY <1>1, RestingStates, DropStep, FaultBound

LEMMA ScanResultsStep ==
  ASSUME IInv, NEW h \in Host, ScanResults(h)
  PROVE  IInv'
<1>1. PICK todo \in SUBSET Submission :
        /\ Becomes(h, [host[h] EXCEPT !.pc = "results", !.todo = todo])
        /\ UNCHANGED <<storeVars, result, quota, target, faults>>
  BY DEF ScanResults
<1>2. PICK x : x = [host[h] EXCEPT !.pc = "results", !.todo = todo]
  OBVIOUS
<1>3. Dropped(x)
  BY <1>2, HostFields DEF HostState, Dropped
<1> QED
  BY <1>1, <1>2, <1>3, DropStep, FaultBound

LEMMA SkipResultStep ==
  ASSUME IInv, NEW h \in Host, NEW s \in Submission, SkipResult(h, s)
  PROVE  IInv'
<1>1. /\ Becomes(h, [host[h] EXCEPT !.todo = @ \ {s}]) /\ At(h, "results")
      /\ UNCHANGED <<storeVars, result, quota, target, faults>>
  BY DEF SkipResult
<1>2. PICK x : x = [host[h] EXCEPT !.todo = @ \ {s}]
  OBVIOUS
<1>3. Dropped(x)
  BY <1>1, <1>2, HostFields DEF HostState, Dropped, At
<1> QED
  BY <1>1, <1>2, <1>3, DropStep, FaultBound

\* The shape of a step that visits items of the outbox: not an attempt's.
LEMMA VisitStep ==
  ASSUME IInv, SP!Inv', NEW h \in Host, NEW x \in HostState, Becomes(h, x),
         x.pc \notin Started,
         Aside(h) => \A s \in Submission : SubmissionMove(s),
         ItemOK(h)',
         result' \in [Submission -> Report \cup {NoReport}],
         quota' \in [Submission -> BOOLEAN], UNCHANGED target, faults' \in 0..MaxFaults
  PROVE  IInv'
<1>1. host' = [host EXCEPT ![h] = x] /\ host \in [Host -> HostState]
  BY HostFields DEF Becomes
<1>2. host'[h] = x /\ host' \in [Host -> HostState] /\ \A g \in Host : g # h => host'[g] = host[g]
  BY <1>1
<1>3. Aside(h)
  BY <1>2 DEF Aside, MayBegin, Started
<1>4. HostTypes'
  BY <1>2 DEF IInv, HostTypes
<1>5. HostOK(h)'
  BY <1>2 DEF HostOK, AttemptOK, StageOK, OutcomeOK, ClosingOK, Covered, MayBegin, Started
<1> QED
  BY <1>2, <1>3, <1>4, <1>5, StepKeepsInv

LEMMA ScanTerminalStep ==
  ASSUME IInv, NEW h \in Host, ScanTerminal(h)
  PROVE  IInv'
<1>0. PICK todo : todo = {s \in Submission : outbox[s] = "pending" /\ status[s] \in Store!Terminal}
  OBVIOUS
<1>1. /\ Becomes(h, [host[h] EXCEPT !.pc = "cleanup", !.todo = todo])
      /\ UNCHANGED <<storeVars, result, quota, target, faults>>
  BY <1>0, Zenon DEF ScanTerminal
<1>8. todo \in SUBSET Submission /\ \A s \in todo : status[s] \in Store!Terminal
  BY <1>0
<1>2. PICK x : x = [host[h] EXCEPT !.pc = "cleanup", !.todo = todo]
  OBVIOUS
<1>3. x \in HostState /\ x.pc = "cleanup" /\ x.todo = todo
  BY <1>2, <1>8, HostFields DEF HostState
<1>4. host'[h] = x
  BY <1>1, <1>2, HostFields DEF Becomes
<1>5. SP!Inv' /\ (Aside(h) => \A s \in Submission : SubmissionMove(s))
  BY <1>1, IdleStore, OnlyHost
<1>6. ItemOK(h)'
  BY <1>1, <1>3, <1>4, <1>8 DEF ItemOK, Busy, Started, storeVars
<1>7. /\ result' \in [Submission -> Report \cup {NoReport}]
      /\ quota' \in [Submission -> BOOLEAN] /\ faults' \in 0..MaxFaults
  BY <1>1 DEF IInv, HostTypes
<1> QED
  BY <1>1, <1>2, <1>3, <1>5, <1>6, <1>7, VisitStep DEF Started

---------------------------------------------------------------------------
(* Writes about one submission, whoever makes them.                        *)

\* Nobody comes closer to ETL.
Calmly == \A u \in Submission : EtlStays(u) /\ BeginStays(u)

\* The reservation of s is given back.
LEMMA ReleaseMoves ==
  ASSUME IInv, NEW s \in Submission, Calmly,
         quota' = [quota EXCEPT ![s] = FALSE], UNCHANGED <<storeVars, result, target>>,
         attempts[s] # <<>> \/ status[s] \in Store!Terminal,
         \A g \in Host : host'[g].sub = s /\ (host'[g].pc = "etl" \/ MayBegin(g)') => ~Holds(g)'
  PROVE  SP!Inv' /\ \A u \in Submission : SubmissionMove(u)
<1>1. SP!Inv' /\ \A u \in Submission : Moves(u)
  BY IdleStore
<1>2. quota'[s] = FALSE /\ \A u \in Submission : u # s => quota'[u] = quota[u]
  BY DEF IInv, HostTypes
<1>3. ASSUME NEW u \in Submission
      PROVE  SubmissionMove(u)
  <2>1. CASE u # s
    <3>1. Calm(u)
      BY <1>2, <2>1 DEF Calm, SameStore, SameRun, Calmly, storeVars
    <3> QED
      BY <1>1, <3>1, CalmMoves
  <2>2. CASE u = s
    <3>1. RunMove(s) /\ ReportMove(s) /\ StartMove(s)
      BY <1>1, <1>2 DEF RunMove, TargetMove, BeginMove, EffectMove, ReportMove, StartMove,
                        Calmly, storeVars
    <3>2. ClosedMove(s)
      BY DEF ClosedMove, storeVars
    <3>3. Store!NonTerminal \cap Store!Terminal = {}
      BY DEF Store!NonTerminal, Store!Terminal, Store!Runnable
    <3>4. ChargeMove(s)
      BY <1>2, <3>3 DEF ChargeMove, storeVars
    <3>5. CoverMove(s)
      BY DEF CoverMove
    <3>6. LeaseOK(s)'
      BY DEF IInv, SubmissionOK, LeaseOK, storeVars
    <3> QED
      BY <2>2, <3>1, <3>2, <3>4, <3>5, <3>6 DEF SubmissionMove
  <2> QED
    BY <2>1, <2>2
<1> QED
  BY <1>1, <1>3

\* The outbox row of s is acknowledged, its reservation given back before.
LEMMA AcknowledgeMoves ==
  ASSUME IInv, NEW s \in Submission, Calmly, Acknowledge(s), ~quota[s],
         UNCHANGED <<result, quota, target>>
  PROVE  SP!Inv' /\ \A u \in Submission : SubmissionMove(u)
<1>1. CASE UNCHANGED storeVars
  <2>1. SP!Inv' /\ \A u \in Submission : Moves(u)
    BY <1>1, IdleStore
  <2>2. \A u \in Submission : Calm(u)
    BY <1>1 DEF Calm, SameStore, SameRun, Calmly, storeVars
  <2> QED
    BY <2>1, <2>2, CalmMoves
<1>2. CASE Store!MarkPublished(s)
  <2>1. SP!Inv' /\ \A u \in Submission : Moves(u)
    BY <1>2, StoreCalls, StoreMoves
  <2>2. /\ \A u \in Submission \ {s} : outbox'[u] = outbox[u] /\ status'[u] = status[u]
        /\ \/ status'[s] = status[s]
           \/ status[s] \in Store!NonTerminal /\ status'[s] \in Store!NonTerminal
        /\ UNCHANGED <<lease, attempts, effect>>
    BY <1>2, StoreTypes DEF IInv, Store!MarkPublished, Store!NonTerminal, Store!Runnable
  <2>3. ASSUME NEW u \in Submission
        PROVE  SubmissionMove(u)
    <3>1. CASE u # s
      <4>1. Calm(u)
        BY <2>2, <3>1 DEF Calm, SameStore, SameRun, Calmly
      <4> QED
        BY <2>1, <4>1, CalmMoves
    <3>2. CASE u = s
      <4>1. RunMove(s) /\ ReportMove(s) /\ StartMove(s)
        BY <2>1, <2>2 DEF RunMove, TargetMove, BeginMove, EffectMove, ReportMove, StartMove,
                          Calmly
      <4>2. Store!NonTerminal \cap Store!Terminal = {}
        BY DEF Store!NonTerminal, Store!Terminal, Store!Runnable
      <4>3. ClosedMove(s) /\ ChargeMove(s) /\ CoverMove(s)
        BY <2>2, <4>2 DEF ClosedMove, ChargeMove, CoverMove
      <4>4. LeaseOK(s)'
        BY <2>2 DEF IInv, SubmissionOK, LeaseOK
      <4> QED
        BY <3>2, <4>1, <4>3, <4>4 DEF SubmissionMove
    <3> QED
      BY <3>1, <3>2
  <2> QED
    BY <2>1, <2>3
<1> QED
  BY <1>1, <1>2 DEF Acknowledge

\* What a store operation on the history of s alone may touch.
HistoryWrite(s) ==
  /\ UNCHANGED <<status, outbox, lease, effect>>
  /\ \A u \in Submission \ {s} : attempts'[u] = attempts[u]
  /\ DOMAIN attempts'[s] = DOMAIN attempts[s]
  /\ attempts'[s] = <<>> => attempts[s] = <<>>

\* A report that tells the truth is stored, mirrored, or both.
LEMMA ReportMoves ==
  ASSUME IInv, NEW s \in Submission, Calmly, NEW r \in Report, Truth(s, r)',
         result' = result \/ result' = [result EXCEPT ![s] = r],
         \/ UNCHANGED storeVars
         \/ \E n \in DOMAIN attempts[s], o \in Owner, t \in 1..MaxToken :
              Store!RecordResult(s, n, o, t, r),
         UNCHANGED <<quota, target>>
  PROVE  SP!Inv' /\ \A u \in Submission : SubmissionMove(u)
<1>1. SP!Inv' /\ \A u \in Submission : Moves(u)
  <2>1. UNCHANGED storeVars => SP!Inv' /\ \A u \in Submission : Moves(u)
    BY IdleStore
  <2>2. ASSUME NEW n \in DOMAIN attempts[s], NEW o \in Owner, NEW t \in 1..MaxToken,
               Store!RecordResult(s, n, o, t, r)
        PROVE  SP!Next
    BY <2>2, FencedCalls
  <2> QED
    BY <2>1, <2>2, StoreMoves
<1> DEFINE Written ==
             /\ HistoryWrite(s)
             /\ \A m \in DOMAIN attempts'[s] :
                  /\ attempts'[s][m].report = attempts[s][m].report \/ attempts'[s][m].report = r
                  /\ attempts'[s][m].delivered = attempts[s][m].delivered
<1>2. Written
  <2>1. CASE UNCHANGED storeVars
    BY <2>1 DEF HistoryWrite, storeVars
  <2>2. ASSUME NEW n \in DOMAIN attempts[s], NEW o \in Owner, NEW t \in 1..MaxToken,
               Store!RecordResult(s, n, o, t, r)
        PROVE  Written
    <3>1. attempts \in [Submission -> Seq(Store!AttemptRecord)] /\ HistoryOK(s)
      BY StoreTypes, HistoryHolds DEF IInv
    <3>2. PICK a : a = [attempts[s][n] EXCEPT !.report = r]
      OBVIOUS
    <3>3. attempts' = [attempts EXCEPT ![s] = [attempts[s] EXCEPT ![n] = a]]
      BY <2>2, <3>2 DEF Store!RecordResult
    <3>4. attempts'[s] = [attempts[s] EXCEPT ![n] = a]
      BY <3>1, <3>3
    <3>5. a.report = r /\ a.delivered = attempts[s][n].delivered
      BY <2>2, <3>1, <3>2 DEF HistoryOK, Store!AttemptRecord
    <3>6. DOMAIN attempts'[s] = DOMAIN attempts[s] /\ n \in DOMAIN attempts'[s]
      BY <2>2, <3>4
    <3>7. attempts'[s] # <<>>
      BY <3>6
    <3>8. HistoryWrite(s)
      BY <2>2, <3>1, <3>3, <3>6, <3>7 DEF HistoryWrite, Store!RecordResult
    <3>9. \A m \in DOMAIN attempts[s] : attempts'[s][m] = IF m = n THEN a ELSE attempts[s][m]
      BY <3>4, Zenon
    <3> QED
      BY <3>5, <3>6, <3>8, <3>9
  <2> QED
    BY <2>1, <2>2
<1>3. /\ result'[s] = result[s] \/ result'[s] = r
      /\ \A u \in Submission \ {s} : result'[u] = result[u]
  BY DEF IInv, HostTypes
<1>4. ASSUME NEW u \in Submission
      PROVE  SubmissionMove(u)
  <2>1. CASE u # s
    <3>1. Calm(u)
      BY <1>2, <1>3, <2>1 DEF Calm, SameStore, SameRun, Calmly, HistoryWrite
    <3> QED
      BY <1>1, <3>1, CalmMoves
  <2>2. CASE u = s
    <3>1. r # NoReport
      BY HostAssumption
    <3>2. RunMove(s) /\ StartMove(s)
      BY <1>1, <1>2, <1>3, <3>1 DEF RunMove, TargetMove, BeginMove, EffectMove, StartMove,
                        Calmly, HistoryWrite
    <3>3. result'[s] = result[s] \/ Truth(s, result[s])'
      <4>1. result'[s] = r => Truth(s, result[s])'
        BY DEF Truth
      <4> QED
        BY <1>3, <4>1
    <3>4. ASSUME NEW m \in DOMAIN attempts'[s]
          PROVE  attempts'[s][m].report = attempts[s][m].report \/ Truth(s, attempts[s][m].report)'
      <4>1. attempts'[s][m].report = r => Truth(s, attempts[s][m].report)'
        BY DEF Truth
      <4> QED
        BY <1>2, <4>1
    <3>5. ReportMove(s)
      BY <1>2, <3>3, <3>4 DEF ReportMove, HistoryWrite
    <3>6. ClosedMove(s) /\ ChargeMove(s) /\ CoverMove(s)
      BY <1>2 DEF ClosedMove, ChargeMove, CoverMove, HistoryWrite
    <3>7. LeaseOK(s)'
      BY <1>2 DEF IInv, SubmissionOK, LeaseOK, HistoryWrite
    <3> QED
      BY <2>2, <3>2, <3>5, <3>6, <3>7 DEF SubmissionMove
  <2> QED
    BY <2>1, <2>2
<1> QED
  BY <1>1, <1>4

---------------------------------------------------------------------------
(* The tick up to the run.                                                 *)

LEMMA AsideIsCalm ==
  ASSUME NEW h \in Host, Aside(h)
  PROVE  Calmly
BY AsideStays DEF Calmly

\* What follows from where a host is.
LEMMA VisitFacts ==
  ASSUME IInv, NEW h \in Host
  PROVE  /\ ItemOK(h) /\ AttemptOK(h) /\ StageOK(h) /\ Covered(h)
         /\ OwnerOf[h] \in Owner
         /\ \A u \in Submission : HistoryOK(u) /\ SubmissionOK(u)
BY HostAssumption, HistoryHolds DEF IInv, HostOK

\* Nobody may still write under a live lease once the submission is closed.
LEMMA ClosedIsUncovered ==
  ASSUME IInv, NEW s \in Submission, status[s] \in Store!Terminal
  PROVE  \A g \in Host : host[g].sub = s /\ (host[g].pc = "etl" \/ MayBegin(g)) => ~Holds(g)
BY DEF IInv, HostOK, Covered

LEMMA CleanupQuotaStep ==
  ASSUME IInv, NEW h \in Host, NEW s \in Submission, CleanupQuota(h, s)
  PROVE  IInv'
<1>0. /\ host[h].pc = "cleanup" /\ s \in host[h].todo /\ status[s] \in Store!Terminal
      /\ UNCHANGED <<storeVars, result, target>>
      /\ status[s] # "absent"
  BY VisitFacts DEF CleanupQuota, At, ItemOK, Store!Terminal
<1>a. /\ result' \in [Submission -> Report \cup {NoReport}]
      /\ UNCHANGED target /\ quota \in [Submission -> BOOLEAN]
  BY <1>0 DEF IInv, HostTypes
<1>1. CASE /\ quota' = [quota EXCEPT ![s] = FALSE]
           /\ Becomes(h, [host[h] EXCEPT !.pc = "ack", !.sub = s])
           /\ UNCHANGED faults
  <2>1. PICK x : x = [host[h] EXCEPT !.pc = "ack", !.sub = s]
    OBVIOUS
  <2>2. x \in HostState /\ x.pc = "ack" /\ x.todo = host[h].todo /\ x.sub = s
    BY <2>1, HostFields DEF HostState
  <2>3. host'[h] = x /\ \A g \in Host : g # h => host'[g] = host[g]
    BY <1>1, <2>1, HostFields DEF Becomes
  <2>4. ItemOK(h)'
    <3>1. ~quota'[s]
      BY <1>1, <1>a
    <3>2. \A u \in x.todo : status'[u] \in Store!Terminal
      BY <1>0, <2>2, VisitFacts DEF ItemOK, storeVars
    <3> QED
      BY <1>0, <2>2, <2>3, <3>1, <3>2 DEF ItemOK, Busy, Started, storeVars
  <2>5. \A g \in Host : host'[g].sub = s /\ (host'[g].pc = "etl" \/ MayBegin(g)') => ~Holds(g)'
    <3>1. \A g \in Host : g # h => (Holds(g)' <=> Holds(g)) /\ (MayBegin(g)' <=> MayBegin(g))
      BY <1>0, <2>3 DEF Holds, MayBegin, Store!HoldsLease, Store!Live, storeVars
    <3>2. host'[h].pc # "etl" /\ ~MayBegin(h)'
      BY <2>2, <2>3 DEF MayBegin
    <3> QED
      BY <1>0, <2>3, <3>1, <3>2, ClosedIsUncovered
  <2>6. Calmly => SP!Inv' /\ \A u \in Submission : SubmissionMove(u)
    BY <1>0, <1>1, <2>5, ReleaseMoves
  <2>7. Aside(h)
    BY <2>2, <2>3 DEF Aside, MayBegin
  <2>8. quota' \in [Submission -> BOOLEAN]
    BY <1>1, <1>a
  <2>9. SP!Inv' /\ (Aside(h) => \A u \in Submission : SubmissionMove(u))
    BY <2>6, <2>7, AsideIsCalm
  <2>10. Becomes(h, x) /\ faults' \in 0..MaxFaults /\ x.pc \notin Started
    BY <1>1, <2>1, <2>2, FaultBound DEF Started
  <2> QED
    BY <1>a, <2>2, <2>4, <2>8, <2>9, <2>10, VisitStep
<1>2. CASE Fault("quota") /\ Becomes(h, [host[h] EXCEPT !.todo = @ \ {s}]) /\ UNCHANGED quota
  <2>1. PICK x : x = [host[h] EXCEPT !.todo = @ \ {s}]
    OBVIOUS
  <2>2. x \in HostState /\ x.pc = "cleanup" /\ x.todo \subseteq host[h].todo
    BY <1>0, <2>1, HostFields DEF HostState
  <2>3. host'[h] = x
    BY <1>2, <2>1, HostFields DEF Becomes
  <2>4. ItemOK(h)'
    <3>1. \A u \in x.todo : status'[u] \in Store!Terminal
      BY <1>0, <2>2, VisitFacts DEF ItemOK, storeVars
    <3> QED
      BY <2>2, <2>3, <3>1 DEF ItemOK, Busy, Started
  <2>5. SP!Inv' /\ (Aside(h) => \A u \in Submission : SubmissionMove(u))
    BY <1>0, <1>2, IdleStore, OnlyHost
  <2>6. Becomes(h, x) /\ faults' \in 0..MaxFaults /\ x.pc \notin Started
    BY <1>2, <2>1, <2>2, FaultBound DEF Started
  <2>7. quota' \in [Submission -> BOOLEAN]
    BY <1>2, <1>a
  <2> QED
    BY <1>a, <2>2, <2>4, <2>5, <2>6, <2>7, VisitStep
<1> QED
  BY <1>1, <1>2 DEF CleanupQuota

LEMMA CleanupAckStep ==
  ASSUME IInv, NEW h \in Host, CleanupAck(h)
  PROVE  IInv'
<1> DEFINE s == host[h].sub
<1>0. /\ host[h].pc = "ack" /\ Acknowledge(s) /\ UNCHANGED <<result, quota, target, faults>>
      /\ s \in Submission /\ ~quota[s]
      /\ \A u \in host[h].todo : status[u] \in Store!Terminal
  BY VisitFacts DEF CleanupAck, At, ItemOK
<1>1. PICK x : x = [Idle EXCEPT !.pc = "cleanup", !.todo = host[h].todo \ {s}]
  OBVIOUS
<1>2. x \in HostState /\ x.pc = "cleanup" /\ x.todo \subseteq host[h].todo
  BY <1>1, HostFields, RestingStates DEF HostState
<1>3. Becomes(h, x) /\ host'[h] = x
  BY <1>1, HostFields DEF CleanupAck, Becomes
<1>4. \A g \in Host : g # h => host'[g] = host[g]
  BY <1>3, HostFields DEF Becomes
<1>5. Aside(h)
  BY <1>2, <1>3, <1>4 DEF Aside, MayBegin
<1>6. SP!Inv' /\ \A u \in Submission : SubmissionMove(u)
  BY <1>0, <1>5, AsideIsCalm, AcknowledgeMoves
<1>7. ItemOK(h)'
  <2>1. \A u \in host[h].todo : status'[u] \in Store!Terminal
    BY <1>0, <1>6, HostFields DEF SubmissionMove, RunMove, Moves
  <2> QED
    BY <1>2, <1>3, <2>1 DEF ItemOK, Busy, Started
<1>8. /\ result' \in [Submission -> Report \cup {NoReport}]
      /\ quota' \in [Submission -> BOOLEAN] /\ UNCHANGED target /\ faults' \in 0..MaxFaults
  BY <1>0 DEF IInv, HostTypes
<1> QED
  BY <1>2, <1>3, <1>6, <1>7, <1>8, VisitStep DEF Started

LEMMA PublishResultStep ==
  ASSUME IInv, NEW h \in Host, NEW s \in Submission, NEW n \in DOMAIN attempts[s],
         PublishResult(h, s, n)
  PROVE  IInv'
<1>0. /\ UNCHANGED <<storeVars, quota, target>> /\ n \in Undelivered(s)
      /\ host[h].pc = "results"
  BY DEF PublishResult, At
<1>1. PICK r : r = attempts[s][n].report
  OBVIOUS
<1>2. r \in Report /\ Truth(s, r) /\ status[s] # "absent"
  BY <1>0, <1>1, VisitFacts DEF Undelivered, SubmissionOK, ReportsTrue, HistoryOK
<1>3. CASE /\ result' = [result EXCEPT ![s] = attempts[s][n].report]
           /\ Becomes(h, [host[h] EXCEPT !.pc = "mark", !.sub = s, !.attempt = n,
                                         !.outcome = attempts[s][n].report])
           /\ UNCHANGED faults
  <2>1. PICK x : x = [host[h] EXCEPT !.pc = "mark", !.sub = s, !.attempt = n, !.outcome = r]
    OBVIOUS
  <2>2. n \in Nat
    BY VisitFacts DEF HistoryOK
  <2>3. x \in HostState /\ x.pc = "mark" /\ x.sub = s /\ x.attempt = n
    BY <1>2, <2>1, <2>2, HostFields DEF HostState
  <2>4. Becomes(h, x) /\ result' = [result EXCEPT ![s] = r]
    BY <1>1, <1>3, <2>1
  <2>5. host'[h] = x /\ \A g \in Host : g # h => host'[g] = host[g]
    BY <2>4, HostFields DEF Becomes
  <2>6. Aside(h)
    BY <2>3, <2>5 DEF Aside, MayBegin
  <2>7. Truth(s, r)'
    <3>1. Over(s)'
      <4>1. Over(s) /\ target' = target
        BY <1>0, <1>2 DEF Truth
      <4> QED
        BY <2>3, <2>5, <4>1 DEF Over
    <3> QED
      BY <1>0, <1>2, <3>1 DEF Truth
  <2>8. SP!Inv' /\ \A u \in Submission : SubmissionMove(u)
    BY <1>0, <1>2, <2>4, <2>6, <2>7, AsideIsCalm, ReportMoves
  <2>9. result' \in [Submission -> Report \cup {NoReport}] /\ result'[s] = r
    BY <1>2, <2>4 DEF IInv, HostTypes
  <2>10. ItemOK(h)'
    <3>1. r # NoReport
      BY <1>2, HostAssumption
    <3> QED
      BY <1>0, <1>2, <2>3, <2>5, <2>9, <3>1 DEF ItemOK, Busy, Started, storeVars
  <2>11. quota' \in [Submission -> BOOLEAN] /\ faults' \in 0..MaxFaults
    BY <1>0, <1>3 DEF IInv, HostTypes
  <2> QED
    BY <1>0, <2>3, <2>4, <2>8, <2>9, <2>10, <2>11, VisitStep DEF Started
<1>4. CASE Fault("report") /\ Becomes(h, [host[h] EXCEPT !.todo = @ \ {s}]) /\ UNCHANGED result
  <2>1. PICK x : x = [host[h] EXCEPT !.todo = @ \ {s}]
    OBVIOUS
  <2>2. Dropped(x)
    BY <1>0, <2>1, HostFields DEF HostState, Dropped
  <2> QED
    BY <1>0, <1>4, <2>1, <2>2, DropStep, FaultBound
<1> QED
  BY <1>3, <1>4 DEF PublishResult

LEMMA MarkResultStep ==
  ASSUME IInv, NEW h \in Host, MarkResult(h)
  PROVE  IInv'
<1> DEFINE s == host[h].sub
           n == host[h].attempt
<1>0. /\ host[h].pc = "mark" /\ UNCHANGED <<result, quota, target, faults>>
      /\ s \in Submission /\ n \in DOMAIN attempts[s] /\ result[s] # NoReport
      /\ HistoryOK(s) /\ SubmissionOK(s)
  BY VisitFacts DEF MarkResult, At, ItemOK
<1>1. PICK todo : todo = IF Undelivered(s) \subseteq {n} THEN host[h].todo \ {s} ELSE host[h].todo
  OBVIOUS
<1>2. todo \in SUBSET Submission
  BY <1>1, HostFields
<1>3. PICK x : x = [Idle EXCEPT !.pc = "results", !.todo = todo]
  OBVIOUS
<1>4. Dropped(x) /\ Becomes(h, x)
  <2>1. Dropped(x)
    BY <1>2, <1>3, RestingStates
  <2>2. Becomes(h, x)
    BY <1>1, <1>3, Zenon DEF MarkResult
  <2> QED
    BY <2>1, <2>2
<1>5. /\ host' \in [Host -> HostState]
      /\ Aside(h) /\ HostOK(h)' /\ host'[h].pc \notin Started
  BY <1>4, DroppedIsAside
<1>6. SP!Inv' /\ \A u \in Submission : SubmissionMove(u)
  <2>1. CASE UNCHANGED storeVars
    BY <1>0, <1>5, <2>1, OnlyHost
  <2>2. CASE /\ attempts[s][n].report = host[h].outcome
             /\ Store!MarkResultPublished(s, n, host[h].outcome)
    <3>1. host[h].outcome \in Report
      BY <1>0, <2>2 DEF HistoryOK, Store!MarkResultPublished
    <3>2. SP!Inv' /\ \A u \in Submission : Moves(u)
      BY <1>0, <2>2, <3>1, StoreCalls, StoreMoves
    <3>3. PICK a : a = [attempts[s][n] EXCEPT !.delivered = TRUE]
      OBVIOUS
    <3>4. attempts' = [attempts EXCEPT ![s] = [attempts[s] EXCEPT ![n] = a]]
      BY <2>2, <3>3 DEF Store!MarkResultPublished
    <3>5. attempts'[s] = [attempts[s] EXCEPT ![n] = a]
      BY <1>0, <3>4, StoreTypes DEF IInv
    <3>6. a.report = attempts[s][n].report
      BY <1>0, <3>3 DEF HistoryOK, Store!AttemptRecord
    <3>7. DOMAIN attempts'[s] = DOMAIN attempts[s] /\ n \in DOMAIN attempts'[s]
      BY <1>0, <3>5
    <3>8. HistoryWrite(s)
      <4>1. attempts'[s] # <<>>
        BY <3>7
      <4> QED
        BY <1>0, <2>2, <3>4, <3>7, <4>1, StoreTypes DEF IInv, HistoryWrite, Store!MarkResultPublished
    <3>9. \A m \in DOMAIN attempts[s] :
            attempts'[s][m] = IF m = n THEN a ELSE attempts[s][m]
      BY <3>5, Zenon
    <3>10. Calmly
      BY <1>5, AsideIsCalm
    <3>11. ASSUME NEW u \in Submission
           PROVE  SubmissionMove(u)
      <4>1. CASE u # s
        <5>1. Calm(u)
          BY <1>0, <3>8, <3>10, <4>1 DEF Calm, SameStore, SameRun, Calmly, HistoryWrite
        <5> QED
          BY <3>2, <5>1, CalmMoves
      <4>2. CASE u = s
        <5>1. RunMove(s) /\ StartMove(s)
          BY <1>0, <3>2, <3>8, <3>10 DEF RunMove, TargetMove, BeginMove, EffectMove, StartMove,
                                         Calmly, HistoryWrite
        <5>2. ReportMove(s)
          BY <1>0, <3>6, <3>7, <3>9 DEF ReportMove
        <5>3. ClosedMove(s) /\ ChargeMove(s) /\ CoverMove(s)
          BY <1>0, <3>8 DEF ClosedMove, ChargeMove, CoverMove, HistoryWrite
        <5>4. LeaseOK(u)'
          BY <1>0, <3>8, <4>2 DEF SubmissionOK, LeaseOK, HistoryWrite
        <5> QED
          BY <4>2, <5>1, <5>2, <5>3, <5>4 DEF SubmissionMove
      <4> QED
        BY <4>1, <4>2
    <3> QED
      BY <3>2, <3>11
  <2> QED
    BY <2>1, <2>2 DEF MarkResult
<1>7. HostTypes'
  BY <1>0, <1>5 DEF IInv, HostTypes
<1> QED
  BY <1>5, <1>6, <1>7, StepKeepsInv DEF Aside

LEMMA AcquireStep ==
  ASSUME IInv, NEW h \in Host, NEW s \in Submission, Acquire(h, s)
  PROVE  IInv'
<1>0. /\ host[h].pc = "poll" /\ UNCHANGED <<result, quota, target, faults>>
      /\ HistoryOK(s) /\ SubmissionOK(s)
  BY VisitFacts DEF Acquire, At
<1>1. CASE /\ Store!MayAcquire(s, OwnerOf[h]) /\ Store!NextToken(s, OwnerOf[h]) <= MaxToken
           /\ Store!AcquireLease(s, OwnerOf[h])
           /\ Becomes(h, [host[h] EXCEPT !.pc = "leased", !.sub = s, !.todo = @ \ {s},
                                         !.token = Store!NextToken(s, OwnerOf[h])])
  <2>1. PICK t : t = Store!NextToken(s, OwnerOf[h])
    OBVIOUS
  <2>2. t \in 1..MaxToken
    <3>1. lease[s].left > 0 => lease[s].token \in 1..MaxToken
      BY <1>0 DEF SubmissionOK, LeaseOK
    <3>2. lease[s].token \in Nat
      BY <1>0 DEF HistoryOK
    <3> QED
      BY <1>1, <2>1, <3>1, <3>2, HostAssumption DEF Store!NextToken, Store!Live
  <2>3. PICK x : x = [host[h] EXCEPT !.pc = "leased", !.sub = s, !.todo = @ \ {s}, !.token = t]
    OBVIOUS
  <2>4. x \in HostState /\ x.pc = "leased" /\ x.sub = s /\ x.token = t
    <3>1. t \in Nat
      BY <2>2, HostAssumption
    <3> QED
      BY <2>3, <3>1, HostFields DEF HostState
  <2>5. Becomes(h, x) /\ host'[h] = x /\ \A g \in Host : g # h => host'[g] = host[g]
    <3>1. Becomes(h, x)
      BY <1>1, <2>1, <2>3, Zenon
    <3> QED
      BY <3>1, HostFields DEF Becomes
  <2>6. SP!Inv' /\ \A u \in Submission : Moves(u)
    BY <1>1, VisitFacts, OtherCalls, StoreMoves
  <2>7. PICK l : l = [owner |-> OwnerOf[h], token |-> t, left |-> TTL]
    OBVIOUS
  <2>8. /\ lease' = [lease EXCEPT ![s] = l] /\ l.token = t
        /\ UNCHANGED <<status, outbox, attempts, effect>>
    BY <1>1, <2>1, <2>7 DEF Store!AcquireLease
  <2>9. LeaseStep(s)
    BY <2>2, <2>8, LeaseWritten DEF LeaseStep
  <2>10. Aside(h)
    BY <2>4, <2>5 DEF Aside, MayBegin
  <2>11. \A u \in Submission : SubmissionMove(u)
    BY <1>0, <2>6, <2>9, <2>10, AsideStays, LeaseStepMoves
  <2>12. ItemOK(h)'
    <3>1. lease'[s].token = t
      BY <2>8, StoreTypes DEF IInv
    <3>2. status'[s] # "absent"
      BY <1>1, <2>8 DEF Store!MayAcquire, Store!Runnable
    <3> QED
      BY <2>2, <2>4, <2>5, <3>1, <3>2 DEF ItemOK, Busy
  <2>13. /\ result' \in [Submission -> Report \cup {NoReport}]
         /\ quota' \in [Submission -> BOOLEAN] /\ UNCHANGED target /\ faults' \in 0..MaxFaults
    BY <1>0 DEF IInv, HostTypes
  <2> QED
    BY <2>4, <2>5, <2>6, <2>11, <2>12, <2>13, VisitStep DEF Started
<1>2. CASE Becomes(h, [host[h] EXCEPT !.todo = @ \ {s}]) /\ UNCHANGED storeVars
  <2>1. PICK x : x = [host[h] EXCEPT !.todo = @ \ {s}]
    OBVIOUS
  <2>2. Dropped(x)
    BY <1>0, <2>1, HostFields DEF HostState, Dropped
  <2> QED
    BY <1>0, <1>2, <2>1, <2>2, DropStep, FaultBound
<1> QED
  BY <1>1, <1>2, Zenon DEF Acquire

LEMMA ListAttemptsStep ==
  ASSUME IInv, NEW h \in Host, ListAttempts(h)
  PROVE  IInv'
<1> DEFINE s == host[h].sub
<1>0. /\ host[h].pc = "leased" /\ UNCHANGED <<storeVars, result, quota, target, faults>>
      /\ ItemOK(h)
  BY VisitFacts DEF ListAttempts, At
<1>1. PICK b \in BOOLEAN : b <=> attempts[s] # <<>>
  OBVIOUS
<1>2. PICK x : x = [host[h] EXCEPT !.pc = "listed", !.recovered = b]
  OBVIOUS
<1>3. x \in HostState /\ x.pc = "listed" /\ x.sub = s /\ x.token = host[h].token
      /\ x.recovered = b
  BY <1>2, HostFields DEF HostState
<1>4. Becomes(h, x)
  <2>1. b = (attempts[s] # <<>>)
    BY <1>1
  <2> QED
    BY <1>2, <2>1 DEF ListAttempts
<1>5. host'[h] = x
  BY <1>4, HostFields DEF Becomes
<1>6. SP!Inv' /\ (Aside(h) => \A u \in Submission : SubmissionMove(u))
  BY <1>0, IdleStore, OnlyHost
<1>7. ItemOK(h)'
  <2>1. /\ s \in Submission /\ status[s] # "absent"
        /\ host[h].token \in 1..MaxToken /\ host[h].token <= lease[s].token
    BY <1>0 DEF ItemOK, Busy
  <2>2. ~b => DOMAIN attempts[s] = {}
    BY <1>1
  <2> QED
    BY <1>0, <1>1, <1>3, <1>5, <2>1, <2>2 DEF ItemOK, Busy, Started, storeVars
<1>8. /\ result' \in [Submission -> Report \cup {NoReport}]
      /\ quota' \in [Submission -> BOOLEAN] /\ UNCHANGED target /\ faults' \in 0..MaxFaults
  BY <1>0 DEF IInv, HostTypes
<1> QED
  BY <1>3, <1>4, <1>6, <1>7, <1>8, VisitStep DEF Started

\* The sweep of expired cancellations, seen from one submission.
LEMMA SweepMoves ==
  ASSUME IInv, Store!ReconcileCancelled(Store!Reconcilable, FALSE), Calmly,
         UNCHANGED <<result, quota, target>>,
         \A g \in Host : host'[g].pc = "etl" \/ MayBegin(g)' => host'[g] = host[g],
         NEW u \in Submission, Moves(u)
  PROVE  SubmissionMove(u)
<1>0. /\ HistoryOK(u) /\ SubmissionOK(u) /\ UNCHANGED lease
      /\ target[u].runs \in Nat
  BY HistoryHolds DEF IInv, HostTypes, Store!ReconcileCancelled
<1>1. CASE u \notin Store!Reconcilable
  <2>1. Calm(u)
    BY <1>1 DEF Store!ReconcileCancelled, Calm, SameStore, SameRun, Calmly
  <2> QED
    BY <2>1, CalmMoves
<1>2. CASE u \in Store!Reconcilable
  <2>1. /\ status[u] = "cancel_requested" /\ ~(lease[u].left > 0)
        /\ status'[u] = "cancelled" /\ outbox'[u] = outbox[u]
        /\ attempts'[u] = Store!Retired(u)
        /\ effect'[u] = IF Store!Running(u) # {} /\ effect[u] # "committed"
                        THEN "unknown" ELSE effect[u]
    BY <1>2 DEF Store!ReconcileCancelled, Store!Reconcilable, Store!Live
  <2>2. /\ DOMAIN attempts'[u] = DOMAIN attempts[u]
        /\ \A n \in DOMAIN attempts[u] :
             /\ attempts'[u][n].report = attempts[u][n].report
             /\ attempts'[u][n].delivered = attempts[u][n].delivered
    <3>1. DOMAIN Store!Retired(u) = DOMAIN attempts[u]
      BY DEF Store!Retired
    <3>2. ASSUME NEW n \in DOMAIN attempts[u]
          PROVE  /\ Store!Retired(u)[n].report = attempts[u][n].report
                 /\ Store!Retired(u)[n].delivered = attempts[u][n].delivered
      <4>1. \/ Store!Retired(u)[n] = attempts[u][n]
            \/ Store!Retired(u)[n] = [attempts[u][n] EXCEPT !.status = "lost"]
        BY <3>2 DEF Store!Retired
      <4>2. attempts[u][n] \in Store!AttemptRecord
        BY <1>0 DEF HistoryOK
      <4> QED
        BY <4>1, <4>2 DEF Store!AttemptRecord
    <3> QED
      BY <2>1, <3>1, <3>2
  <2>3. RunMove(u)
    BY <1>0, <2>1 DEF RunMove, TargetMove, BeginMove, EffectMove, Calmly, SubmissionOK, ReceiptTrue
  <2>4. ReportMove(u) /\ StartMove(u)
    BY <2>2 DEF ReportMove, StartMove
  <2>5. Settled(u)'
    <3>1. CASE Store!Running(u) # {}
      BY <2>1, <3>1 DEF Settled
    <3>2. CASE Store!Running(u) = {}
      <4>1. attempts[u] = <<>>
        BY <1>0, <2>1, <3>2 DEF HistoryOK, Store!NonTerminal, Store!Running
      <4>2. target[u].runs = 0 /\ ~target[u].committed
        BY <1>0, <4>1 DEF SubmissionOK, RunOnce
      <4>3. \A g \in Host : host[g].sub = u => host[g].pc # "etl" /\ ~MayBegin(g)
        <5>1. \A g \in Host : host[g].pc \in Started => host[g].attempt \in DOMAIN attempts[host[g].sub]
          BY VisitFacts DEF AttemptOK
        <5>2. DOMAIN attempts[u] = {}
          BY <4>1
        <5> QED
          BY <5>1, <5>2 DEF MayBegin, Started
      <4>4. \A g \in Host : host'[g].sub = u => host'[g].pc # "etl" /\ ~MayBegin(g)'
        BY <4>3 DEF Calmly, EtlStays, BeginStays
      <4> QED
        BY <4>2, <4>4 DEF Settled, Quiet
    <3> QED
      BY <3>1, <3>2
  <2>6. ClosedMove(u) /\ ChargeMove(u)
    BY <2>1, <2>5 DEF ClosedMove, ChargeMove, Store!NonTerminal, Store!Runnable
  <2>7. CoverMove(u)
    <3>1. \A g \in Host : host'[g].sub = u => ~Holds(g)'
      BY <1>0, <2>1 DEF Holds, Store!HoldsLease, Store!Live
    <3> QED
      BY <3>1 DEF CoverMove
  <2>8. LeaseOK(u)'
    BY <1>0 DEF SubmissionOK, LeaseOK
  <2> QED
    BY <2>3, <2>4, <2>6, <2>7, <2>8 DEF SubmissionMove
<1> QED
  BY <1>1, <1>2

LEMMA BeginTickStep ==
  ASSUME IInv, NEW h \in Host, BeginTick(h)
  PROVE  IInv'
<1>0. /\ Store!ReconcileCancelled(Store!Reconcilable, FALSE)
      /\ UNCHANGED <<result, quota, target, faults>>
  BY DEF BeginTick
<1>1. PICK x : x = [Idle EXCEPT !.pc = "scan"]
  OBVIOUS
<1>2. Dropped(x) /\ Becomes(h, x)
  BY <1>1, RestingStates DEF BeginTick
<1>3. /\ host' \in [Host -> HostState] /\ host'[h] = x
      /\ Aside(h) /\ HostOK(h)' /\ host'[h].pc \notin Started
  BY <1>2, DroppedIsAside
<1>4. SP!Inv' /\ \A u \in Submission : Moves(u)
  BY <1>0, OtherCalls, StoreMoves
<1>5. \A g \in Host : host'[g].pc = "etl" \/ MayBegin(g)' => host'[g] = host[g]
  BY <1>3 DEF Aside, MayBegin, Started
<1>6. \A u \in Submission : SubmissionMove(u)
  BY <1>0, <1>3, <1>4, <1>5, AsideIsCalm, SweepMoves
<1>7. HostTypes'
  BY <1>0, <1>3 DEF IInv, HostTypes
<1> QED
  BY <1>3, <1>4, <1>6, <1>7, StepKeepsInv DEF Aside

LEMMA StartAttemptStep ==
  ASSUME IInv, NEW h \in Host, StartAttempt(h)
  PROVE  IInv'
<1> DEFINE s == host[h].sub
           t == host[h].token
           n == Len(attempts[s]) + 1
<1>0. /\ host[h].pc = "listed" /\ UNCHANGED <<result, quota, target, faults>>
      /\ s \in Submission /\ status[s] # "absent"
      /\ t \in 1..MaxToken /\ t <= lease[s].token
      /\ HistoryOK(s) /\ SubmissionOK(s) /\ ItemOK(h) /\ OwnerOf[h] \in Owner
  BY VisitFacts DEF StartAttempt, At, ItemOK, Busy
<1>1. CASE /\ Store!MayStart(s, OwnerOf[h], t) /\ Store!StartAttempt(s, OwnerOf[h], t)
           /\ Becomes(h, [host[h] EXCEPT !.pc = "lookup", !.attempt = n])
  <2>0. n \in Nat /\ n \in 1..n
    BY <1>0 DEF HistoryOK
  <2>1. PICK k : k = n
    OBVIOUS
  <2>2. PICK x : x = [host[h] EXCEPT !.pc = "lookup", !.attempt = k]
    OBVIOUS
  <2>3. /\ x \in HostState /\ x.pc = "lookup" /\ x.attempt = k /\ x.sub = s /\ x.token = t
        /\ x.recovered = host[h].recovered /\ k \in Nat
    BY <2>0, <2>1, <2>2, HostFields DEF HostState
  <2>4. Becomes(h, x)
    BY <1>1, <2>1, <2>2
  <2>5. /\ host'[h] = x /\ host' \in [Host -> HostState]
        /\ \A g \in Host : g # h => host'[g] = host[g]
    BY <2>3, <2>4, HostFields DEF Becomes
  <2>6. SP!Inv' /\ \A u \in Submission : Moves(u)
    BY <1>0, <1>1, FencedCalls, StoreMoves
  <2>7. /\ status[s] \in Store!Runnable /\ lease[s].token = t
        /\ \A m \in DOMAIN attempts[s] :
             attempts[s][m].status = "running" => attempts[s][m].token < t
        /\ attempts' = [attempts EXCEPT ![s] =
                          Append(Store!Retired(s), Store!NewAttempt(OwnerOf[h], t))]
        /\ UNCHANGED <<status, outbox, lease, effect>>
    BY <1>1 DEF Store!StartAttempt, Store!MayStart, Store!HoldsLease, Store!Running
  <2>8. PICK a : a = Store!NewAttempt(OwnerOf[h], t)
    OBVIOUS
  <2>9. /\ a.owner = OwnerOf[h] /\ a.token = t /\ a.report = NoReport /\ a.delivered = FALSE
    BY <2>8 DEF Store!NewAttempt
  <2>10. /\ attempts'[s] = Append(Store!Retired(s), a)
         /\ \A u \in Submission \ {s} : attempts'[u] = attempts[u]
    BY <1>0, <2>7, <2>8, StoreTypes DEF IInv
  <2>11. /\ Len(attempts'[s]) = k /\ DOMAIN attempts'[s] = 1..k
         /\ attempts'[s][k] = a
         /\ \A m \in DOMAIN attempts[s] : attempts'[s][m] = Store!Retired(s)[m]
    <3>1. SP!TypeOK
      BY DEF IInv, SP!Inv
    <3>2. Store!Retired(s) = SP!Retired(s)
      BY DEF Store!Retired, SP!Retired, Store!Running, SP!Running
    <3>3. SP!AttemptRecord = Store!AttemptRecord
      BY DEF SP!AttemptRecord, Store!AttemptRecord, SP!AttemptStatus, Store!AttemptStatus
    <3>4. Store!Retired(s) \in Seq(Store!AttemptRecord) /\ Len(Store!Retired(s)) = Len(attempts[s])
      BY <1>0, <3>1, <3>2, <3>3, HostStore, SP!RetiredShape
    <3>5. PICK q \in Seq(Store!AttemptRecord) : q = Store!Retired(s)
      BY <3>4
    <3>6. Len(q) = Len(attempts[s])
      BY <3>4, <3>5
    <3>7. /\ Len(Append(q, a)) = Len(q) + 1 /\ DOMAIN Append(q, a) = 1..(Len(q) + 1)
          /\ Append(q, a)[Len(q) + 1] = a
          /\ \A m \in 1..Len(q) : Append(q, a)[m] = q[m]
      OBVIOUS
    <3> QED
      BY <1>0, <2>1, <2>10, <3>5, <3>6, <3>7 DEF HistoryOK
  <2>12. \A m \in DOMAIN attempts[s] :
           /\ attempts'[s][m].report = attempts[s][m].report
           /\ attempts'[s][m].delivered = attempts[s][m].delivered
    <3> SUFFICES ASSUME NEW m \in DOMAIN attempts[s]
                 PROVE  /\ attempts'[s][m].report = attempts[s][m].report
                        /\ attempts'[s][m].delivered = attempts[s][m].delivered
      OBVIOUS
    <3>1. \/ Store!Retired(s)[m] = attempts[s][m]
          \/ Store!Retired(s)[m] = [attempts[s][m] EXCEPT !.status = "lost"]
      BY DEF Store!Retired
    <3>2. attempts[s][m] \in Store!AttemptRecord
      BY <1>0 DEF HistoryOK
    <3>3. \/ attempts'[s][m] = attempts[s][m]
          \/ attempts'[s][m] = [attempts[s][m] EXCEPT !.status = "lost"]
      BY <2>11, <3>1
    <3> QED
      BY <3>2, <3>3 DEF Store!AttemptRecord
  <2>13. k \notin DOMAIN attempts[s] /\ \A m \in 1..k : m \in DOMAIN attempts[s] \/ m = k
    BY <1>0, <2>1 DEF HistoryOK
  <2>14. ~host[h].recovered => attempts[s] = <<>> /\ k = 1
    <3>1. ASSUME ~host[h].recovered, attempts[s] # <<>>
          PROVE  FALSE
      <4>1. Len(attempts[s]) \in DOMAIN attempts[s]
        BY <1>0, <3>1 DEF HistoryOK
      <4>2. /\ attempts[s][Len(attempts[s])].status = "running"
            /\ attempts[s][Len(attempts[s])].token \in Nat
        BY <1>0, <2>7, <3>1, <4>1 DEF HistoryOK, Store!NonTerminal
      <4>3. attempts[s][Len(attempts[s])].token >= t
        BY <1>0, <3>1, <4>1 DEF ItemOK
      <4>4. attempts[s][Len(attempts[s])].token < t
        BY <2>7, <4>1, <4>2
      <4> QED
        BY <1>0, <4>2, <4>3, <4>4, HostAssumption
    <3> QED
      BY <1>0, <2>1, <3>1 DEF HistoryOK
  <2>15. host[h].recovered => k # 1
    BY <1>0, <2>1 DEF ItemOK, HistoryOK
  <2>16. \A u \in Submission : EtlStays(u) /\ (u # s \/ host[h].recovered => BeginStays(u))
    BY <2>3, <2>5 DEF EtlStays, BeginStays, MayBegin
  <2>17. ASSUME NEW u \in Submission
         PROVE  SubmissionMove(u)
    <3>1. CASE u # s
      <4>1. Calm(u)
        BY <1>0, <2>7, <2>10, <2>16, <3>1 DEF Calm, SameStore, SameRun
      <4> QED
        BY <2>6, <4>1, CalmMoves
    <3>2. CASE u = s
      <4>1. BeginMove(s)
        BY <1>0, <2>7, <2>14, <2>16 DEF BeginMove, Store!Runnable, Store!Terminal
      <4>2. RunMove(s)
        BY <1>0, <2>6, <2>7, <2>16, <4>1 DEF RunMove, TargetMove, EffectMove
      <4>3. ReportMove(s)
        BY <1>0, <2>9, <2>11, <2>12, <2>13 DEF ReportMove
      <4>4. StartMove(s)
        <5>1. a.token >= lease[s].token
          BY <1>0, <2>7, <2>9, HostAssumption
        <5> QED
          BY <2>11, <2>13, <5>1 DEF StartMove
      <4>5. attempts'[s] # <<>>
        BY <2>0, <2>1, <2>11
      <4>6. ClosedMove(s) /\ ChargeMove(s) /\ CoverMove(s)
        BY <1>0, <2>7, <4>5 DEF ClosedMove, ChargeMove, CoverMove
      <4>7. LeaseOK(u)'
        BY <1>0, <2>7, <3>2 DEF SubmissionOK, LeaseOK
      <4> QED
        BY <3>2, <4>2, <4>3, <4>4, <4>6, <4>7 DEF SubmissionMove
    <3> QED
      BY <3>1, <3>2
  <2>18. ItemOK(h)'
    BY <1>0, <2>3, <2>5, <2>7 DEF ItemOK, Busy, Started
  <2>19. AttemptOK(h)'
    <3>1. /\ k \in DOMAIN attempts'[s] /\ attempts'[s][k].token = t
          /\ attempts'[s][k].owner = OwnerOf[h]
      BY <2>0, <2>1, <2>9, <2>11
    <3>2. host[h].recovered <=> k # 1
      BY <2>14, <2>15
    <3>3. PICK u : u = s
      OBVIOUS
    <3>4. host'[h].sub = u /\ host'[h].attempt = k /\ host'[h].token = t
          /\ host'[h].recovered = host[h].recovered
      BY <2>3, <2>5, <3>3
    <3> QED
      BY <3>1, <3>2, <3>3, <3>4 DEF AttemptOK
  <2>20. StageOK(h)'
    <3>1. ~host[h].recovered => target[s].runs = 0
      <4>1. target[s].runs \in Nat
        BY <1>0 DEF IInv, HostTypes
      <4> QED
        BY <1>0, <2>14, <4>1 DEF SubmissionOK, RunOnce
    <3> QED
      BY <1>0, <2>3, <2>5, <3>1 DEF StageOK, MayBegin, OutcomeOK, ClosingOK
  <2>21. Covered(h)'
    <3>1. ~host[h].recovered => quota[s] /\ status[s] \notin Store!Terminal
      BY <1>0, <2>7, <2>14 DEF SubmissionOK, Charged, Store!NonTerminal, Store!Runnable,
                               Store!Terminal
    <3> QED
      BY <1>0, <2>3, <2>5, <2>7, <3>1 DEF Covered, MayBegin
  <2>22. HostTypes'
    BY <1>0, <2>5 DEF IInv, HostTypes
  <2> QED
    BY <1>0, <2>3, <2>5, <2>6, <2>13, <2>17, <2>18, <2>19, <2>20, <2>21, <2>22, StepKeepsInv
       DEF HostOK
<1>2. CASE TickRaises(h) /\ UNCHANGED storeVars
  BY <1>0, <1>2, RestingStates, DropStep, FaultBound DEF TickRaises
<1> QED
  BY <1>1, <1>2 DEF StartAttempt

---------------------------------------------------------------------------
(* The run.                                                                *)

LEMMA MaxIsMember ==
  ASSUME NEW N \in Nat, NEW S \in SUBSET (1..N), S # {}
  PROVE  Max(S) \in S
<1> DEFINE T == {N - n : n \in S}
           R == OpToRel(<, Nat)
<1>1. T \subseteq Nat /\ T # {}
  OBVIOUS
<1>2. IsWellFoundedOn(R, Nat)
  BY NatLessThanWellFounded
<1> HIDE DEF R
<1>3. PICK x \in T : \A y \in T : ~(<<y, x>> \in R)
  BY <1>1, <1>2, WFMin
<1>4. \A y \in T : ~(y < x)
  BY <1>1, <1>3 DEF R, OpToRel
<1>5. PICK m \in S : x = N - m
  OBVIOUS
<1>6. ASSUME NEW n \in S
      PROVE  m >= n
  <2>1. N - n \in T
    OBVIOUS
  <2>2. ~(N - n < N - m)
    BY <1>4, <1>5, <2>1
  <2>3. m \in Int /\ n \in Int
    OBVIOUS
  <2> QED
    BY <2>2, <2>3
<1>7. \E k \in S : \A n \in S : k >= n
  BY <1>6
<1> QED
  BY <1>7 DEF Max

\* A mirrored report tells the truth.
LEMMA MirroredIsTrue ==
  ASSUME IInv, NEW s \in Submission, Mirrored(s) # NoReport
  PROVE  Mirrored(s) \in Report /\ Truth(s, Mirrored(s))
<1> DEFINE W == {n \in DOMAIN attempts[s] : attempts[s][n].report # NoReport}
<1>1. HistoryOK(s) /\ SubmissionOK(s)
  BY HistoryHolds DEF IInv
<1>2. W \in SUBSET (1..Len(attempts[s])) /\ Len(attempts[s]) \in Nat
  BY <1>1 DEF HistoryOK
<1>3. W # {} /\ Mirrored(s) = attempts[s][Max(W)].report
  BY DEF Mirrored
<1>4. Max(W) \in W
  BY <1>2, <1>3, MaxIsMember
<1> QED
  BY <1>1, <1>3, <1>4 DEF HistoryOK, SubmissionOK, ReportsTrue

\* The one of two places a report was found in.
LEMMA StoredIsTrue ==
  ASSUME IInv, NEW s \in Submission, Stored(s) # NoReport
  PROVE  Stored(s) \in Report /\ Truth(s, Stored(s))
<1>1. result[s] # NoReport => result[s] \in Report /\ Truth(s, result[s])
  BY DEF IInv, HostTypes, SubmissionOK, ReportsTrue
<1> QED
  BY <1>1, MirroredIsTrue DEF Stored

\* The facts about a host that has started an attempt.
LEMMA StartedFacts ==
  ASSUME IInv, NEW h \in Host, host[h].pc \in Started
  PROVE  /\ host[h].sub \in Submission /\ status[host[h].sub] # "absent"
         /\ attempts[host[h].sub] # <<>>
         /\ host[h].token \in 1..MaxToken /\ host[h].token <= lease[host[h].sub].token
         /\ host[h].attempt \in DOMAIN attempts[host[h].sub]
         /\ OwnerOf[h] \in Owner
<1>1. /\ host[h].sub \in Submission /\ status[host[h].sub] # "absent"
      /\ host[h].token \in 1..MaxToken /\ host[h].token <= lease[host[h].sub].token
      /\ host[h].attempt \in DOMAIN attempts[host[h].sub]
      /\ OwnerOf[h] \in Owner
  BY VisitFacts DEF ItemOK, AttemptOK, Busy, Started
<1> QED
  BY <1>1

LEMMA HeartbeatStep ==
  ASSUME IInv, NEW h \in Host, Heartbeat(h)
  PROVE  IInv'
<1> DEFINE s == host[h].sub
           t == host[h].token
<1>1. /\ Store!Heartbeat(s, OwnerOf[h], t) /\ UNCHANGED <<host, result, quota, target, faults>>
      /\ host[h].pc \in Started
  BY DEF Heartbeat, Monitored, Started
<1>2. s \in Submission /\ t \in 1..MaxToken /\ OwnerOf[h] \in Owner
  BY <1>1, StartedFacts
<1>3. SP!Next
  BY <1>1, <1>2, FencedCalls
<1>4. PICK l : l = [lease[s] EXCEPT !.left = TTL]
  OBVIOUS
<1>5. lease' = [lease EXCEPT ![s] = l] /\ l.token \in 1..MaxToken
  <2>1. lease[s] \in Store!LeaseRecord /\ lease[s].token = t
    BY <1>1, <1>2, StoreTypes DEF IInv, Store!Heartbeat, Store!HoldsLease
  <2> QED
    BY <1>1, <1>2, <1>4, <2>1 DEF Store!Heartbeat, Store!LeaseRecord
<1>6. LeaseStep(s)
  BY <1>1, <1>2, <1>5, LeaseWritten DEF LeaseStep, Store!Heartbeat
<1> QED
  BY <1>1, <1>2, <1>3, <1>6, LeaseEnvStep, FaultBound

\* What the monitor of a run tells it changes nothing else.
LEMMA MonitorStep ==
  ASSUME IInv, NEW h \in Host, MonitorSeesCancel(h) \/ MonitorLosesLease(h)
  PROVE  IInv'
<1> DEFINE s == host[h].sub
<1>1. /\ UNCHANGED <<storeVars, result, quota, target>> /\ faults' \in 0..MaxFaults
      /\ host[h].pc \in {"lookup", "etl", "ran"}
  BY FaultBound DEF MonitorSeesCancel, MonitorLosesLease, Monitored
<1>2. PICK lost \in BOOLEAN : Becomes(h, [host[h] EXCEPT !.cancel = TRUE, !.lost = lost])
  <2>1. CASE MonitorLosesLease(h)
    BY <2>1 DEF MonitorLosesLease
  <2>2. CASE MonitorSeesCancel(h)
    <3>1. [host[h] EXCEPT !.cancel = TRUE] = [host[h] EXCEPT !.cancel = TRUE, !.lost = host[h].lost]
      BY HostFields DEF HostState
    <3> QED
      BY <2>2, <3>1, HostFields DEF MonitorSeesCancel
  <2> QED
    BY <2>1, <2>2
<1>3. PICK x : x = [host[h] EXCEPT !.cancel = TRUE, !.lost = lost]
  OBVIOUS
<1>4. /\ x \in HostState /\ x.pc = host[h].pc /\ x.sub = s /\ x.token = host[h].token
      /\ x.attempt = host[h].attempt /\ x.recovered = host[h].recovered
      /\ x.outcome = host[h].outcome
  BY <1>3, HostFields DEF HostState
<1>5. /\ host'[h] = x /\ host' \in [Host -> HostState]
      /\ \A g \in Host : g # h => host'[g] = host[g]
  BY <1>2, <1>3, <1>4, HostFields DEF Becomes
<1>6. Aside(h) /\ Works(h)
  BY <1>1, <1>4, <1>5 DEF Aside, Works, MayBegin, Started
<1>7. SP!Inv' /\ \A u \in Submission : SubmissionMove(u)
  BY <1>1, <1>6, OnlyHost
<1>8. HostTypes'
  BY <1>1, <1>5 DEF IInv, HostTypes
<1>9. StageOK(h) /\ Covered(h)
  BY VisitFacts
<1>10. MayBegin(h)' <=> MayBegin(h)
  BY <1>4, <1>5 DEF MayBegin
<1>11. OutcomeOK(h)'
  <2>1. PICK u, r : u = s /\ r = host[h].outcome
    OBVIOUS
  <2>2. ASSUME host[h].pc = "ran", r \in Report
        PROVE  Truth(u, r)'
    <3>1. Truth(u, r) /\ u \in Submission
      BY <1>9, <2>1, <2>2, StartedFacts DEF StageOK, OutcomeOK, Started
    <3> QED
      BY <1>7, <3>1, TruthStays DEF SubmissionMove
  <2>3. host'[h].sub = u /\ host'[h].outcome = r /\ target'[u] = target[u]
    BY <1>1, <1>4, <1>5, <2>1
  <2> QED
    BY <1>1, <1>4, <1>5, <1>9, <2>1, <2>2, <2>3 DEF StageOK, OutcomeOK
<1>12. StageOK(h)'
  BY <1>1, <1>4, <1>5, <1>9, <1>10, <1>11 DEF StageOK, ClosingOK
<1>13. Covered(h)'
  <2>1. Holds(h)' <=> Holds(h)
    BY <1>1, <1>4, <1>5 DEF Holds, Store!HoldsLease, Store!Live, storeVars
  <2> QED
    BY <1>1, <1>4, <1>5, <1>9, <1>10, <2>1 DEF Covered, storeVars
<1> QED
  BY <1>5, <1>6, <1>7, <1>8, <1>12, <1>13, WorkStep

\* The run of h ends, one way or the other.
LEMMA RanStep ==
  ASSUME IInv, NEW h \in Host, host[h].pc \in {"lookup", "etl"}, NEW s, host[h].sub = s,
         NEW r \in Report \cup Raised, Returns(h, r),
         Aside(h) => SP!Inv' /\ \A u \in Submission : SubmissionMove(u),
         r \in Report => Truth(s, r)',
         r.status \in {"stopped", "rejected"} /\ ~host[h].recovered => target[s].runs = 0,
         result' \in [Submission -> Report \cup {NoReport}],
         UNCHANGED <<quota, target>>, faults' \in 0..MaxFaults
  PROVE  IInv'
<1>1. PICK x : x = [host[h] EXCEPT !.pc = "ran", !.outcome = r]
  OBVIOUS
<1>2. /\ x \in HostState /\ x.pc = "ran" /\ x.sub = s /\ x.token = host[h].token
      /\ x.attempt = host[h].attempt /\ x.recovered = host[h].recovered
      /\ x.outcome = r
  BY <1>1, HostFields DEF HostState
<1>3. /\ host'[h] = x /\ host' \in [Host -> HostState]
      /\ \A g \in Host : g # h => host'[g] = host[g]
  BY <1>1, <1>2, HostFields DEF Returns, Becomes
<1>4. Aside(h) /\ Works(h)
  BY <1>2, <1>3 DEF Aside, Works, MayBegin, Started
<1>5. HostTypes'
  BY <1>3 DEF IInv, HostTypes
<1>6. OutcomeOK(h)'
  BY <1>2, <1>3 DEF OutcomeOK
<1>7. StageOK(h)' /\ Covered(h)'
  BY <1>2, <1>3, <1>6 DEF StageOK, ClosingOK, Covered, MayBegin
<1> QED
  BY <1>3, <1>4, <1>5, <1>7, WorkStep

\* A report that was true before the run ended is true after it.
LEMMA TruthAfter ==
  ASSUME IInv, NEW h \in Host, NEW s, NEW r, NEW x, Truth(s, r), UNCHANGED target,
         x.pc # "etl", Becomes(h, x)
  PROVE  Truth(s, r)'
<1>1. \A g \in Host : host'[g] = host[g] \/ (g = h /\ host'[g].pc # "etl")
  BY HostFields DEF Becomes
<1>2. Over(s)'
  BY <1>1 DEF Truth, Over
<1> QED
  BY <1>2 DEF Truth

\* The field of a returning host.
LEMMA ReturnedState ==
  ASSUME IInv, NEW h \in Host, NEW r, Returns(h, r)
  PROVE  /\ [host[h] EXCEPT !.pc = "ran", !.outcome = r].pc # "etl"
         /\ Becomes(h, [host[h] EXCEPT !.pc = "ran", !.outcome = r])
BY HostFields DEF Returns, HostState

\* The errors a run may end with.
LEMMA RaisedKinds ==
  \A error \in {"rejected", "stopped", "error"} :
    /\ [status |-> error, effect |-> "unknown"] \in Raised
    /\ [status |-> error, effect |-> "unknown"].status = error
    /\ [status |-> error, effect |-> "unknown"] \notin Report
BY DEF Raised, Report

\* Nothing but an error comes of the run.
LEMMA RaiseStep ==
  ASSUME IInv, NEW h \in Host, host[h].pc \in {"lookup", "etl"},
         NEW error \in {"rejected", "stopped", "error"}, Raises(h, error),
         error = "error" \/ host[h].pc = "lookup",
         UNCHANGED <<storeVars, result, quota, target>>, faults' \in 0..MaxFaults
  PROVE  IInv'
<1>1. PICK r : r = [status |-> error, effect |-> "unknown"]
  OBVIOUS
<1>2. r \in Raised /\ r.status = error /\ r \notin Report
  BY <1>1, RaisedKinds
<1>3. Returns(h, r)
  BY <1>1 DEF Raises
<1>4. Aside(h) => SP!Inv' /\ \A u \in Submission : SubmissionMove(u)
  BY OnlyHost
<1>5. PICK s : s = host[h].sub
  OBVIOUS
<1>6. error # "error" /\ ~host[h].recovered => target[s].runs = 0
  BY <1>5, VisitFacts DEF StageOK, MayBegin
<1>7. result' \in [Submission -> Report \cup {NoReport}]
  BY DEF IInv, HostTypes
<1> QED
  BY <1>2, <1>3, <1>4, <1>5, <1>6, <1>7, RanStep

LEMMA RefuseRerunStep ==
  ASSUME IInv, NEW h \in Host, RefuseRerun(h)
  PROVE  IInv'
<1>1. /\ host[h].pc = "lookup" /\ Raises(h, "error")
      /\ UNCHANGED <<storeVars, result, quota, target>>
      /\ faults' \in 0..MaxFaults
  BY FaultBound DEF RefuseRerun, NotFound, At
<1> QED
  BY <1>1, RaiseStep

LEMMA StopBeforeRunStep ==
  ASSUME IInv, NEW h \in Host, StopBeforeRun(h)
  PROVE  IInv'
<1>1. /\ host[h].pc = "lookup" /\ UNCHANGED <<storeVars, result, quota, target>>
      /\ faults' \in 0..MaxFaults
      /\ \E error \in {"rejected", "stopped", "error"} : Raises(h, error)
  BY FaultBound DEF StopBeforeRun, At
<1> QED
  BY <1>1, RaiseStep

LEMMA EtlRaisesStep ==
  ASSUME IInv, NEW h \in Host, EtlRaises(h)
  PROVE  IInv'
<1>1. /\ host[h].pc = "etl" /\ Raises(h, "error")
      /\ UNCHANGED <<storeVars, result, quota, target>>
      /\ faults' \in 0..MaxFaults
  BY FaultBound DEF EtlRaises, At
<1> QED
  BY <1>1, RaiseStep

\* What the runner leaves in the store when it may.
Mirrors(h, q) ==
  \/ UNCHANGED storeVars
  \/ \E n \in DOMAIN attempts[host[h].sub], o \in Owner, t \in 1..MaxToken :
       Store!RecordResult(host[h].sub, n, o, t, q)

LEMMA MirrorCalls ==
  ASSUME IInv, NEW h \in Host, host[h].pc \in Started, NEW q
  PROVE  /\ MirrorReport(h, q) => Mirrors(h, q) /\ (Returns(h, q) \/ Raises(h, "error"))
         /\ MirrorIfAllowed(h, q) => Mirrors(h, q)
BY StartedFacts DEF MirrorReport, MirrorIfAllowed, Mirrors

\* A run that leaves the true report q somewhere, and returns it or raises.
LEMMA ReportStep ==
  ASSUME IInv, NEW h \in Host, host[h].pc \in {"lookup", "etl"}, NEW s, host[h].sub = s,
         NEW q \in Report, Truth(s, q)', Returns(h, q) \/ Raises(h, "error"),
         Mirrors(h, q), result' = result \/ result' = [result EXCEPT ![s] = q],
         UNCHANGED <<quota, target>>, faults' \in 0..MaxFaults
  PROVE  IInv'
<1>1. s \in Submission
  BY StartedFacts DEF Started
<1>2. Aside(h) => SP!Inv' /\ \A u \in Submission : SubmissionMove(u)
  BY <1>1, AsideIsCalm, ReportMoves DEF Mirrors
<1>3. result' \in [Submission -> Report \cup {NoReport}]
  BY <1>1 DEF IInv, HostTypes
<1>4. CASE Returns(h, q)
  <2>1. q.status \notin {"stopped", "rejected"}
    BY DEF Report
  <2> QED
    BY <1>2, <1>3, <1>4, <2>1, RanStep
<1>5. CASE Raises(h, "error")
  <2>1. PICK r : r = [status |-> "error", effect |-> "unknown"]
    OBVIOUS
  <2>2. r \in Raised /\ r.status = "error" /\ r \notin Report
    BY <2>1, RaisedKinds
  <2>3. Returns(h, r)
    BY <1>5, <2>1 DEF Raises
  <2> QED
    BY <1>2, <1>3, <2>2, <2>3, RanStep
<1> QED
  BY <1>4, <1>5

LEMMA RecoverReportStep ==
  ASSUME IInv, NEW h \in Host, RecoverReport(h)
  PROVE  IInv'
<1>0. /\ host[h].pc = "lookup" /\ host[h].pc \in Started
      /\ UNCHANGED <<result, quota, target>>
  BY DEF RecoverReport, At, Started
<1>1. PICK s \in Submission : s = host[h].sub
  BY <1>0, StartedFacts
<1>2. \A q : Returns(h, q) \/ Raises(h, "error") =>
        \E r : Returns(h, r)
  BY DEF Raises
<1>3. \A q : Truth(s, q) /\ (\E r : Returns(h, r)) => Truth(s, q)'
  BY <1>0, ReturnedState, TruthAfter
<1>4. CASE /\ result[s] # NoReport /\ UNCHANGED storeVars
           /\ \/ Returns(h, result[s]) /\ UNCHANGED faults
              \/ Raises(h, "error") /\ Fault("event")
  <2>1. PICK q : q = result[s]
    OBVIOUS
  <2>2. q \in Report /\ Truth(s, q)
    BY <1>4, <2>1, VisitFacts DEF IInv, HostTypes, SubmissionOK, ReportsTrue
  <2>3. Returns(h, q) \/ Raises(h, "error")
    BY <1>4, <2>1
  <2>4. Truth(s, q)' /\ Mirrors(h, q) /\ faults' \in 0..MaxFaults
    BY <1>2, <1>3, <1>4, <2>2, <2>3, FaultBound DEF Mirrors
  <2> QED
    BY <1>0, <1>1, <2>2, <2>3, <2>4, ReportStep
<1>5. CASE Mirrored(s) # NoReport /\ NotFound(s) /\ MirrorReport(h, Mirrored(s))
  <2>1. PICK q : q = Mirrored(s)
    OBVIOUS
  <2>2. q \in Report /\ Truth(s, q)
    BY <1>5, <2>1, MirroredIsTrue
  <2>3. Mirrors(h, q) /\ (Returns(h, q) \/ Raises(h, "error"))
    BY <1>0, <1>5, <2>1, MirrorCalls
  <2>4. Truth(s, q)' /\ faults' \in 0..MaxFaults
    BY <1>2, <1>3, <1>5, <2>2, <2>3, FaultBound DEF NotFound
  <2> QED
    BY <1>0, <1>1, <2>2, <2>3, <2>4, ReportStep
<1>6. CASE /\ Stored(s) # NoReport /\ faults' \in 0..MaxFaults
           /\ Raises(h, "error") /\ MirrorIfAllowed(h, Stored(s))
  <2>1. PICK q : q = Stored(s)
    OBVIOUS
  <2>2. q \in Report /\ Truth(s, q)
    BY <1>6, <2>1, StoredIsTrue
  <2>3. Mirrors(h, q)
    BY <1>0, <1>6, <2>1, MirrorCalls
  <2>4. Truth(s, q)'
    BY <1>2, <1>3, <1>6, <2>2
  <2> QED
    BY <1>0, <1>1, <1>6, <2>2, <2>3, <2>4, ReportStep
<1>7. \/ /\ result[s] # NoReport /\ UNCHANGED storeVars
         /\ \/ Returns(h, result[s]) /\ UNCHANGED faults
            \/ Raises(h, "error") /\ Fault("event")
      \/ Mirrored(s) # NoReport /\ NotFound(s) /\ MirrorReport(h, Mirrored(s))
      \/ /\ Stored(s) # NoReport /\ Fault(IF result[s] # NoReport THEN "report" ELSE "event")
         /\ Raises(h, "error") /\ MirrorIfAllowed(h, Stored(s))
  BY <1>1, Zenon DEF RecoverReport
<1> QED
  BY <1>4, <1>5, <1>6, <1>7, FaultBound

\* The submission whose target is written, the rest of it as it was.
LEMMA TargetMoves ==
  ASSUME IInv, UNCHANGED <<storeVars, result, quota>>, NEW u \in Submission,
         TargetMove(u), BeginStays(u)
  PROVE  SubmissionMove(u)
<1>1. Moves(u) /\ SubmissionOK(u)
  BY IdleStore DEF IInv
<1>2. RunMove(u)
  BY <1>1 DEF RunMove, BeginMove, EffectMove, storeVars
<1>3. ReportMove(u) /\ ClosedMove(u) /\ ChargeMove(u) /\ CoverMove(u) /\ StartMove(u)
  BY DEF ReportMove, ClosedMove, ChargeMove, CoverMove, StartMove, storeVars
<1>4. LeaseOK(u)'
  BY <1>1 DEF SubmissionOK, LeaseOK, storeVars
<1> QED
  BY <1>2, <1>3, <1>4 DEF SubmissionMove

LEMMA BeginEtlStep ==
  ASSUME IInv, NEW h \in Host, BeginEtl(h)
  PROVE  IInv'
<1>0. /\ host[h].pc = "lookup" /\ ~host[h].recovered
      /\ UNCHANGED <<storeVars, result, quota>> /\ faults' \in 0..MaxFaults
      /\ MayBegin(h)
  BY FaultBound DEF BeginEtl, At, NotFound, MayBegin
<1>1. PICK s \in Submission : s = host[h].sub
  BY <1>0, StartedFacts DEF Started
<1>2. PICK x : x = [host[h] EXCEPT !.pc = "etl"]
  OBVIOUS
<1>3. /\ x \in HostState /\ x.pc = "etl" /\ x.sub = s /\ x.token = host[h].token
      /\ x.attempt = host[h].attempt /\ x.recovered = host[h].recovered
  BY <1>1, <1>2, HostFields DEF HostState
<1>4. /\ host'[h] = x /\ host' \in [Host -> HostState]
      /\ \A g \in Host : g # h => host'[g] = host[g]
  <2>1. Becomes(h, x)
    BY <1>2 DEF BeginEtl
  <2> QED
    BY <1>3, <2>1, HostFields DEF Becomes
<1>5. /\ target[s] \in [runs : Nat, committed : BOOLEAN]
      /\ target \in [Submission -> [runs : Nat, committed : BOOLEAN]]
  BY DEF IInv, HostTypes
<1>6. PICK y : y = [target[s] EXCEPT !.runs = @ + 1]
  OBVIOUS
<1>7. /\ y \in [runs : Nat, committed : BOOLEAN] /\ y.runs = target[s].runs + 1
      /\ y.committed = target[s].committed
  BY <1>5, <1>6
<1>8. target' = [target EXCEPT ![s] = y]
  BY <1>1, <1>6 DEF BeginEtl
<1>9. /\ target' \in [Submission -> [runs : Nat, committed : BOOLEAN]]
      /\ target'[s] = y /\ \A u \in Submission \ {s} : target'[u] = target[u]
  BY <1>5, <1>7, <1>8
<1>10. \A u \in Submission : BeginStays(u) /\ (u # s => EtlStays(u))
  BY <1>1, <1>3, <1>4 DEF BeginStays, EtlStays, MayBegin
<1>11. \A u \in Submission : TargetMove(u)
  BY <1>0, <1>1, <1>3, <1>4, <1>7, <1>9, <1>10 DEF TargetMove
<1>12. SP!Inv' /\ \A u \in Submission : SubmissionMove(u)
  BY <1>0, <1>10, <1>11, IdleStore, TargetMoves
<1>13. HostTypes'
  BY <1>0, <1>4, <1>9 DEF IInv, HostTypes
<1>14. Works(h)
  BY <1>0, <1>1, <1>3, <1>4 DEF Works, Started
<1>15. StageOK(h)'
  <2>1. target[s].runs = 0
    BY <1>0, <1>1, VisitFacts DEF StageOK
  <2>2. target'[s].runs = 1
    BY <1>7, <1>9, <2>1
  <2> QED
    BY <1>0, <1>3, <1>4, <2>2 DEF StageOK, MayBegin, OutcomeOK, ClosingOK
<1>16. Covered(h)'
  <2>1. Holds(h)' <=> Holds(h)
    BY <1>0, <1>1, <1>3, <1>4 DEF Holds, Store!HoldsLease, Store!Live, storeVars
  <2>2. Covered(h)
    BY VisitFacts
  <2> QED
    BY <1>0, <1>1, <1>3, <1>4, <2>1, <2>2 DEF Covered, storeVars
<1> QED
  BY <1>4, <1>12, <1>13, <1>14, <1>15, <1>16, WorkStep

LEMMA CommitTargetStep ==
  ASSUME IInv, NEW h \in Host, CommitTarget(h)
  PROVE  IInv'
<1>0. /\ host[h].pc = "etl" /\ UNCHANGED <<storeVars, result, quota, host, faults>>
  BY DEF CommitTarget, At
<1>1. PICK s \in Submission : s = host[h].sub
  BY <1>0, StartedFacts DEF Started
<1>2. /\ target[s] \in [runs : Nat, committed : BOOLEAN]
      /\ target \in [Submission -> [runs : Nat, committed : BOOLEAN]]
  BY DEF IInv, HostTypes
<1>3. PICK y : y = [target[s] EXCEPT !.committed = TRUE]
  OBVIOUS
<1>4. /\ y \in [runs : Nat, committed : BOOLEAN] /\ y.runs = target[s].runs
      /\ y.committed
  BY <1>2, <1>3
<1>5. target' = [target EXCEPT ![s] = y]
  BY <1>1, <1>3 DEF CommitTarget
<1>6. /\ target' \in [Submission -> [runs : Nat, committed : BOOLEAN]]
      /\ target'[s] = y /\ \A u \in Submission \ {s} : target'[u] = target[u]
  BY <1>2, <1>4, <1>5
<1>7. \A u \in Submission : BeginStays(u) /\ EtlStays(u)
  BY <1>0 DEF BeginStays, EtlStays, MayBegin
<1>8. \A u \in Submission : TargetMove(u)
  BY <1>0, <1>1, <1>4, <1>6, <1>7 DEF TargetMove
<1>9. SP!Inv' /\ \A u \in Submission : SubmissionMove(u)
  BY <1>0, <1>7, <1>8, IdleStore, TargetMoves
<1>10. HostTypes'
  BY <1>0, <1>6 DEF IInv, HostTypes
<1>11. HostOK(h)'
  BY <1>0, <1>9, HostStays
<1> QED
  BY <1>0, <1>9, <1>10, <1>11, StepKeepsInv

LEMMA EndEtlStep ==
  ASSUME IInv, NEW h \in Host, NEW r \in Report, EndEtl(h, r)
  PROVE  IInv'
<1>0. /\ host[h].pc = "etl" /\ host[h].pc \in Started /\ UNCHANGED <<quota, target>>
      /\ Truthful(h, r)
  BY DEF EndEtl, At, Started
<1>1. PICK s \in Submission : s = host[h].sub
  BY <1>0, StartedFacts
<1>2. /\ Returns(h, r) \/ Raises(h, "error")
      /\ Mirrors(h, r) /\ faults' \in 0..MaxFaults
      /\ result' = result \/ result' = [result EXCEPT ![s] = r]
  <2>1. CASE /\ result' = [result EXCEPT ![s] = r]
             /\ \/ Returns(h, r) /\ UNCHANGED <<storeVars, faults>>
                \/ Raises(h, "error") /\ Fault("event") /\ UNCHANGED storeVars
                \/ Raises(h, "error") /\ Fault("report") /\ MirrorIfAllowed(h, r)
    BY <1>0, <2>1, FaultBound, MirrorCalls DEF Mirrors
  <2>2. CASE Fault("report") /\ MirrorReport(h, r) /\ UNCHANGED result
    BY <1>0, <2>2, FaultBound, MirrorCalls
  <2> QED
    BY <1>1, <2>1, <2>2 DEF EndEtl
<1>3. Truth(s, r)'
  <2>1. \A g \in Host : host[g].pc = "etl" /\ host[g].sub = s => g = h
    BY <1>0, <1>1, FirstIsAlone, VisitFacts DEF StageOK, Started
  <2>2. PICK x : Becomes(h, x) /\ x.pc # "etl"
    BY <1>2, ReturnedState DEF Raises
  <2>3. host'[h].pc # "etl" /\ \A g \in Host : g # h => host'[g] = host[g]
    BY <2>2, HostFields DEF Becomes
  <2>4. target[s].runs = 1
    BY <1>0, <1>1, VisitFacts DEF StageOK
  <2>5. Over(s)'
    BY <1>0, <2>1, <2>3, <2>4 DEF Over
  <2> QED
    BY <1>0, <1>1, <2>5 DEF Truth, Truthful
<1> QED
  BY <1>0, <1>1, <1>2, <1>3, ReportStep

---------------------------------------------------------------------------
(* Closing the attempt.                                                    *)

Has(L, step) == \E i \in DOMAIN L : L[i] = step

L1 == <<"effect", "quota", "finish", "publish", "release">>
L2 == <<"quota", "effect", "finish", "publish", "release">>
L3 == <<"quota", "finish", "publish", "release">>
L4 == <<"effect", "finish", "publish", "release">>
L5 == <<"finish", "publish", "release">>
L6 == <<"publish", "release">>
L7 == <<"release">>

\* The lists and how they shorten.
LEMMA ListTable ==
  /\ ClosingLists = {L1, L2, L3, L4, L5, L6, L7}
  /\ ClosingLists \subseteq Seq(Closing)
  /\ Head(L1) = "effect" /\ Tail(L1) = L3
  /\ Head(L2) = "quota" /\ Tail(L2) = L4
  /\ Head(L3) = "quota" /\ Tail(L3) = L5
  /\ Head(L4) = "effect" /\ Tail(L4) = L5
  /\ Head(L5) = "finish" /\ Tail(L5) = L6
  /\ Head(L6) = "publish" /\ Tail(L6) = L7
  /\ Head(L7) = "release"
<1>1. ClosingLists = {L1, L2, L3, L4, L5, L6, L7}
  BY DEF ClosingLists, L1, L2, L3, L4, L5, L6, L7
<1>2. /\ L1 \in Seq(Closing) /\ L2 \in Seq(Closing) /\ L3 \in Seq(Closing) /\ L4 \in Seq(Closing)
      /\ L5 \in Seq(Closing) /\ L6 \in Seq(Closing) /\ L7 \in Seq(Closing)
  BY DEF Closing, L1, L2, L3, L4, L5, L6, L7
<1>3. Head(L1) = "effect" /\ Tail(L1) = L3
  BY DEF L1, L3
<1>4. Head(L2) = "quota" /\ Tail(L2) = L4
  BY DEF L2, L4
<1>5. Head(L3) = "quota" /\ Tail(L3) = L5
  BY DEF L3, L5
<1>6. Head(L4) = "effect" /\ Tail(L4) = L5
  BY DEF L4, L5
<1>7. Head(L5) = "finish" /\ Tail(L5) = L6
  BY DEF L5, L6
<1>8. Head(L6) = "publish" /\ Tail(L6) = L7
  BY DEF L6, L7
<1>9. Head(L7) = "release"
  BY DEF L7
<1> QED
  BY <1>1, <1>2, <1>3, <1>4, <1>5, <1>6, <1>7, <1>8, <1>9

\* What is still ahead in each of them.
LEMMA AheadTable ==
  /\ Has(L1, "quota") /\ Has(L1, "effect")
  /\ Has(L2, "quota") /\ Has(L2, "effect")
  /\ Has(L3, "quota") /\ ~Has(L3, "effect") /\ Has(L3, "finish")
  /\ ~Has(L4, "quota") /\ Has(L4, "effect") /\ Has(L4, "publish")
  /\ ~Has(L5, "quota") /\ ~Has(L5, "effect") /\ Has(L5, "finish") /\ Has(L5, "publish")
  /\ ~Has(L6, "quota") /\ ~Has(L6, "finish") /\ Has(L6, "publish")
  /\ ~Has(L7, "finish") /\ ~Has(L7, "publish")
<1>1. Has(L1, "quota") /\ Has(L1, "effect")
  <2>1. DOMAIN L1 = 1..5 /\ L1[2] = "quota" /\ L1[1] = "effect"
    BY DEF L1
  <2> QED
    BY <2>1 DEF Has
<1>2. Has(L2, "quota") /\ Has(L2, "effect")
  <2>1. DOMAIN L2 = 1..5 /\ L2[1] = "quota" /\ L2[2] = "effect"
    BY DEF L2
  <2> QED
    BY <2>1 DEF Has
<1>3. Has(L3, "quota") /\ ~Has(L3, "effect") /\ Has(L3, "finish")
  <2>1. DOMAIN L3 = 1..4 /\ L3[1] = "quota" /\ L3[2] = "finish" /\ L3[3] = "publish"
        /\ L3[4] = "release"
    BY DEF L3
  <2> QED
    BY <2>1 DEF Has
<1>4. ~Has(L4, "quota") /\ Has(L4, "effect") /\ Has(L4, "publish")
  <2>1. DOMAIN L4 = 1..4 /\ L4[1] = "effect" /\ L4[2] = "finish" /\ L4[3] = "publish"
        /\ L4[4] = "release"
    BY DEF L4
  <2> QED
    BY <2>1 DEF Has
<1>5. ~Has(L5, "quota") /\ ~Has(L5, "effect") /\ Has(L5, "finish") /\ Has(L5, "publish")
  <2>1. DOMAIN L5 = 1..3 /\ L5[1] = "finish" /\ L5[2] = "publish" /\ L5[3] = "release"
    BY DEF L5
  <2> QED
    BY <2>1 DEF Has
<1>6. ~Has(L6, "quota") /\ ~Has(L6, "finish") /\ Has(L6, "publish")
  <2>1. DOMAIN L6 = 1..2 /\ L6[1] = "publish" /\ L6[2] = "release"
    BY DEF L6
  <2> QED
    BY <2>1 DEF Has
<1>7. ~Has(L7, "finish") /\ ~Has(L7, "publish")
  <2>1. DOMAIN L7 = 1..1 /\ L7[1] = "release"
    BY DEF L7
  <2> QED
    BY <2>1 DEF Has
<1> QED
  BY <1>1, <1>2, <1>3, <1>4, <1>5, <1>6, <1>7

\* While h works on an attempt no other host may still begin, or be in, ETL of
\* the same submission under a live lease.
LEMMA RivalLost ==
  ASSUME IInv, NEW g \in Host, NEW h \in Host, g # h, host[h].pc \in Started,
         host[g].sub = host[h].sub, host[g].pc = "etl" \/ MayBegin(g)
  PROVE  ~Holds(g)
<1> DEFINE s == host[h].sub
           m == host[g].attempt
           n == host[h].attempt
<1>1. host[g].pc \in Started /\ ~host[g].recovered
  BY VisitFacts DEF MayBegin, Started, StageOK
<1>2. /\ s \in Submission /\ n \in DOMAIN attempts[s] /\ m \in DOMAIN attempts[s]
      /\ m = 1 /\ n # 1 /\ attempts[s][m].token = host[g].token
  BY <1>1, StartedFacts, VisitFacts, FirstIsAlone DEF AttemptOK
<1>3. HistoryOK(s)
  BY <1>2, HistoryHolds DEF IInv
<1>4. m < n
  BY <1>2, <1>3 DEF HistoryOK
<1>5. /\ attempts[s][m].token < attempts[s][n].token /\ attempts[s][n].token <= lease[s].token
      /\ attempts[s][m].token \in Nat /\ attempts[s][n].token \in Nat /\ lease[s].token \in Nat
  BY <1>2, <1>3, <1>4 DEF HistoryOK
<1>6. lease[s].token # host[g].token
  BY <1>2, <1>5
<1> QED
  BY <1>6 DEF Holds, Store!HoldsLease

\* The same after a step that leaves the lease and the other hosts alone.
LEMMA RivalsLost ==
  ASSUME IInv, NEW h \in Host, host[h].pc \in Started, NEW s, s = host[h].sub,
         \A g \in Host : g # h => host'[g] = host[g], UNCHANGED lease,
         host'[h].pc # "etl", host'[h].pc # "lookup"
  PROVE  \A g \in Host : host'[g].sub = s /\ (host'[g].pc = "etl" \/ MayBegin(g)') => ~Holds(g)'
<1> SUFFICES ASSUME NEW g \in Host, host'[g].sub = s, host'[g].pc = "etl" \/ MayBegin(g)'
             PROVE  ~Holds(g)'
  OBVIOUS
<1>1. g # h /\ host'[g] = host[g]
  BY DEF MayBegin
<1>2. ~Holds(g)
  BY <1>1, RivalLost DEF MayBegin
<1> QED
  BY <1>1, <1>2 DEF Holds, Store!HoldsLease, Store!Live

\* A closing call that is done with.
LEMMA CloseStep ==
  ASSUME IInv, SP!Inv', NEW h \in Host, host[h].pc = "closing",
         NEW s, s = host[h].sub, NEW L \in ClosingLists,
         Becomes(h, [host[h] EXCEPT !.steps = L]),
         Aside(h) => \A u \in Submission : SubmissionMove(u),
         Has(L, "publish") /\ ~Has(L, "quota") => ~quota'[s],
         Has(L, "finish") /\ ~Has(L, "effect")
           /\ attempts'[s][host[h].attempt].status = "running" => Settled(s)',
         quota' \in [Submission -> BOOLEAN], UNCHANGED <<result, target>>,
         faults' \in 0..MaxFaults
  PROVE  IInv'
<1>1. PICK x : x = [host[h] EXCEPT !.steps = L]
  OBVIOUS
<1>2. /\ x \in HostState /\ x.pc = "closing" /\ x.sub = s /\ x.token = host[h].token
      /\ x.attempt = host[h].attempt /\ x.recovered = host[h].recovered
      /\ x.outcome = host[h].outcome /\ x.steps = L
  BY <1>1, HostFields, ListTable DEF HostState
<1>3. /\ host'[h] = x /\ host' \in [Host -> HostState]
      /\ \A g \in Host : g # h => host'[g] = host[g]
  BY <1>1, <1>2, HostFields DEF Becomes
<1>4. Aside(h) /\ Works(h)
  BY <1>2, <1>3 DEF Aside, Works, MayBegin, Started
<1>5. HostTypes'
  BY <1>3 DEF IInv, HostTypes
<1>6. OutcomeOK(h)'
  <2>1. PICK r : r = host[h].outcome
    OBVIOUS
  <2>2. OutcomeOK(h) /\ s \in Submission
    BY VisitFacts, StartedFacts DEF StageOK, Started
  <2>3. r \in Report => Truth(s, r)'
    BY <1>4, <2>1, <2>2, TruthStays DEF OutcomeOK, SubmissionMove
  <2>4. host'[h].outcome = r /\ host'[h].sub = s /\ host'[h].recovered = host[h].recovered
    BY <1>2, <1>3, <2>1
  <2> QED
    BY <2>1, <2>2, <2>3, <2>4 DEF OutcomeOK
<1>7. ClosingOK(h)'
  <2>1. \A step : Ahead(h, step)' <=> Has(L, step)
    BY <1>2, <1>3 DEF Ahead, Has
  <2>2. host'[h].sub = s /\ host'[h].attempt = host[h].attempt /\ host'[h].steps = L
    BY <1>2, <1>3
  <2> QED
    BY <2>1, <2>2 DEF ClosingOK
<1>8. StageOK(h)' /\ Covered(h)'
  BY <1>2, <1>3, <1>6, <1>7 DEF StageOK, Covered, MayBegin
<1> QED
  BY <1>3, <1>4, <1>5, <1>8, WorkStep

\* Concatenation of calls, element by element.
LEMMA Joined ==
  ASSUME NEW s, NEW t, NEW u, s \in Seq(Closing), t \in Seq(Closing), u \in Seq(Closing),
         NEW m \in Nat, NEW n \in Nat, NEW k \in Nat,
         m + n = k, Len(s) = m, Len(t) = n, Len(u) = k,
         \A i \in 1..k : u[i] = IF i <= m THEN s[i] ELSE t[i - m]
  PROVE  s \o t = u
<1>1. s \o t \in Seq(Closing) /\ Len(s \o t) = k
  BY ConcatProperties
<1>2. \A i \in 1..k : (s \o t)[i] = IF i <= m THEN s[i] ELSE t[i - m]
  BY ConcatProperties
<1> QED
  BY <1>1, <1>2, SeqEqual

\* The lists ClosingSteps puts together.
LEMMA ListsJoin ==
  /\ <<"quota", "effect">> \o Acknowledged = L2
  /\ <<"quota">> \o Acknowledged = L3
  /\ <<"effect", "quota">> \o Acknowledged = L1
<1>1. <<"quota", "effect">> \o Acknowledged = L2
  <2>1. PICK m \in Nat, n \in Nat, k \in Nat : m = 2 /\ n = 3 /\ k = 5
    OBVIOUS
  <2>2. PICK s, t, u : s = <<"quota", "effect">> /\ t = Acknowledged /\ u = L2
    OBVIOUS
  <2>3. /\ s \in Seq(Closing) /\ t \in Seq(Closing) /\ u \in Seq(Closing)
        /\ Len(s) = m /\ Len(t) = n /\ Len(u) = k /\ m + n = k
    BY <2>1, <2>2 DEF L2, Acknowledged, Closing
  <2>4. \A i \in 1..k : u[i] = IF i <= m THEN s[i] ELSE t[i - m]
    BY <2>1, <2>2 DEF L2, Acknowledged
  <2>5. s \o t = u
    BY <2>3, <2>4, Joined
  <2> QED
    BY <2>2, <2>5
<1>2. <<"quota">> \o Acknowledged = L3
  <2>1. PICK m \in Nat, n \in Nat, k \in Nat : m = 1 /\ n = 3 /\ k = 4
    OBVIOUS
  <2>2. PICK s, t, u : s = <<"quota">> /\ t = Acknowledged /\ u = L3
    OBVIOUS
  <2>3. /\ s \in Seq(Closing) /\ t \in Seq(Closing) /\ u \in Seq(Closing)
        /\ Len(s) = m /\ Len(t) = n /\ Len(u) = k /\ m + n = k
    BY <2>1, <2>2 DEF L3, Acknowledged, Closing
  <2>4. \A i \in 1..k : u[i] = IF i <= m THEN s[i] ELSE t[i - m]
    BY <2>1, <2>2 DEF L3, Acknowledged
  <2>5. s \o t = u
    BY <2>3, <2>4, Joined
  <2> QED
    BY <2>2, <2>5
<1>3. <<"effect", "quota">> \o Acknowledged = L1
  <2>1. PICK m \in Nat, n \in Nat, k \in Nat : m = 2 /\ n = 3 /\ k = 5
    OBVIOUS
  <2>2. PICK s, t, u : s = <<"effect", "quota">> /\ t = Acknowledged /\ u = L1
    OBVIOUS
  <2>3. /\ s \in Seq(Closing) /\ t \in Seq(Closing) /\ u \in Seq(Closing)
        /\ Len(s) = m /\ Len(t) = n /\ Len(u) = k /\ m + n = k
    BY <2>1, <2>2 DEF L1, Acknowledged, Closing
  <2>4. \A i \in 1..k : u[i] = IF i <= m THEN s[i] ELSE t[i - m]
    BY <2>1, <2>2 DEF L1, Acknowledged
  <2>5. s \o t = u
    BY <2>3, <2>4, Joined
  <2> QED
    BY <2>2, <2>5
<1> QED
  BY <1>1, <1>2, <1>3

\* What is known of a host that closes.
LEMMA ClosingFacts ==
  ASSUME IInv, NEW h \in Host, host[h].pc = "closing"
  PROVE  /\ host[h].steps \in ClosingLists /\ host[h].pc \in Started
         /\ OutcomeOK(h)
         /\ Has(host[h].steps, "publish") /\ ~Has(host[h].steps, "quota") => ~quota[host[h].sub]
         /\ Has(host[h].steps, "finish") /\ ~Has(host[h].steps, "effect")
              /\ attempts[host[h].sub][host[h].attempt].status = "running" =>
              Settled(host[h].sub)
         /\ quota \in [Submission -> BOOLEAN]
<1>1. \A step : Ahead(h, step) <=> Has(host[h].steps, step)
  BY DEF Ahead, Has
<1> QED
  BY <1>1, VisitFacts DEF StageOK, ClosingOK, Started, IInv, HostTypes

LEMMA ConcludeStep ==
  ASSUME IInv, NEW h \in Host, Conclude(h)
  PROVE  IInv'
<1>0. /\ host[h].pc = "ran" /\ host[h].pc \in Started
      /\ UNCHANGED <<storeVars, result, quota, target, faults>>
  BY DEF Conclude, At, Started
<1>1. CASE NextItem(h)
  BY <1>0, <1>1, HostFields, RestingStates, DropStep, FaultBound DEF NextItem
<1>2. CASE Becomes(h, [host[h] EXCEPT !.pc = "closing", !.steps = ClosingSteps(h)])
  <2>1. PICK s \in Submission : s = host[h].sub
    BY <1>0, StartedFacts
  <2>2. PICK r : r = host[h].outcome
    OBVIOUS
  <2>3. PICK L : L = ClosingSteps(h)
    OBVIOUS
  <2>4. \/ L = L1 \/ L = L2
        \/ L = L3 /\ r.status \in {"stopped", "rejected"} /\ ~host[h].recovered
    <3>5. CASE r.status = "stopped"
      BY <2>2, <2>3, <3>5, ListsJoin DEF ClosingSteps
    <3>6. CASE r.status # "stopped"
      BY <2>2, <2>3, <3>6, ListsJoin DEF ClosingSteps
    <3> QED
      BY <3>5, <3>6
  <2>5. L \in ClosingLists /\ Has(L, "quota")
    BY <2>4, ListTable, AheadTable
  <2>6. PICK x : x = [host[h] EXCEPT !.pc = "closing", !.steps = L]
    OBVIOUS
  <2>7. /\ x \in HostState /\ x.pc = "closing" /\ x.sub = s /\ x.token = host[h].token
        /\ x.attempt = host[h].attempt /\ x.recovered = host[h].recovered
        /\ x.outcome = r /\ x.steps = L
    BY <2>1, <2>2, <2>5, <2>6, HostFields, ListTable DEF HostState
  <2>8. /\ host'[h] = x /\ host' \in [Host -> HostState]
        /\ \A g \in Host : g # h => host'[g] = host[g]
    BY <1>2, <2>3, <2>6, <2>7, HostFields DEF Becomes
  <2>9. Aside(h) /\ Works(h)
    BY <1>0, <2>1, <2>7, <2>8 DEF Aside, Works, MayBegin, Started
  <2>10. SP!Inv' /\ \A u \in Submission : SubmissionMove(u)
    BY <1>0, <2>9, OnlyHost
  <2>11. HostTypes'
    BY <1>0, <2>8 DEF IInv, HostTypes
  <2>12. OutcomeOK(h) /\ SubmissionOK(s) /\ target[s].runs \in Nat
    BY VisitFacts DEF StageOK, IInv, HostTypes
  <2>13. OutcomeOK(h)'
    <3>1. r \in Report => Truth(s, r)'
      BY <1>0, <2>1, <2>2, <2>10, <2>12, TruthStays DEF OutcomeOK, SubmissionMove
    <3> QED
      BY <1>0, <2>1, <2>2, <2>7, <2>8, <2>12, <3>1 DEF OutcomeOK
  <2>14. ASSUME r.status \in {"stopped", "rejected"}, ~host[h].recovered
         PROVE  Settled(s)'
    <3>1. target[s].runs = 0 /\ ~target[s].committed
      BY <1>0, <2>1, <2>2, <2>12, <2>14 DEF OutcomeOK, SubmissionOK, RunOnce
    <3>2. ASSUME NEW g \in Host, host[g].sub = s
          PROVE  host[g].pc # "etl" /\ ~MayBegin(g)
      <4>1. host[g].pc # "etl"
        BY <3>1, <3>2, VisitFacts DEF StageOK
      <4>2. ~MayBegin(g)
        BY <1>0, <2>1, <2>14, <3>2, FirstIsAlone DEF MayBegin, Started
      <4> QED
        BY <4>1, <4>2
    <3>3. Settled(s) /\ attempts[s] # <<>>
      BY <1>0, <2>1, <3>1, <3>2, StartedFacts DEF Settled, Quiet
    <3> QED
      BY <2>10, <3>3, SettledStays DEF SubmissionMove
  <2>15. ClosingOK(h)'
    <3>1. \A step : Ahead(h, step)' <=> Has(L, step)
      BY <2>7, <2>8 DEF Ahead, Has
    <3>2. Has(L, "effect") \/ Settled(s)'
      BY <2>4, <2>14, AheadTable
    <3>3. host'[h].sub = s /\ host'[h].steps = L
      BY <2>7, <2>8
    <3> QED
      BY <2>5, <3>1, <3>2, <3>3 DEF ClosingOK
  <2>16. StageOK(h)' /\ Covered(h)'
    BY <2>7, <2>8, <2>13, <2>15 DEF StageOK, Covered, MayBegin
  <2> QED
    BY <2>8, <2>9, <2>10, <2>11, <2>16, WorkStep
<1> QED
  BY <1>1, <1>2 DEF Conclude

\* A refused call throws the host out of its tick.
LEMMA RaisesStep ==
  ASSUME IInv, NEW h \in Host, TickRaises(h),
         UNCHANGED <<storeVars, result, quota, target, faults>>
  PROVE  IInv'
BY RestingStates, DropStep, FaultBound DEF TickRaises

\* The receipt a host may write, and what is then settled.
LEMMA ReceiptMoves ==
  ASSUME IInv, NEW h \in Host, host[h].pc = "closing", NEW s, s = host[h].sub,
         NEW e, e = Effect(h), effect' = [effect EXCEPT ![s] = e],
         UNCHANGED <<status, outbox, lease, attempts, result, quota, target>>,
         Aside(h), \A u \in Submission : Moves(u)
  PROVE  (\A u \in Submission : SubmissionMove(u)) /\ Settled(s)'
<1>1. /\ s \in Submission /\ attempts[s] # <<>> /\ SubmissionOK(s)
      /\ effect'[s] = e /\ \A u \in Submission \ {s} : effect'[u] = effect[u]
  BY StartedFacts, StoreTypes, VisitFacts DEF Started, IInv
<1>2. Calmly
  BY AsideIsCalm
<1>3. \/ e = "unknown"
      \/ e = "committed" /\ target[s].committed
      \/ e = "none" /\ Over(s) /\ ~target[s].committed
  <2>1. CASE ~Classified(h)
    BY <2>1 DEF Effect
  <2>2. CASE Classified(h)
    <3>1. host[h].outcome \in Report /\ Truth(s, host[h].outcome) /\ e = host[h].outcome.effect
      BY <2>2, ClosingFacts DEF OutcomeOK, Classified, Effect
    <3>2. e \in {"none", "committed", "unknown"}
      BY <3>1 DEF Report
    <3> QED
      BY <3>1, <3>2 DEF Truth
  <2> QED
    BY <2>1, <2>2
<1>4. \A u \in Submission : RunMove(u)
  BY <1>1, <1>2, <1>3 DEF RunMove, TargetMove, BeginMove, EffectMove, Calmly
<1>5. Settled(s)'
  <2>1. CASE e = "unknown" \/ e = "committed"
    BY <1>1, <2>1 DEF Settled
  <2>2. CASE e = "none" /\ Over(s) /\ ~target[s].committed
    <3>1. Over(s)'
      BY <1>1, <1>4, <2>2, OverStays
    <3>2. \A g \in Host : host[g].sub = s => ~MayBegin(g)
      BY <2>2, VisitFacts DEF StageOK, Over
    <3>3. \A g \in Host : host'[g].sub = s => ~MayBegin(g)'
      BY <1>1, <1>2, <3>2 DEF Calmly, BeginStays
    <3> QED
      BY <1>1, <2>2, <3>1, <3>3 DEF Settled, Quiet, Over
  <2> QED
    BY <1>3, <2>1, <2>2
<1>6. ASSUME NEW u \in Submission
      PROVE  SubmissionMove(u)
  <2>1. ReportMove(u) /\ ClosedMove(u) /\ ChargeMove(u) /\ CoverMove(u) /\ StartMove(u)
    BY DEF ReportMove, ClosedMove, ChargeMove, CoverMove, StartMove
  <2>2. LeaseOK(u)'
    BY DEF IInv, SubmissionOK, LeaseOK
  <2> QED
    BY <1>4, <2>1, <2>2 DEF SubmissionMove
<1> QED
  BY <1>5, <1>6

LEMMA CloseEffectStep ==
  ASSUME IInv, NEW h \in Host, CloseEffect(h)
  PROVE  IInv'
<1>0. /\ host[h].pc = "closing" /\ Head(host[h].steps) = "effect"
      /\ UNCHANGED <<result, quota, target, faults>>
  BY DEF CloseEffect, Closes, At
<1>1. PICK s \in Submission : s = host[h].sub
  BY <1>0, ClosingFacts, StartedFacts
<1>2. PICK L : L = Tail(host[h].steps)
  OBVIOUS
<1>3. (host[h].steps = L1 /\ L = L3) \/ (host[h].steps = L4 /\ L = L5)
  <2>1. PICK K : K = host[h].steps
    OBVIOUS
  <2>2. K \in {L1, L2, L3, L4, L5, L6, L7} /\ Head(K) = "effect" /\ L = Tail(K)
    BY <1>0, <1>2, <2>1, ClosingFacts, ListTable
  <2>3. K = L1 \/ K = L4
    BY <2>2, ListTable
  <2> QED
    BY <2>1, <2>2, <2>3, ListTable
<1>4. /\ L \in ClosingLists
      /\ Has(L, "publish") /\ ~Has(L, "quota") => ~quota[s]
  BY <1>0, <1>1, <1>3, ClosingFacts, ListTable, AheadTable
<1>5. StepDone(h) => Becomes(h, [host[h] EXCEPT !.steps = L]) /\ (SP!Inv' => Aside(h))
  <2>1. StepDone(h) => Becomes(h, [host[h] EXCEPT !.steps = L])
    BY <1>2 DEF StepDone
  <2>2. [host[h] EXCEPT !.steps = L].pc = "closing"
    BY <1>0, HostFields DEF HostState
  <2>3. StepDone(h) => host'[h].pc = "closing" /\ \A g \in Host : g # h => host'[g] = host[g]
    BY <2>1, <2>2, HostFields DEF Becomes
  <2> QED
    BY <2>1, <2>3 DEF Aside, MayBegin
<1>6. quota' \in [Submission -> BOOLEAN] /\ faults' \in 0..MaxFaults
  BY <1>0 DEF IInv, HostTypes
<1>7. CASE /\ Store!RecordAttemptEffect(s, host[h].attempt, OwnerOf[h], host[h].token,
                                        Effect(h), Evidence(h))
           /\ StepDone(h)
  <2>1. Effect(h) \in {"none", "committed", "unknown"} /\ Evidence(h) \in Store!Evidence
    BY DEF Effect, Classified, Evidence, Store!Evidence, Report
  <2>2. SP!Inv' /\ \A u \in Submission : Moves(u)
    <3>1. /\ host[h].token \in 1..MaxToken /\ host[h].attempt \in DOMAIN attempts[s]
          /\ OwnerOf[h] \in Owner
      BY <1>0, <1>1, ClosingFacts, StartedFacts
    <3>2. SP!Next
      BY <1>1, <1>7, <2>1, <3>1, FencedCalls
    <3> QED
      BY <3>2, StoreMoves
  <2>3. PICK e : e = Effect(h)
    OBVIOUS
  <2>4. effect' = [effect EXCEPT ![s] = e] /\ UNCHANGED <<status, outbox, lease, attempts>>
    BY <1>7, <2>3 DEF Store!RecordAttemptEffect
  <2>5. Aside(h) /\ Becomes(h, [host[h] EXCEPT !.steps = L])
    BY <1>5, <1>7, <2>2
  <2>6. (\A u \in Submission : SubmissionMove(u)) /\ Settled(s)'
    BY <1>0, <1>1, <2>2, <2>3, <2>4, <2>5, ReceiptMoves
  <2>7. Has(L, "publish") /\ ~Has(L, "quota") => ~quota'[s]
    BY <1>0, <1>4
  <2> QED
    BY <1>0, <1>1, <1>4, <1>6, <2>2, <2>5, <2>6, <2>7, CloseStep
<1>8. CASE effect[s] = "committed" /\ StepDone(h) /\ UNCHANGED storeVars
  <2>1. SP!Inv' /\ (Aside(h) => \A u \in Submission : SubmissionMove(u))
    BY <1>0, <1>8, IdleStore, OnlyHost
  <2>2. Settled(s)'
    BY <1>8 DEF Settled, storeVars
  <2>3. Has(L, "publish") /\ ~Has(L, "quota") => ~quota'[s]
    BY <1>0, <1>4
  <2>4. Becomes(h, [host[h] EXCEPT !.steps = L])
    BY <1>5, <1>8
  <2> QED
    BY <1>0, <1>1, <1>4, <1>6, <2>1, <2>2, <2>3, <2>4, CloseStep
<1>9. CASE TickRaises(h) /\ UNCHANGED storeVars
  BY <1>0, <1>9, RaisesStep
<1> QED
  BY <1>1, <1>7, <1>8, <1>9 DEF CloseEffect

\* A host that goes on closing is only beside the others.
LEMMA ClosingIsAside ==
  ASSUME IInv, NEW h \in Host, host[h].pc = "closing",
         NEW L, Becomes(h, [host[h] EXCEPT !.steps = L])
  PROVE  /\ Aside(h) /\ host'[h].pc = "closing"
         /\ \A g \in Host : g # h => host'[g] = host[g]
<1>1. [host[h] EXCEPT !.steps = L].pc = "closing"
  BY HostFields DEF HostState
<1>2. host'[h].pc = "closing" /\ \A g \in Host : g # h => host'[g] = host[g]
  BY <1>1, HostFields DEF Becomes
<1> QED
  BY <1>2 DEF Aside, MayBegin

LEMMA CloseQuotaStep ==
  ASSUME IInv, NEW h \in Host, CloseQuota(h)
  PROVE  IInv'
<1>0. /\ host[h].pc = "closing" /\ Head(host[h].steps) = "quota"
      /\ UNCHANGED <<storeVars, result, target>>
  BY DEF CloseQuota, Closes, At
<1>1. PICK s \in Submission : s = host[h].sub
  BY <1>0, ClosingFacts, StartedFacts
<1>2. host[h].pc \in Started /\ attempts[s] # <<>>
  BY <1>0, <1>1, ClosingFacts, StartedFacts
<1>3. CASE quota' = [quota EXCEPT ![s] = FALSE] /\ StepDone(h) /\ UNCHANGED faults
  <2>1. PICK K, L : K = host[h].steps /\ L = Tail(K)
    OBVIOUS
  <2>2. K \in {L1, L2, L3, L4, L5, L6, L7} /\ Head(K) = "quota"
    BY <1>0, <2>1, ClosingFacts, ListTable
  <2>3. (K = L2 /\ L = L4) \/ (K = L3 /\ L = L5)
    BY <2>1, <2>2, ListTable
  <2>4. Becomes(h, [host[h] EXCEPT !.steps = L])
    BY <1>3, <2>1 DEF StepDone
  <2>5. /\ Aside(h) /\ host'[h].pc = "closing"
        /\ \A g \in Host : g # h => host'[g] = host[g]
    BY <1>0, <2>4, ClosingIsAside
  <2>6. SP!Inv' /\ \A u \in Submission : SubmissionMove(u)
    <3>1. \A g \in Host : host'[g].sub = s /\ (host'[g].pc = "etl" \/ MayBegin(g)') => ~Holds(g)'
      BY <1>0, <1>1, <1>2, <2>5, RivalsLost DEF storeVars
    <3>2. Calmly
      BY <2>5, AsideIsCalm
    <3> QED
      BY <1>0, <1>2, <1>3, <3>1, <3>2, ReleaseMoves
  <2>7. Has(L, "finish") /\ ~Has(L, "effect")
          /\ attempts'[s][host[h].attempt].status = "running" => Settled(s)'
    <3> SUFFICES ASSUME ~Has(L, "effect"), attempts'[s][host[h].attempt].status = "running"
                 PROVE  Settled(s)'
      OBVIOUS
    <3>1. K = L3
      BY <2>3, AheadTable
    <3>2. Has(K, "finish") /\ ~Has(K, "effect")
      BY <3>1, AheadTable
    <3>3. Settled(s)
      BY <1>0, <1>1, <2>1, <3>2, ClosingFacts DEF storeVars
    <3> QED
      BY <1>2, <2>6, <3>3, SettledStays DEF SubmissionMove
  <2>8. ~quota'[s] /\ quota' \in [Submission -> BOOLEAN] /\ faults' \in 0..MaxFaults
    BY <1>3 DEF IInv, HostTypes
  <2>9. L \in ClosingLists
    BY <2>3, ListTable
  <2> QED
    BY <1>0, <1>1, <2>4, <2>6, <2>7, <2>8, <2>9, CloseStep
<1>4. CASE Fault("quota") /\ Becomes(h, [host[h] EXCEPT !.steps = <<"release">>]) /\ UNCHANGED quota
  <2>1. Becomes(h, [host[h] EXCEPT !.steps = L7])
    BY <1>4 DEF L7
  <2>2. SP!Inv' /\ (Aside(h) => \A u \in Submission : SubmissionMove(u))
    BY <1>0, <1>4, IdleStore, OnlyHost
  <2>3. L7 \in ClosingLists /\ ~Has(L7, "publish") /\ ~Has(L7, "finish")
    BY ListTable, AheadTable
  <2>4. quota' \in [Submission -> BOOLEAN] /\ faults' \in 0..MaxFaults
    BY <1>4, FaultBound DEF IInv, HostTypes
  <2> QED
    BY <1>0, <1>1, <2>1, <2>2, <2>3, <2>4, CloseStep
<1> QED
  BY <1>1, <1>3, <1>4 DEF CloseQuota

LEMMA ClosePublishStep ==
  ASSUME IInv, NEW h \in Host, ClosePublish(h)
  PROVE  IInv'
<1>0. /\ host[h].pc = "closing" /\ Head(host[h].steps) = "publish"
      /\ Acknowledge(host[h].sub) /\ StepDone(h) /\ UNCHANGED <<result, quota, target, faults>>
  BY DEF ClosePublish, Closes, At
<1>1. PICK s \in Submission : s = host[h].sub
  BY <1>0, ClosingFacts, StartedFacts
<1>2. PICK K, L : K = host[h].steps /\ L = Tail(K)
  OBVIOUS
<1>3. K \in {L1, L2, L3, L4, L5, L6, L7} /\ Head(K) = "publish"
  BY <1>0, <1>2, ClosingFacts, ListTable
<1>4. K = L6 /\ L = L7
  BY <1>2, <1>3, ListTable
<1>5. ~quota[s]
  BY <1>0, <1>1, <1>2, <1>4, ClosingFacts, AheadTable
<1>6. Becomes(h, [host[h] EXCEPT !.steps = L])
  BY <1>0, <1>2 DEF StepDone
<1>7. SP!Inv' /\ \A u \in Submission : SubmissionMove(u)
  BY <1>0, <1>1, <1>5, <1>6, ClosingIsAside, AsideIsCalm, AcknowledgeMoves
<1>8. L \in ClosingLists /\ ~Has(L, "publish") /\ ~Has(L, "finish")
  BY <1>4, ListTable, AheadTable
<1>9. quota' \in [Submission -> BOOLEAN] /\ faults' \in 0..MaxFaults
  BY <1>0 DEF IInv, HostTypes
<1> QED
  BY <1>0, <1>1, <1>6, <1>7, <1>8, <1>9, CloseStep

LEMMA CloseReleaseStep ==
  ASSUME IInv, NEW h \in Host, CloseRelease(h)
  PROVE  IInv'
<1>0. host[h].pc = "closing" /\ NextItem(h) /\ UNCHANGED <<result, quota, target, faults>>
  BY DEF CloseRelease, Closes, At
<1>1. PICK x : x = Polling(host[h].todo)
  OBVIOUS
<1>2. Dropped(x) /\ Becomes(h, x)
  BY <1>0, <1>1, HostFields, RestingStates DEF NextItem
<1>3. CASE UNCHANGED storeVars
  BY <1>0, <1>2, <1>3, DropStep, FaultBound
<1>4. CASE Store!ReleaseLease(host[h].sub, OwnerOf[h], host[h].token)
  <2>1. PICK s \in Submission : s = host[h].sub
    BY <1>0, ClosingFacts, StartedFacts
  <2>2. SP!Inv' /\ \A u \in Submission : Moves(u)
    <3>1. host[h].token \in 1..MaxToken /\ OwnerOf[h] \in Owner
      BY <1>0, ClosingFacts, StartedFacts
    <3> QED
      BY <1>4, <2>1, <3>1, FencedCalls, StoreMoves
  <2>3. PICK l : l = [lease[s] EXCEPT !.left = 0]
    OBVIOUS
  <2>4. /\ lease' = [lease EXCEPT ![s] = l]
        /\ UNCHANGED <<status, outbox, attempts, effect>>
    BY <1>4, <2>1, <2>3 DEF Store!ReleaseLease
  <2>5. l.left = 0
    <3>1. lease[s] \in Store!LeaseRecord
      BY StoreTypes DEF IInv
    <3> QED
      BY <2>3, <3>1 DEF Store!LeaseRecord
  <2>6. LeaseStep(s)
    <3>1. l.left > 0 => l.token \in 1..MaxToken
      BY <2>5
    <3> QED
      BY <2>4, <3>1, LeaseWritten DEF LeaseStep
  <2>7. /\ host' \in [Host -> HostState]
        /\ Aside(h) /\ HostOK(h)' /\ host'[h].pc \notin Started
    BY <1>2, DroppedIsAside
  <2>8. \A u \in Submission : SubmissionMove(u)
    BY <1>0, <2>2, <2>6, <2>7, AsideStays, LeaseStepMoves
  <2>9. HostTypes'
    BY <1>0, <2>7 DEF IInv, HostTypes
  <2> QED
    BY <2>2, <2>7, <2>8, <2>9, StepKeepsInv DEF Aside
<1> QED
  BY <1>3, <1>4 DEF CloseRelease

\* The attempt's outcome is recorded, its effect settled before.
LEMMA FinishMoves ==
  ASSUME IInv, NEW h \in Host, host[h].pc = "closing", NEW s \in Submission, s = host[h].sub,
         NEW n, n = host[h].attempt, NEW v, v = Verdict(h),
         Store!FinishAttempt(s, n, OwnerOf[h], host[h].token, v), Settled(s),
         Aside(h), host'[h].pc = "closing", UNCHANGED <<result, quota, target>>
  PROVE  SP!Inv' /\ \A u \in Submission : SubmissionMove(u)
<1>0. /\ host[h].pc \in Started /\ attempts[s] # <<>> /\ n \in DOMAIN attempts[s]
      /\ host[h].token \in 1..MaxToken /\ OwnerOf[h] \in Owner /\ OutcomeOK(h)
  BY ClosingFacts, StartedFacts
<1>1. v \in Store!Outcome
  BY HostFields DEF Verdict, Classified, Report, Store!Outcome, Store!AttemptStatus
<1>2. SP!Inv' /\ \A u \in Submission : Moves(u)
  BY <1>0, <1>1, FencedCalls, StoreMoves
<1>3. HistoryOK(s) /\ attempts \in [Submission -> Seq(Store!AttemptRecord)]
      /\ status \in [Submission -> Store!NonTerminal \cup Store!Terminal \cup {"absent"}]
  BY HistoryHolds, StoreTypes DEF IInv
<1>4. PICK w : /\ attempts' = [attempts EXCEPT ![s][n].status = w]
               /\ UNCHANGED <<outbox, lease, effect>>
  BY DEF Store!FinishAttempt
<1>5. PICK a : a = [attempts[s][n] EXCEPT !.status = w]
  OBVIOUS
<1>6. /\ attempts' = [attempts EXCEPT ![s] = [attempts[s] EXCEPT ![n] = a]]
      /\ a.report = attempts[s][n].report /\ a.delivered = attempts[s][n].delivered
  BY <1>0, <1>3, <1>4, <1>5 DEF HistoryOK, Store!AttemptRecord
<1>7. /\ attempts'[s] = [attempts[s] EXCEPT ![n] = a]
      /\ \A u \in Submission \ {s} : attempts'[u] = attempts[u]
  BY <1>3, <1>6
<1>8. DOMAIN attempts'[s] = DOMAIN attempts[s] /\ n \in DOMAIN attempts'[s]
  BY <1>0, <1>7
<1>9. attempts'[s] # <<>>
  BY <1>8
<1>10. \A m \in DOMAIN attempts[s] : attempts'[s][m] = IF m = n THEN a ELSE attempts[s][m]
  BY <1>7, Zenon
<1>11. \A u \in Submission \ {s} : status'[u] = status[u]
  BY <1>3 DEF Store!FinishAttempt
<1>12. Calmly
  BY AsideIsCalm
<1>13. ASSUME NEW u \in Submission
       PROVE  SubmissionMove(u)
  <2>1. CASE u # s
    <3>1. Calm(u)
      BY <1>4, <1>7, <1>11, <1>12, <2>1 DEF Calm, SameStore, SameRun, Calmly
    <3> QED
      BY <1>2, <3>1, CalmMoves
  <2>2. CASE u = s
    <3>1. RunMove(s) /\ StartMove(s)
      BY <1>2, <1>4, <1>8, <1>12 DEF RunMove, TargetMove, BeginMove, EffectMove, StartMove,
                                     Calmly
    <3>2. ReportMove(s)
      BY <1>6, <1>8, <1>10 DEF ReportMove
    <3>3. ClosedMove(s)
      BY <1>0, <3>1, SettledStays DEF ClosedMove
    <3>4. ChargeMove(s)
      BY <1>4, <1>9 DEF ChargeMove
    <3>5. CoverMove(s)
      <4>1. \A g \in Host : host'[g].sub = s /\ (host'[g].pc = "etl" \/ MayBegin(g)') => ~Holds(g)'
        BY <1>0, <1>4, RivalsLost DEF Aside
      <4> QED
        BY <4>1 DEF CoverMove
    <3>6. LeaseOK(s)'
      BY <1>4 DEF IInv, SubmissionOK, LeaseOK
    <3> QED
      BY <2>2, <3>1, <3>2, <3>3, <3>4, <3>5, <3>6 DEF SubmissionMove
  <2> QED
    BY <2>1, <2>2
<1> QED
  BY <1>2, <1>13

LEMMA CloseFinishStep ==
  ASSUME IInv, NEW h \in Host, CloseFinish(h)
  PROVE  IInv'
<1>0. /\ host[h].pc = "closing" /\ Head(host[h].steps) = "finish"
      /\ UNCHANGED <<result, quota, target, faults>>
  BY DEF CloseFinish, Closes, At
<1>1. PICK s \in Submission : s = host[h].sub
  BY <1>0, ClosingFacts, StartedFacts
<1>2. PICK K, L : K = host[h].steps /\ L = Tail(K)
  OBVIOUS
<1>3. K \in {L1, L2, L3, L4, L5, L6, L7} /\ Head(K) = "finish"
  BY <1>0, <1>2, ClosingFacts, ListTable
<1>4. K = L5 /\ L = L6
  BY <1>2, <1>3, ListTable
<1>5. ~quota[s] /\ (attempts[s][host[h].attempt].status = "running" => Settled(s))
  BY <1>0, <1>1, <1>2, <1>4, ClosingFacts, AheadTable
<1>6. CASE StepDone(h) /\ UNCHANGED storeVars
  <2>1. Becomes(h, [host[h] EXCEPT !.steps = L])
    BY <1>2, <1>6 DEF StepDone
  <2>2. SP!Inv' /\ (Aside(h) => \A u \in Submission : SubmissionMove(u))
    BY <1>0, <1>6, IdleStore, OnlyHost
  <2>3. L \in ClosingLists /\ ~Has(L, "finish")
    BY <1>4, ListTable, AheadTable
  <2>4. quota' \in [Submission -> BOOLEAN] /\ faults' \in 0..MaxFaults /\ ~quota'[s]
    BY <1>0, <1>5 DEF IInv, HostTypes
  <2> QED
    BY <1>0, <1>1, <2>1, <2>2, <2>3, <2>4, CloseStep
<1>7. CASE /\ host[h].attempt \in Store!Running(s) /\ StepDone(h)
           /\ Store!FinishAttempt(s, host[h].attempt, OwnerOf[h], host[h].token, Verdict(h))
  <2>1. Becomes(h, [host[h] EXCEPT !.steps = L])
    BY <1>2, <1>7 DEF StepDone
  <2>2. Aside(h) /\ host'[h].pc = "closing"
    BY <1>0, <2>1, ClosingIsAside
  <2>3. SP!Inv' /\ \A u \in Submission : SubmissionMove(u)
    <3>1. Settled(s)
      BY <1>5, <1>7 DEF Store!Running
    <3> QED
      BY <1>0, <1>1, <1>7, <2>2, <3>1, FinishMoves
  <2>4. L \in ClosingLists /\ ~Has(L, "finish")
    BY <1>4, ListTable, AheadTable
  <2>5. quota' \in [Submission -> BOOLEAN] /\ faults' \in 0..MaxFaults /\ ~quota'[s]
    BY <1>0, <1>5 DEF IInv, HostTypes
  <2> QED
    BY <1>0, <1>1, <2>1, <2>3, <2>4, <2>5, CloseStep
<1>8. CASE TickRaises(h) /\ UNCHANGED storeVars
  BY <1>0, <1>8, RaisesStep
<1> QED
  BY <1>1, <1>6, <1>7, <1>8 DEF CloseFinish

---------------------------------------------------------------------------
(* The invariant.                                                          *)

LEMMA InitIInv == Init => IInv
<1> SUFFICES ASSUME Init PROVE IInv
  OBVIOUS
<1>1. SP!Inv
  <2>1. SP!Init
    BY DEF Init, Store!Init, SP!Init
  <2> QED
    BY <2>1, HostStore, SP!InitInv
<1>2. HostTypes
  <2>1. host \in [Host -> HostState]
    BY RestingStates DEF Init
  <2>2. target \in [Submission -> [runs : Nat, committed : BOOLEAN]]
    BY DEF Init
  <2>3. faults \in 0..MaxFaults
    BY HostAssumption DEF Init
  <2>4. /\ result \in [Submission -> Report \cup {NoReport}]
        /\ quota \in [Submission -> BOOLEAN]
    BY DEF Init
  <2> QED
    BY <2>1, <2>2, <2>3, <2>4 DEF HostTypes
<1>3. /\ \A s \in Submission :
           /\ status[s] = "absent" /\ outbox[s] = "absent" /\ attempts[s] = <<>>
           /\ lease[s].left = 0 /\ effect[s] = "absent"
           /\ result[s] = NoReport /\ ~target[s].committed /\ target[s].runs = 0
      /\ \A h \in Host : host[h].pc = "idle"
  BY RestingStates DEF Init, Store!Init
<1>4. ASSUME NEW s \in Submission
      PROVE  SubmissionOK(s)
  BY <1>3 DEF SubmissionOK, RunOnce, ReportsTrue, ReceiptTrue, Charged, LeaseOK,
              Store!Terminal, Store!NonTerminal, Store!Runnable
<1>5. ASSUME NEW h \in Host
      PROVE  HostOK(h)
  BY <1>3 DEF HostOK, ItemOK, AttemptOK, StageOK, OutcomeOK, ClosingOK, Covered, MayBegin,
              Busy, Started
<1>6. OneEach
  BY <1>3 DEF OneEach, Started
<1> QED
  BY <1>1, <1>2, <1>4, <1>5, <1>6 DEF IInv

LEMMA InvStep == IInv /\ [Next]_vars => IInv'
<1> SUFFICES ASSUME IInv, [Next]_vars
             PROVE  IInv'
  OBVIOUS
<1>1. CASE UNCHANGED vars
  <2>1. UNCHANGED <<storeVars, host, result, quota, target, faults>>
    BY <1>1 DEF vars, storeVars
  <2>2. SP!Inv' /\ \A s \in Submission : Moves(s)
    BY <2>1, IdleStore
  <2>3. \A s \in Submission : Calm(s)
    BY <2>1 DEF Calm, SameStore, SameRun, EtlStays, BeginStays, MayBegin, storeVars
  <2>4. \A s \in Submission : SubmissionMove(s)
    BY <2>2, <2>3, CalmMoves
  <2>5. HostTypes'
    BY <2>1 DEF IInv, HostTypes
  <2>6. \A h \in Host : HostOK(h)'
    BY <2>1, <2>2, <2>4, HostStays
  <2>7. OneEach'
    BY <2>1 DEF IInv, OneEach
  <2> QED
    BY <2>2, <2>4, <2>5, <2>6, <2>7, SubmissionStep DEF IInv
<1>2. CASE Environment
  BY <1>2, SubmitStep, RequestCancelStep, ProviderConfirmsStep, ElapseStep, CrashStep
     DEF Environment
<1>3. ASSUME NEW h \in Host, MonitorNext(h)
      PROVE  IInv'
  BY <1>3, HeartbeatStep, MonitorStep DEF MonitorNext
<1>4. ASSUME NEW h \in Host, TickNext(h)
      PROVE  IInv'
  <2>1. ASSUME NEW s \in Submission,
               \/ CleanupQuota(h, s) \/ SkipResult(h, s) \/ Acquire(h, s)
               \/ \E n \in DOMAIN attempts[s] : PublishResult(h, s, n)
        PROVE  IInv'
    BY <2>1, CleanupQuotaStep, SkipResultStep, AcquireStep, PublishResultStep
  <2> QED
    BY <1>4, <2>1, BeginTickStep, ScanTerminalStep, CleanupAckStep, ScanPendingStep,
       ScanResultsStep, MarkResultStep, EndTickStep, ListAttemptsStep, StartAttemptStep
       DEF TickNext
<1>5. ASSUME NEW h \in Host, RunNext(h)
      PROVE  IInv'
  BY <1>5, RecoverReportStep, RefuseRerunStep, StopBeforeRunStep, BeginEtlStep,
     CommitTargetStep, EtlRaisesStep, EndEtlStep DEF RunNext
<1>6. ASSUME NEW h \in Host, CloseNext(h)
      PROVE  IInv'
  BY <1>6, ConcludeStep, CloseEffectStep, CloseQuotaStep, CloseFinishStep, ClosePublishStep,
     CloseReleaseStep DEF CloseNext
<1> QED
  BY <1>1, <1>2, <1>3, <1>4, <1>5, <1>6 DEF Next, HostNext

LEMMA Invariance == Spec => []IInv
BY InitIInv, InvStep, PTL DEF Spec

---------------------------------------------------------------------------
(* What follows from it.                                                   *)

\* Every variable of the hosts and of their store keeps its type.
THEOREM HostTypeCorrect == Spec => []TypeOK
<1>1. IInv => TypeOK
  BY SameTypes DEF IInv, HostTypes, TypeOK, SP!Inv
<1> QED
  BY <1>1, Invariance, PTL

\* run_envelope and the recovery check before it: whatever hosts crash, stall
\* or take over, the ETL of a submission is begun at most once.
THEOREM EtlOnce == Spec => []EtlAtMostOnce
<1>1. IInv => EtlAtMostOnce
  BY DEF IInv, SubmissionOK, RunOnce, EtlAtMostOnce
<1> QED
  BY <1>1, Invariance, PTL

\* record_attempt_effect and the reconciler: the receipt of a submission never
\* says more of its target than is so, and never less once it is closed.
THEOREM ReceiptsHonest == Spec => []EffectsAreHonest
<1>1. IInv => EffectsAreHonest
  BY DEF IInv, SubmissionOK, ReceiptTrue, Settled, Quiet, EffectsAreHonest
<1> QED
  BY <1>1, Invariance, PTL

\* _reconcile_result_publications: what is marked delivered is in the report
\* store.
THEOREM DeliveryStored == Spec => []DeliveredIsStored
<1>1. IInv => DeliveredIsStored
  BY DEF IInv, SubmissionOK, ReportsTrue, DeliveredIsStored
<1> QED
  BY <1>1, Invariance, PTL

\* The order of the closing calls and of the terminal sweep: an acknowledged
\* outbox row leaves no reservation behind.
THEOREM NoLeak == Spec => []NoQuotaLeak
<1>1. IInv => NoQuotaLeak
  BY DEF IInv, SubmissionOK, Charged, NoQuotaLeak
<1> QED
  BY <1>1, Invariance, PTL

\* A run under a live lease is charged to its tenant until it is over.
THEOREM RunCovered == Spec => []QuotaCoversRun
<1>1. IInv => QuotaCoversRun
  BY DEF IInv, HostOK, Covered, QuotaCoversRun, At
<1> QED
  BY <1>1, Invariance, PTL

---------------------------------------------------------------------------
(* The hosts implement OnceExecution.                                      *)

PhaseMap == [s \in Submission |-> Phase(s)]
RunMap == [s \in Submission |-> RunState(s)]

\* What the abstraction sees of one submission.
LEMMA Seen ==
  ASSUME IInv, NEW s \in Submission
  PROVE  /\ PhaseMap[s] = Phase(s) /\ RunMap[s] = RunState(s)
         /\ status[s] \in Store!NonTerminal => Phase(s) = "open"
         /\ status[s] \in Store!Terminal => Phase(s) = status[s]
         /\ status[s] = "absent" => Phase(s) = "absent"
         /\ status[s] # "absent" => Phase(s) # "absent"
         /\ target[s].runs \in {0, 1} /\ target[s].committed \in BOOLEAN
         /\ target[s].committed => target[s].runs = 1 /\ RunState(s) = "committed"
         /\ target[s].runs = 0 => RunState(s) = "never"
         /\ target[s].runs = 1 /\ ~target[s].committed => RunState(s) = "begun"
<1>1. HistoryOK(s) /\ RunOnce(s) /\ target[s] \in [runs : Nat, committed : BOOLEAN]
  BY HistoryHolds DEF IInv, SubmissionOK, HostTypes
<1>2. PhaseMap[s] = Phase(s) /\ RunMap[s] = RunState(s)
  BY DEF PhaseMap, RunMap
<1>3. /\ status[s] \in Store!NonTerminal => Phase(s) = "open"
      /\ status[s] \in Store!Terminal => Phase(s) = status[s]
      /\ status[s] = "absent" => Phase(s) = "absent"
      /\ status[s] # "absent" => Phase(s) # "absent"
  BY <1>1 DEF Phase, HistoryOK, Store!NonTerminal, Store!Terminal, Store!Runnable
<1>4. target[s].runs \in {0, 1} /\ target[s].committed \in BOOLEAN
  BY <1>1 DEF RunOnce
<1>5. target[s].committed => target[s].runs = 1
  BY <1>1 DEF RunOnce
<1>6. target[s].committed = TRUE => RunState(s) = "committed"
  BY DEF RunState
<1>7. target[s].committed = FALSE /\ target[s].runs = 0 => RunState(s) = "never"
  BY DEF RunState
<1>8. target[s].committed = FALSE /\ target[s].runs = 1 => RunState(s) = "begun"
  BY DEF RunState
<1>9. target[s].committed \in {TRUE, FALSE}
  BY <1>4
<1> QED
  BY <1>2, <1>3, <1>4, <1>5, <1>6, <1>7, <1>8, <1>9

\* A step the abstraction does not see.
Unseen ==
  /\ UNCHANGED <<effect, target>>
  /\ \A s \in Submission :
       \/ status'[s] = status[s]
       \/ status[s] \in Store!NonTerminal /\ status'[s] \in Store!NonTerminal

LEMMA UnseenStutters ==
  ASSUME Unseen
  PROVE  UNCHANGED Once!ovars
<1>1. \A s \in Submission : Phase(s)' = Phase(s)
  BY DEF Unseen, Phase
<1>2. \A s \in Submission : RunState(s)' = RunState(s)
  BY DEF Unseen, RunState
<1>3. PhaseMap' = PhaseMap /\ RunMap' = RunMap
  BY <1>1, <1>2 DEF PhaseMap, RunMap
<1> QED
  BY <1>3 DEF Unseen, Once!ovars, PhaseMap, RunMap

\* What may be said of the run of s.
LEMMA HonestlySaid ==
  ASSUME IInv, NEW s \in Submission, NEW e,
         \/ e = "unknown"
         \/ e = "committed" /\ target[s].committed
         \/ e = "none" /\ ~target[s].committed
         \/ e # "committed" /\ target[s].runs = 0
  PROVE  Once!Honest(s, e)
<1>1. RunMap[s] \in {"never", "begun", "committed"}
      /\ (RunMap[s] = "never" => target[s].runs = 0 /\ ~target[s].committed)
      /\ (RunMap[s] = "begun" => target[s].runs = 1 /\ ~target[s].committed)
      /\ (RunMap[s] = "committed" => target[s].runs = 1 /\ target[s].committed)
  BY Seen DEF RunState
<1>2. /\ RunMap[s] = "never" => e # "committed"
      /\ RunMap[s] = "begun" => e \in {"none", "unknown"}
      /\ RunMap[s] = "committed" => e \in {"committed", "unknown"}
  BY <1>1
<1> QED
  BY <1>1, <1>2 DEF Once!Honest, RunMap

\* Only the phase, or only the run, of one submission changes.
LEMMA OnePhase ==
  ASSUME NEW s \in Submission, NEW p, Phase(s)' = p,
         \A u \in Submission \ {s} : Phase(u)' = Phase(u), UNCHANGED target
  PROVE  PhaseMap' = [PhaseMap EXCEPT ![s] = p] /\ RunMap' = RunMap
<1>1. RunMap' = RunMap
  BY DEF RunMap, RunState
<1>2. \A u \in Submission : Phase(u)' = IF u = s THEN p ELSE Phase(u)
  OBVIOUS
<1>3. PhaseMap' = [u \in Submission |-> IF u = s THEN p ELSE Phase(u)]
  BY <1>2 DEF PhaseMap
<1> QED
  BY <1>1, <1>3 DEF PhaseMap

LEMMA OneRun ==
  ASSUME NEW s \in Submission, NEW r, RunState(s)' = r,
         \A u \in Submission \ {s} : target'[u] = target[u], UNCHANGED status
  PROVE  RunMap' = [RunMap EXCEPT ![s] = r] /\ PhaseMap' = PhaseMap
<1>1. PhaseMap' = PhaseMap
  BY DEF PhaseMap, Phase
<1>2. \A u \in Submission : RunState(u)' = IF u = s THEN r ELSE RunState(u)
  BY DEF RunState
<1>3. RunMap' = [u \in Submission |-> IF u = s THEN r ELSE RunState(u)]
  BY <1>2 DEF RunMap
<1> QED
  BY <1>1, <1>3 DEF RunMap

LEMMA SubmitOnce ==
  ASSUME IInv, NEW s \in Submission, Submit(s)
  PROVE  Once!Accept(s)
<1>1. /\ status[s] = "absent" /\ status' = [status EXCEPT ![s] = "accepted"]
      /\ UNCHANGED <<effect, target>>
  BY DEF Submit, Store!Accept
<1>2. status'[s] = "accepted" /\ \A u \in Submission \ {s} : status'[u] = status[u]
  BY <1>1, StoreTypes DEF IInv
<1>3. Phase(s)' = "open" /\ \A u \in Submission \ {s} : Phase(u)' = Phase(u)
  BY <1>2 DEF Phase, Store!NonTerminal, Store!Runnable
<1>4. PhaseMap' = [PhaseMap EXCEPT ![s] = "open"] /\ RunMap' = RunMap
  BY <1>1, <1>3, OnePhase
<1>5. PhaseMap[s] = "absent"
  BY <1>1, Seen
<1> QED
  BY <1>1, <1>4, <1>5 DEF Once!Accept, PhaseMap, RunMap

\* What a receipt that is written must satisfy.
LEMMA RecordOnce ==
  ASSUME IInv, NEW s \in Submission, NEW e \in {"none", "committed", "unknown"},
         effect' = [effect EXCEPT ![s] = e], UNCHANGED <<status, target>>,
         status[s] # "absent",
         e = "committed" => target[s].committed,
         e = "none" => ~target[s].committed,
         effect[s] = "committed" => e = "committed",
         effect[s] = "unknown" => e \in {"committed", "unknown"}
  PROVE  Once!Record(s, e)
<1>1. PhaseMap' = PhaseMap /\ RunMap' = RunMap
  BY DEF PhaseMap, RunMap, Phase, RunState
<1>2. PhaseMap[s] # "absent"
  BY Seen
<1>3. Once!Honest(s, e)
  BY HonestlySaid
<1> QED
  BY <1>1, <1>2, <1>3 DEF Once!Record, PhaseMap, RunMap

LEMMA ProviderConfirmsOnce ==
  ASSUME IInv, NEW s \in Submission, ProviderConfirms(s)
  PROVE  Once!Record(s, "committed")
<1>1. /\ target[s].committed /\ status[s] # "absent"
      /\ effect' = [effect EXCEPT ![s] = "committed"]
      /\ UNCHANGED <<status, target>>
  BY DEF ProviderConfirms, Store!RecordEffect
<1> QED
  BY <1>1, RecordOnce

LEMMA CloseEffectOnce ==
  ASSUME IInv, NEW h \in Host, CloseEffect(h)
  PROVE  Unseen \/ \E s \in Submission, e \in {"none", "committed", "unknown"} : Once!Record(s, e)
<1>0. host[h].pc = "closing" /\ UNCHANGED target
  BY DEF CloseEffect, Closes, At
<1>1. PICK s \in Submission : s = host[h].sub /\ status[s] # "absent"
  BY <1>0, ClosingFacts, StartedFacts
<1>2. PICK e : e = Effect(h)
  OBVIOUS
<1>3. CASE Store!RecordAttemptEffect(s, host[h].attempt, OwnerOf[h], host[h].token, e, Evidence(h))
  <2>1. /\ effect' = [effect EXCEPT ![s] = e] /\ UNCHANGED status
        /\ Store!EffectMayBecome(effect[s], e, Evidence(h))
    BY <1>3 DEF Store!RecordAttemptEffect
  <2>2. e \in {"none", "committed", "unknown"}
    BY <1>2 DEF Effect, Classified, Report
  <2>3. /\ e = "committed" => target[s].committed
        /\ e = "none" => ~target[s].committed
    <3>1. CASE ~Classified(h)
      BY <1>2, <3>1 DEF Effect
    <3>2. CASE Classified(h)
      BY <1>0, <1>1, <1>2, <3>2, ClosingFacts DEF OutcomeOK, Classified, Effect, Truth
    <3> QED
      BY <3>1, <3>2
  <2>4. /\ effect[s] = "committed" => e = "committed"
        /\ effect[s] = "unknown" => e \in {"committed", "unknown"}
    BY <2>1, <2>2 DEF Store!EffectMayBecome, Evidence
  <2>5. Once!Record(s, e)
    BY <1>0, <1>1, <2>1, <2>2, <2>3, <2>4, RecordOnce
  <2> QED
    BY <2>2, <2>5
<1>4. CASE UNCHANGED storeVars
  BY <1>0, <1>4 DEF Unseen, storeVars
<1> QED
  BY <1>1, <1>2, <1>3, <1>4 DEF CloseEffect

\* A run that may begin or write is open, or its receipt leaves it in doubt.
LEMMA WriterMayWrite ==
  ASSUME IInv, NEW h \in Host,
         MayBegin(h) \/ (host[h].pc = "etl" /\ ~target[host[h].sub].committed),
         NEW s, s = host[h].sub
  PROVE  s \in Submission /\ Once!MayStillWrite(s)
<1>1. s \in Submission /\ status[s] # "absent" /\ HistoryOK(s) /\ SubmissionOK(s)
  BY StartedFacts, VisitFacts DEF MayBegin, Started
<1>2. /\ MayBegin(h) => target[s].runs = 0 /\ ~target[s].committed
      /\ host[h].pc = "etl" => ~Over(s)
  BY <1>1, VisitFacts DEF StageOK, Over, SubmissionOK, RunOnce
<1>3. effect[s] # "none" /\ effect[s] # "committed"
  BY <1>1, <1>2 DEF SubmissionOK, ReceiptTrue, Over
<1>4. status[s] \in Store!Terminal => effect[s] = "unknown"
  BY <1>1, <1>3 DEF SubmissionOK, ReceiptTrue, Settled, Quiet
<1>5. status[s] \in Store!NonTerminal => PhaseMap[s] = "open"
  BY <1>1, Seen
<1>6. status[s] \in Store!NonTerminal \cup Store!Terminal
  BY <1>1 DEF HistoryOK
<1> QED
  BY <1>1, <1>3, <1>4, <1>5, <1>6 DEF Once!MayStillWrite, PhaseMap

LEMMA BeginEtlOnce ==
  ASSUME IInv, NEW h \in Host, BeginEtl(h)
  PROVE  \E s \in Submission : Once!Begin(s)
<1>1. PICK s : s = host[h].sub
  OBVIOUS
<1>2. MayBegin(h) /\ UNCHANGED <<status, effect>>
  BY DEF BeginEtl, At, MayBegin, storeVars
<1>3. s \in Submission /\ Once!MayStillWrite(s)
  <2>1. MayBegin(h)
    BY <1>2
  <2> QED
    BY <1>1, <2>1, WriterMayWrite
<1>4. target[s].runs = 0 /\ ~target[s].committed
  BY <1>1, <1>2, <1>3, VisitFacts DEF StageOK, SubmissionOK, RunOnce
<1>5. PICK b : b = [target[s] EXCEPT !.runs = @ + 1]
  OBVIOUS
<1>6. target' = [target EXCEPT ![s] = b] /\ target \in [Submission -> [runs : Nat, committed : BOOLEAN]]
  BY <1>1, <1>5 DEF BeginEtl, IInv, HostTypes
<1>7. b.runs = 1 /\ ~b.committed
  BY <1>3, <1>4, <1>5, <1>6
<1>8. target'[s] = b /\ \A u \in Submission \ {s} : target'[u] = target[u]
  BY <1>3, <1>6
<1>9. RunState(s)' = "begun"
  BY <1>7, <1>8 DEF RunState
<1>10. RunMap' = [RunMap EXCEPT ![s] = "begun"] /\ PhaseMap' = PhaseMap
  BY <1>2, <1>3, <1>8, <1>9, OneRun
<1>11. RunMap[s] = "never"
  BY <1>3, <1>4, Seen
<1> QED
  BY <1>2, <1>3, <1>10, <1>11 DEF Once!Begin, PhaseMap, RunMap

LEMMA CommitTargetOnce ==
  ASSUME IInv, NEW h \in Host, CommitTarget(h)
  PROVE  \E s \in Submission : Once!Commit(s)
<1>1. PICK s : s = host[h].sub
  OBVIOUS
<1>2. /\ host[h].pc = "etl" /\ ~target[s].committed /\ UNCHANGED <<status, effect>>
      /\ target' = [target EXCEPT ![s].committed = TRUE]
  BY <1>1 DEF CommitTarget, At, storeVars
<1>3. s \in Submission /\ Once!MayStillWrite(s)
  BY <1>1, <1>2, WriterMayWrite
<1>4. target[s].runs = 1
  BY <1>1, <1>2, VisitFacts DEF StageOK
<1>5. target \in [Submission -> [runs : Nat, committed : BOOLEAN]]
  BY DEF IInv, HostTypes
<1>6. target'[s].committed = TRUE /\ \A u \in Submission \ {s} : target'[u] = target[u]
  BY <1>2, <1>3, <1>5
<1>7. RunState(s)' = "committed"
  BY <1>6 DEF RunState
<1>8. RunMap' = [RunMap EXCEPT ![s] = "committed"] /\ PhaseMap' = PhaseMap
  BY <1>2, <1>3, <1>6, <1>7, OneRun
<1>9. RunMap[s] = "begun"
  BY <1>2, <1>3, <1>4, Seen
<1> QED
  BY <1>2, <1>3, <1>8, <1>9 DEF Once!Commit, PhaseMap, RunMap

LEMMA CloseFinishOnce ==
  ASSUME IInv, NEW h \in Host, CloseFinish(h)
  PROVE  Unseen \/ \E s \in Submission, outcome \in Once!Closed : Once!Close(s, outcome)
<1>0. /\ host[h].pc = "closing" /\ Head(host[h].steps) = "finish" /\ UNCHANGED target
  BY DEF CloseFinish, Closes, At
<1>1. PICK s \in Submission : s = host[h].sub /\ status[s] # "absent"
  BY <1>0, ClosingFacts, StartedFacts
<1>2. PICK n, v : n = host[h].attempt /\ v = Verdict(h)
  OBVIOUS
<1>3. CASE n \in Store!Running(s) /\ Store!FinishAttempt(s, n, OwnerOf[h], host[h].token, v)
  <2>1. /\ n \in DOMAIN attempts[s] /\ attempts[s][n].status = "running"
        /\ HistoryOK(s) /\ SubmissionOK(s)
    BY <1>3, VisitFacts DEF Store!Running
  <2>2. Settled(s)
    <3>1. PICK K : K = host[h].steps
      OBVIOUS
    <3>2. K \in {L1, L2, L3, L4, L5, L6, L7} /\ Head(K) = "finish"
      BY <1>0, <3>1, ClosingFacts, ListTable
    <3>3. K = L5
      BY <3>2, ListTable
    <3> QED
      BY <1>0, <1>1, <1>2, <2>1, <3>1, <3>3, ClosingFacts, AheadTable
  <2>3. Once!Honest(s, effect[s])
    BY <2>1, <2>2, HonestlySaid DEF Settled, Quiet, SubmissionOK, ReceiptTrue, RunOnce
  <2>4. PICK w : /\ status' = [status EXCEPT ![s] = w] /\ w \in {"cancelled", "completed", "failed"}
                 /\ w = "completed" => v = "completed"
    <3>1. PICK cancelled : cancelled = (v = "cancelled" \/ status[s] = "cancel_requested")
      OBVIOUS
    <3>2. PICK w : w = IF cancelled THEN "cancelled"
                       ELSE IF v = "completed" THEN "completed" ELSE "failed"
      OBVIOUS
    <3>3. status' = [status EXCEPT ![s] = w]
      BY <1>3, <3>1, <3>2, Zenon DEF Store!FinishAttempt
    <3>4. w \in {"cancelled", "completed", "failed"} /\ (w = "completed" => v = "completed")
      BY <3>2
    <3> QED
      BY <3>3, <3>4
  <2>5. UNCHANGED effect
    BY <1>3 DEF Store!FinishAttempt
  <2>6. status'[s] = w /\ \A u \in Submission \ {s} : status'[u] = status[u]
    BY <2>4, StoreTypes DEF IInv
  <2>7. Phase(s)' = w /\ \A u \in Submission \ {s} : Phase(u)' = Phase(u)
    BY <2>4, <2>6 DEF Phase, Store!NonTerminal, Store!Runnable
  <2>8. PhaseMap' = [PhaseMap EXCEPT ![s] = w] /\ RunMap' = RunMap
    BY <1>0, <2>7, OnePhase
  <2>9. PhaseMap[s] = "open"
    BY <1>1, <2>1, Seen DEF HistoryOK
  <2>10. w = "completed" => RunMap[s] # "never"
    <3> SUFFICES ASSUME w = "completed"
                 PROVE  RunMap[s] # "never"
      OBVIOUS
    <3>1. host[h].outcome \in Report
      BY <1>2, <2>4 DEF Verdict, Classified
    <3>2. Over(s)
      BY <1>0, <1>1, <3>1, ClosingFacts DEF OutcomeOK, Truth
    <3> QED
      BY <3>2, Seen DEF Over
  <2>11. Once!Close(s, w)
    BY <2>3, <2>5, <2>8, <2>9, <2>10 DEF Once!Close, PhaseMap, RunMap
  <2> QED
    BY <2>4, <2>11 DEF Once!Closed
<1>4. CASE UNCHANGED storeVars
  BY <1>0, <1>4 DEF Unseen, storeVars
<1> QED
  BY <1>1, <1>2, <1>3, <1>4 DEF CloseFinish

LEMMA BeginTickOnce ==
  ASSUME IInv, NEW h \in Host, BeginTick(h)
  PROVE  \E S \in SUBSET Submission : \E doubtful \in SUBSET S : Once!Sweep(S, doubtful)
<1>1. PICK S : S = Store!Reconcilable
  OBVIOUS
<1>2. PICK D : D = {s \in S : Store!Running(s) # {} /\ effect[s] # "committed"}
  OBVIOUS
<1>3. /\ S \subseteq Submission /\ D \subseteq S
      /\ \A s \in S : status[s] = "cancel_requested"
  BY <1>1, <1>2 DEF Store!Reconcilable
<1>4. /\ \A s \in Submission : status'[s] = IF s \in S THEN "cancelled" ELSE status[s]
      /\ effect' = [s \in Submission |-> IF s \in D THEN "unknown" ELSE effect[s]]
      /\ UNCHANGED target
  <2>1. Store!ReconcileCancelled(S, FALSE) /\ UNCHANGED target
    BY <1>1 DEF BeginTick
  <2>2. effect' = [s \in Submission |->
                     IF s \in S /\ Store!Running(s) # {} /\ effect[s] # "committed"
                     THEN "unknown" ELSE effect[s]]
    BY <2>1 DEF Store!ReconcileCancelled
  <2>3. \A s \in Submission : s \in D <=> s \in S /\ Store!Running(s) # {} /\ effect[s] # "committed"
    BY <1>2
  <2> QED
    BY <2>1, <2>2, <2>3 DEF Store!ReconcileCancelled
<1>5. \A s \in S : PhaseMap[s] = "open"
  BY <1>3, Seen DEF Store!NonTerminal
<1>6. ASSUME NEW s \in S \ D
      PROVE  Once!Honest(s, effect[s])
  <2>1. s \in Submission /\ HistoryOK(s) /\ SubmissionOK(s) /\ status[s] = "cancel_requested"
    BY <1>3, VisitFacts, HistoryHolds DEF IInv
  <2>2. CASE effect[s] = "committed"
    BY <2>1, <2>2, HonestlySaid DEF SubmissionOK, ReceiptTrue
  <2>3. CASE effect[s] # "committed"
    <3>1. Store!Running(s) = {}
      BY <1>2, <2>3
    <3>2. attempts[s] = <<>>
      BY <2>1, <3>1 DEF HistoryOK, Store!NonTerminal, Store!Running
    <3>3. target[s].runs = 0
      BY <2>1, <3>2, Seen DEF SubmissionOK, RunOnce
    <3> QED
      BY <2>1, <2>3, <3>3, HonestlySaid
  <2> QED
    BY <2>2, <2>3
<1>7. \A s \in Submission : Phase(s)' = IF s \in S THEN "cancelled" ELSE Phase(s)
  BY <1>4 DEF Phase, Store!NonTerminal, Store!Runnable
<1>8. /\ PhaseMap' = [s \in Submission |-> IF s \in S THEN "cancelled" ELSE Phase(s)]
      /\ RunMap' = RunMap
  BY <1>4, <1>7 DEF PhaseMap, RunMap, RunState
<1>9. PhaseMap' = [s \in Submission |-> IF s \in S THEN "cancelled" ELSE PhaseMap[s]]
  BY <1>8 DEF PhaseMap
<1>10. \A s \in D : effect[s] # "committed"
  BY <1>2
<1>11. Once!Sweep(S, D)
  BY <1>3, <1>4, <1>5, <1>6, <1>8, <1>9, <1>10 DEF Once!Sweep, PhaseMap, RunMap
<1> QED
  BY <1>3, <1>11

\* Nothing else is seen.
LEMMA OthersUnseen ==
  ASSUME IInv, NEW h \in Host
  PROVE  /\ TickNext(h) => Unseen \/ BeginTick(h)
         /\ RunNext(h) => Unseen \/ BeginEtl(h) \/ CommitTarget(h)
         /\ CloseNext(h) => Unseen \/ CloseEffect(h) \/ CloseFinish(h)
         /\ MonitorNext(h) => Unseen
<1>1. \A s : Acknowledge(s) /\ UNCHANGED target => Unseen
  <2> SUFFICES ASSUME NEW s, Acknowledge(s), UNCHANGED target
               PROVE  Unseen
    OBVIOUS
  <2>1. UNCHANGED storeVars => Unseen
    BY DEF Unseen, storeVars
  <2>2. Store!MarkPublished(s) => Unseen
    BY StoreTypes DEF IInv, Store!MarkPublished, Unseen, Store!NonTerminal, Store!Runnable
  <2> QED
    BY <2>1, <2>2 DEF Acknowledge
<1>2. UNCHANGED <<status, effect, target>> => Unseen
  BY DEF Unseen
<1>3. TickNext(h) => Unseen \/ BeginTick(h)
  <2>1. ScanTerminal(h) \/ ScanPending(h) \/ ScanResults(h) \/ EndTick(h) \/ ListAttempts(h)
          => Unseen
    BY <1>2 DEF ScanTerminal, ScanPending, ScanResults, EndTick, ListAttempts, storeVars
  <2>2. CleanupAck(h) => Unseen
    BY <1>1 DEF CleanupAck
  <2>3. MarkResult(h) => Unseen
    BY <1>2 DEF MarkResult, Store!MarkResultPublished, storeVars
  <2>4. StartAttempt(h) => Unseen
    BY <1>2 DEF StartAttempt, Store!StartAttempt, storeVars
  <2>5. ASSUME NEW s \in Submission
        PROVE  /\ CleanupQuota(h, s) => Unseen
               /\ SkipResult(h, s) => Unseen
               /\ Acquire(h, s) => Unseen
               /\ \A n \in DOMAIN attempts[s] : PublishResult(h, s, n) => Unseen
    BY <1>2 DEF CleanupQuota, SkipResult, Acquire, PublishResult, Store!AcquireLease, storeVars
  <2> QED
    BY <2>1, <2>2, <2>3, <2>4, <2>5 DEF TickNext
<1>4. RunNext(h) => Unseen \/ BeginEtl(h) \/ CommitTarget(h)
  <2>1. \A r : MirrorReport(h, r) \/ MirrorIfAllowed(h, r) => UNCHANGED <<status, effect>>
    BY DEF MirrorReport, MirrorIfAllowed, Store!RecordResult, storeVars
  <2>2. RefuseRerun(h) \/ StopBeforeRun(h) \/ EtlRaises(h) => Unseen
    BY <1>2 DEF RefuseRerun, StopBeforeRun, EtlRaises, storeVars
  <2>3. RecoverReport(h) => Unseen
    BY <1>2, <2>1 DEF RecoverReport, storeVars
  <2>4. \A r \in Report : EndEtl(h, r) => Unseen
    BY <1>2, <2>1 DEF EndEtl, storeVars
  <2> QED
    BY <2>2, <2>3, <2>4 DEF RunNext
<1>5. CloseNext(h) => Unseen \/ CloseEffect(h) \/ CloseFinish(h)
  <2>1. Conclude(h) \/ CloseQuota(h) => Unseen
    BY <1>2 DEF Conclude, CloseQuota, storeVars
  <2>2. ClosePublish(h) => Unseen
    BY <1>1 DEF ClosePublish
  <2>3. CloseRelease(h) => Unseen
    BY <1>2 DEF CloseRelease, Store!ReleaseLease, storeVars
  <2> QED
    BY <2>1, <2>2, <2>3 DEF CloseNext
<1>6. MonitorNext(h) => Unseen
  BY <1>2 DEF MonitorNext, Heartbeat, MonitorSeesCancel, MonitorLosesLease, Store!Heartbeat,
              storeVars
<1> QED
  BY <1>3, <1>4, <1>5, <1>6

\* Every step of the hosts is a step of OnceExecution, or is not seen by it.
LEMMA StepIsOnce ==
  ASSUME IInv, [Next]_vars
  PROVE  [Once!OnceNext]_(Once!ovars)
<1>1. Unseen => UNCHANGED Once!ovars
  BY UnseenStutters
<1>2. UNCHANGED vars => Unseen
  BY DEF vars, storeVars, Unseen
<1>3. ASSUME NEW h \in Host, HostNext(h) \/ MonitorNext(h)
      PROVE  Unseen \/ Once!OnceNext
  <2>1. \/ Unseen \/ BeginTick(h) \/ BeginEtl(h) \/ CommitTarget(h) \/ CloseEffect(h)
        \/ CloseFinish(h)
    BY <1>3, OthersUnseen DEF HostNext
  <2>2. BeginTick(h) => Once!OnceNext
    BY BeginTickOnce DEF Once!OnceNext
  <2>3. BeginEtl(h) => Once!OnceNext
    BY BeginEtlOnce DEF Once!OnceNext
  <2>4. CommitTarget(h) => Once!OnceNext
    BY CommitTargetOnce DEF Once!OnceNext
  <2>5. CloseEffect(h) => Unseen \/ Once!OnceNext
    BY CloseEffectOnce DEF Once!OnceNext
  <2>6. CloseFinish(h) => Unseen \/ Once!OnceNext
    BY CloseFinishOnce DEF Once!OnceNext
  <2> QED
    BY <2>1, <2>2, <2>3, <2>4, <2>5, <2>6
<1>4. ASSUME NEW s \in Submission
      PROVE  /\ Submit(s) => Once!OnceNext
             /\ RequestCancel(s) => Unseen
             /\ ProviderConfirms(s) => Once!OnceNext
             /\ Elapse(s) => Unseen
  <2>1. Submit(s) => Once!OnceNext
    BY SubmitOnce DEF Once!OnceNext
  <2>2. RequestCancel(s) => Unseen
    BY StoreTypes DEF IInv, RequestCancel, Store!CancelSubmission, Unseen, Store!NonTerminal
  <2>3. ProviderConfirms(s) => Once!OnceNext
    BY ProviderConfirmsOnce DEF Once!OnceNext
  <2>4. Elapse(s) => Unseen
    BY DEF Elapse, Store!Elapse, Unseen
  <2> QED
    BY <2>1, <2>2, <2>3, <2>4
<1>5. \A h \in Host : Crash(h) \/ Restart(h) => Unseen
  BY DEF Crash, Restart, Unseen, storeVars
<1>6. Environment => Unseen \/ Once!OnceNext
  BY <1>4, <1>5 DEF Environment
<1>7. Next => Unseen \/ Once!OnceNext
  BY <1>3, <1>6 DEF Next
<1> QED
  BY <1>1, <1>2, <1>7

\* ExecutionHost.tick, run_managed_envelope, the store's fences and the
\* reconcilers implement one promise: each submission is executed at most once
\* and closed at most once, and its receipt covers even a run that outlives it.
THEOREM HostsExecuteOnce == Spec => ImplementsOnce
<1>1. Init => Once!OnceInit
  BY DEF Init, Store!Init, Once!OnceInit, Phase, RunState, Store!NonTerminal, Store!Runnable
<1>2. IInv /\ [Next]_vars => [Once!OnceNext]_(Once!ovars)
  BY StepIsOnce
<1> QED
  BY <1>1, <1>2, Invariance, PTL DEF Spec, ImplementsOnce, Once!OnceSpec
============================================================================
