------------------------- MODULE DurableWorkProofs -------------------------
(***************************************************************************)
(* Proofs about the durable work store, for any number of submissions,     *)
(* owners, tokens and checkpoints.  The inductive invariant is Inv: types, *)
(* fenced attempts, and attempts that are resolved with their submission.  *)
(***************************************************************************)
EXTENDS DurableWork, SequenceTheorems, FiniteSetTheorems, TLAPS

---------------------------------------------------------------------------
(* The retired history: same attempts, none of them running.               *)

\* Retired is what reconcile_cancelled_submissions and start_attempt make of
\* an attempt history: the same attempts under the same fences, none running.
LEMMA RetiredShape ==
  ASSUME TypeOK, NEW s \in Submission
  PROVE  /\ Retired(s) \in Seq(AttemptRecord)
         /\ Len(Retired(s)) = Len(attempts[s])
         /\ \A n \in 1..Len(attempts[s]) :
              /\ Retired(s)[n].token = attempts[s][n].token
              /\ Retired(s)[n].status # "running"
              /\ Retired(s)[n].status = "completed" <=> attempts[s][n].status = "completed"
<1>1. attempts[s] \in Seq(AttemptRecord)
  BY DEF TypeOK
<1>2. /\ Len(attempts[s]) \in Nat
      /\ DOMAIN attempts[s] = 1..Len(attempts[s])
      /\ \A n \in 1..Len(attempts[s]) : attempts[s][n] \in AttemptRecord
  BY <1>1
<1>3. \A n \in 1..Len(attempts[s]) : Retired(s)[n] \in AttemptRecord
  BY <1>2 DEF Retired, Running, AttemptRecord, AttemptStatus
<1>4. Retired(s) \in [1..Len(attempts[s]) -> AttemptRecord]
  BY <1>2, <1>3 DEF Retired
<1>5. Retired(s) \in Seq(AttemptRecord) /\ Len(Retired(s)) = Len(attempts[s])
  BY <1>2, <1>4
<1>6. \A n \in 1..Len(attempts[s]) :
        /\ Retired(s)[n].token = attempts[s][n].token
        /\ Retired(s)[n].status # "running"
        /\ Retired(s)[n].status = "completed" <=> attempts[s][n].status = "completed"
  BY <1>2 DEF Retired, Running, AttemptRecord
<1> QED
  BY <1>5, <1>6

---------------------------------------------------------------------------
(* Types.                                                                  *)

\* Updating one field of an attempt record, as finish_attempt and the result
\* publication do, gives an attempt record.
LEMMA AttemptUpdate ==
  ASSUME NEW seq \in Seq(AttemptRecord), NEW n \in DOMAIN seq
  PROVE  /\ \A a \in AttemptStatus :
              [seq EXCEPT ![n] = [seq[n] EXCEPT !.status = a]] \in Seq(AttemptRecord)
         /\ \A r \in Report :
              [seq EXCEPT ![n] = [seq[n] EXCEPT !.report = r]] \in Seq(AttemptRecord)
         /\ [seq EXCEPT ![n] = [seq[n] EXCEPT !.delivered = TRUE]] \in Seq(AttemptRecord)
<1>1. n \in 1..Len(seq) /\ seq[n] \in AttemptRecord
  OBVIOUS
<1>2. \A a \in AttemptStatus : [seq[n] EXCEPT !.status = a] \in AttemptRecord
  BY <1>1 DEF AttemptRecord
<1>3. \A r \in Report : [seq[n] EXCEPT !.report = r] \in AttemptRecord
  BY <1>1 DEF AttemptRecord
<1>4. [seq[n] EXCEPT !.delivered = TRUE] \in AttemptRecord
  BY <1>1 DEF AttemptRecord
<1> QED
  BY <1>1, <1>2, <1>3, <1>4, ExceptSeq

\* The same for the remaining life of a lease.
LEMMA LeaseUpdate ==
  ASSUME NEW l \in LeaseRecord
  PROVE  /\ l.left \in 0..TTL
         /\ \A k \in 0..TTL : [l EXCEPT !.left = k] \in LeaseRecord
         /\ 0 \in 0..TTL /\ TTL \in 0..TTL
         /\ l.left > 0 => l.left - 1 \in 0..TTL
<1>1. l.left \in 0..TTL
  BY DEF LeaseRecord
<1>2. \A k \in 0..TTL : [l EXCEPT !.left = k] \in LeaseRecord
  BY DEF LeaseRecord
<1>3. 0 \in 0..TTL /\ TTL \in 0..TTL
  BY StoreAssumption
<1>4. l.left > 0 => l.left - 1 \in 0..TTL
  BY <1>1, StoreAssumption
<1> QED
  BY <1>1, <1>2, <1>3, <1>4

\* The store never leaves its types: what every other proof rests on.
LEMMA TypeStep ==
  ASSUME TypeOK, [Next]_vars
  PROVE  TypeOK'
<1> USE StoreAssumption DEF TypeOK
<1> DEFINE Attempts == attempts \in [Submission -> Seq(AttemptRecord)]
<1>1. ASSUME NEW s \in Submission, CommandNext(s)
      PROVE  TypeOK'
  <2>1. CASE Accept(s)
    BY <2>1 DEF Accept, NonTerminal, Runnable
  <2>2. CASE MarkPublished(s)
    BY <2>2 DEF MarkPublished, NonTerminal, Runnable
  <2>3. CASE CancelSubmission(s)
    <3>1. [lease EXCEPT ![s].left = 0] \in [Submission -> LeaseRecord]
      BY LeaseUpdate
    <3> QED
      BY <2>3, <3>1 DEF CancelSubmission, NonTerminal
  <2>4. ASSUME NEW e \in EffectInput, NEW v \in Evidence, RecordEffect(s, e, v)
        PROVE  TypeOK'
    BY <2>4 DEF RecordEffect
  <2>5. ASSUME NEW n \in DOMAIN attempts[s], NEW r \in Report, MarkResultPublished(s, n, r)
        PROVE  TypeOK'
    <3>1. [attempts[s] EXCEPT ![n] = [attempts[s][n] EXCEPT !.delivered = TRUE]]
            \in Seq(AttemptRecord)
      BY AttemptUpdate
    <3> QED
      BY <2>5, <3>1 DEF MarkResultPublished
  <2>6. ASSUME NEW n \in DOMAIN attempts[s], NEW t \in Token, NEW c \in Checkpoint,
               NEW v \in 0..MaxVersion, CompareAndSwapCheckpoint(c, v, s, n, t)
        PROVE  TypeOK'
    <3>1. n \in Nat
      BY <2>6
    <3> QED
      BY <2>6, <3>1 DEF CompareAndSwapCheckpoint, CheckpointRecord
  <2> QED
    BY <1>1, <2>1, <2>2, <2>3, <2>4, <2>5, <2>6 DEF CommandNext
<1>2. ASSUME NEW s \in Submission, LeaseNext(s)
      PROVE  TypeOK'
  <2>0. lease[s] \in LeaseRecord
    OBVIOUS
  <2>1. CASE Elapse(s)
    <3>1. [lease[s] EXCEPT !.left = lease[s].left - 1] \in LeaseRecord
      BY <2>0, <2>1, LeaseUpdate DEF Elapse, Live
    <3> QED
      BY <2>1, <3>1 DEF Elapse
  <2>2. ASSUME NEW o \in Owner, AcquireLease(s, o)
        PROVE  TypeOK'
    <3>1. [owner |-> o, token |-> NextToken(s, o), left |-> TTL] \in LeaseRecord
      BY <2>0 DEF NextToken, LeaseRecord
    <3> QED
      BY <2>2, <3>1 DEF AcquireLease
  <2>3. ASSUME NEW o \in Owner, NEW t \in Token, Heartbeat(s, o, t)
        PROVE  TypeOK'
    <3>1. [lease[s] EXCEPT !.left = TTL] \in LeaseRecord
      BY <2>0, LeaseUpdate
    <3> QED
      BY <2>3, <3>1 DEF Heartbeat
  <2>4. ASSUME NEW o \in Owner, NEW t \in Token, ReleaseLease(s, o, t)
        PROVE  TypeOK'
    <3>1. [lease[s] EXCEPT !.left = 0] \in LeaseRecord
      BY <2>0, LeaseUpdate
    <3> QED
      BY <2>4, <3>1 DEF ReleaseLease
  <2> QED
    BY <1>2, <2>1, <2>2, <2>3, <2>4 DEF LeaseNext
<1>3. ASSUME NEW s \in Submission, AttemptNext(s)
      PROVE  TypeOK'
  <2> PICK o \in Owner, t \in Token :
        \/ StartAttempt(s, o, t)
        \/ \E n \in DOMAIN attempts[s] :
             \/ \E outcome \in Outcome : FinishAttempt(s, n, o, t, outcome)
             \/ \E e \in EffectInput, v \in Evidence :
                  RecordAttemptEffect(s, n, o, t, e, v)
             \/ \E r \in Report : RecordResult(s, n, o, t, r)
    BY <1>3 DEF AttemptNext
  <2>0. /\ attempts[s] \in Seq(AttemptRecord)
        /\ DOMAIN attempts[s] = 1..Len(attempts[s])
    OBVIOUS
  <2>1. CASE StartAttempt(s, o, t)
    <3>1. NewAttempt(o, t) \in AttemptRecord
      BY DEF NewAttempt, AttemptRecord, AttemptStatus, Token
    <3>2. Append(Retired(s), NewAttempt(o, t)) \in Seq(AttemptRecord)
      BY <3>1, RetiredShape
    <3> QED
      BY <2>1, <3>2 DEF StartAttempt
  <2>2. ASSUME NEW n \in DOMAIN attempts[s], NEW outcome \in Outcome,
               FinishAttempt(s, n, o, t, outcome)
        PROVE  TypeOK'
    <3>2. \A a \in AttemptStatus :
            [attempts[s] EXCEPT ![n] = [attempts[s][n] EXCEPT !.status = a]]
              \in Seq(AttemptRecord)
      BY AttemptUpdate
    <3>3. attempts' \in [Submission -> Seq(AttemptRecord)]
      BY <2>2, <3>2 DEF FinishAttempt, Outcome, AttemptStatus
    <3> QED
      BY <2>2, <3>3 DEF FinishAttempt, Terminal
  <2>3. ASSUME NEW n \in DOMAIN attempts[s], NEW e \in EffectInput, NEW v \in Evidence,
               RecordAttemptEffect(s, n, o, t, e, v)
        PROVE  TypeOK'
    BY <2>3 DEF RecordAttemptEffect
  <2>4. ASSUME NEW n \in DOMAIN attempts[s], NEW r \in Report,
               RecordResult(s, n, o, t, r)
        PROVE  TypeOK'
    <3>2. [attempts[s] EXCEPT ![n] = [attempts[s][n] EXCEPT !.report = r]]
            \in Seq(AttemptRecord)
      BY AttemptUpdate
    <3> QED
      BY <2>4, <3>2 DEF RecordResult
  <2> QED
    BY <2>1, <2>2, <2>3, <2>4
<1>4. ASSUME SweepNext
      PROVE  TypeOK'
  <2> PICK S \in SUBSET Submission :
        \/ ReconcileTerminalOutbox(S)
        \/ \E ack \in BOOLEAN : ReconcileCancelled(S, ack)
    BY <1>4, Zenon DEF SweepNext
  <2>1. CASE ReconcileTerminalOutbox(S)
    BY <2>1 DEF ReconcileTerminalOutbox
  <2>2. ASSUME NEW ack \in BOOLEAN, ReconcileCancelled(S, ack)
        PROVE  TypeOK'
    BY <2>2, RetiredShape DEF ReconcileCancelled, Terminal, EffectStatus
  <2> QED
    BY <2>1, <2>2
<1>5. CASE UNCHANGED vars
  BY <1>5 DEF vars
<1> QED
  BY <1>1, <1>2, <1>3, <1>4, <1>5 DEF Next

\* Every reachable state of the store is well typed.
THEOREM TypeCorrect == Spec => []TypeOK
<1>1. Init => TypeOK
  BY StoreAssumption, EmptySeq DEF Init, TypeOK, LeaseRecord, CheckpointRecord
<1>2. TypeOK /\ [Next]_vars => TypeOK'
  BY TypeStep
<1> QED
  BY <1>1, <1>2, PTL DEF Spec

---------------------------------------------------------------------------
(* The inductive invariant.  A new attempt is only fenced off from the     *)
(* older ones because the newest of them is still running when it starts:  *)
(* start_attempt compares tokens with running attempts only.  That is what *)
(* ResolvedTogether adds to AttemptsAreFenced.                             *)

Unstarted == \A s \in Submission : status[s] = "absent" => attempts[s] = <<>>

\* Attempts are started under a token some lease was granted with.
Granted ==
  \A s \in Submission : \A n \in DOMAIN attempts[s] : attempts[s][n].token > 0

Inv ==
  /\ TypeOK
  /\ AttemptsAreFenced
  /\ ResolvedTogether
  /\ CompletionAgrees
  /\ Unstarted
  /\ Granted

\* The steps that neither start nor resolve an attempt.
Unmoved ==
  \A s \in Submission :
    /\ Len(attempts'[s]) = Len(attempts[s])
    /\ \A n \in 1..Len(attempts[s]) :
         /\ attempts'[s][n].token = attempts[s][n].token
         /\ attempts'[s][n].status = attempts[s][n].status
    /\ lease'[s].token >= lease[s].token
    /\ \/ status'[s] = status[s]
       \/ status[s] \in Runnable /\ status'[s] \in NonTerminal
       \/ status[s] = "absent" /\ status'[s] = "accepted"

\* Sequence facts about a history, from its type.
LEMMA HistoryFacts ==
  ASSUME TypeOK, NEW s \in Submission
  PROVE  /\ attempts[s] \in Seq(AttemptRecord)
         /\ Len(attempts[s]) \in Nat
         /\ DOMAIN attempts[s] = 1..Len(attempts[s])
         /\ \A n \in 1..Len(attempts[s]) :
              attempts[s][n].token \in Nat /\ attempts[s][n].status \in AttemptStatus
         /\ attempts[s] = <<>> <=> Len(attempts[s]) = 0
         /\ lease[s].token \in Nat
<1>1. attempts[s] \in Seq(AttemptRecord) /\ lease[s] \in LeaseRecord
  BY DEF TypeOK
<1>2. \A n \in 1..Len(attempts[s]) :
        attempts[s][n].token \in Nat /\ attempts[s][n].status \in AttemptStatus
  <2> TAKE n \in 1..Len(attempts[s])
  <2>1. attempts[s][n] \in AttemptRecord
    BY <1>1
  <2> QED
    BY <2>1 DEF AttemptRecord
<1>3. attempts[s] = <<>> <=> Len(attempts[s]) = 0
  BY <1>1, EmptySeq
<1> QED
  BY <1>1, <1>2, <1>3 DEF LeaseRecord

\* Such a step keeps the invariant, whatever else it does.
LEMMA UnmovedKeepsInv ==
  ASSUME Inv, TypeOK', Unmoved
  PROVE  Inv'
<1> USE DEF Inv
<1>0. \A s \in Submission :
        /\ Len(attempts[s]) \in Nat
        /\ DOMAIN attempts[s] = 1..Len(attempts[s])
        /\ DOMAIN attempts'[s] = 1..Len(attempts[s])
        /\ attempts[s] = <<>> <=> Len(attempts[s]) = 0
        /\ attempts'[s] = <<>> <=> Len(attempts[s]) = 0
        /\ lease[s].token \in Nat /\ lease'[s].token \in Nat
        /\ \A n \in 1..Len(attempts[s]) : attempts[s][n].token \in Nat
  <2> TAKE s \in Submission
  <2>1. attempts'[s] \in Seq(AttemptRecord) /\ lease'[s] \in LeaseRecord
    BY DEF TypeOK
  <2>2. attempts'[s] = <<>> <=> Len(attempts'[s]) = 0
    BY <2>1, EmptySeq
  <2> QED
    BY <2>1, <2>2, HistoryFacts DEF Unmoved, LeaseRecord
<1>1. \A s \in Submission : Running(s)' = Running(s)
  BY <1>0 DEF Running, Unmoved
<1>2. AttemptsAreFenced'
  <2> SUFFICES ASSUME NEW s \in Submission
      PROVE  /\ \A n \in DOMAIN attempts'[s] : attempts'[s][n].token <= lease'[s].token
             /\ \A m, n \in DOMAIN attempts'[s] :
                  m < n => attempts'[s][m].token < attempts'[s][n].token
             /\ Running(s)' \subseteq {Len(attempts'[s])}
    BY DEF AttemptsAreFenced
  <2>1. \A n \in DOMAIN attempts[s] : attempts[s][n].token <= lease[s].token
    BY DEF AttemptsAreFenced
  <2>2. \A m, n \in DOMAIN attempts[s] :
          m < n => attempts[s][m].token < attempts[s][n].token
    BY DEF AttemptsAreFenced
  <2>3. Running(s) \subseteq {Len(attempts[s])}
    BY DEF AttemptsAreFenced
  <2>4. \A n \in DOMAIN attempts'[s] : attempts'[s][n].token <= lease'[s].token
    <3> SUFFICES ASSUME NEW n \in DOMAIN attempts'[s]
        PROVE  attempts'[s][n].token <= lease'[s].token
      OBVIOUS
    <3>1. n \in DOMAIN attempts[s] /\ attempts'[s][n].token = attempts[s][n].token
      BY <1>0 DEF Unmoved
    <3>2. lease'[s].token >= lease[s].token
      BY DEF Unmoved
    <3> QED
      BY <1>0, <2>1, <3>1, <3>2
  <2>5. \A m, n \in DOMAIN attempts'[s] :
          m < n => attempts'[s][m].token < attempts'[s][n].token
    BY <1>0, <2>2 DEF Unmoved
  <2>6. Running(s)' \subseteq {Len(attempts'[s])}
    BY <1>1, <2>3 DEF Unmoved
  <2> QED
    BY <2>4, <2>5, <2>6
<1>3. ResolvedTogether'
  BY <1>0, <1>1 DEF ResolvedTogether, Unmoved, Unstarted, NonTerminal, Runnable, Terminal
<1>4. Unstarted'
  BY <1>0 DEF Unstarted, Unmoved, NonTerminal, Runnable
<1>5. CompletionAgrees'
  <2> SUFFICES ASSUME NEW s \in Submission
      PROVE  status'[s] = "completed" <=>
               \E n \in DOMAIN attempts'[s] : attempts'[s][n].status = "completed"
    BY DEF CompletionAgrees
  <2>1. status[s] = "completed" <=>
          \E n \in DOMAIN attempts[s] : attempts[s][n].status = "completed"
    BY DEF CompletionAgrees
  <2>2. \A n \in DOMAIN attempts[s] : attempts'[s][n].status = attempts[s][n].status
    BY <1>0 DEF Unmoved
  <2>3. DOMAIN attempts'[s] = DOMAIN attempts[s]
    BY <1>0
  <2>4. status'[s] = "completed" <=> status[s] = "completed"
    BY DEF Unmoved, NonTerminal, Runnable
  <2> QED
    BY <2>1, <2>2, <2>3, <2>4
<1>6. Granted'
  BY <1>0 DEF Granted, Unmoved
<1> QED
  BY <1>2, <1>3, <1>4, <1>5, <1>6

\* What is left of a history when only fields other than token and status of
\* one attempt changed, as the result publication does.
LEMMA FieldUpdateUnmoved ==
  ASSUME TypeOK, NEW s \in Submission, NEW n \in DOMAIN attempts[s],
         NEW a,
         a.token = attempts[s][n].token, a.status = attempts[s][n].status,
         attempts' = [attempts EXCEPT ![s] = [attempts[s] EXCEPT ![n] = a]],
         UNCHANGED <<status, lease>>
  PROVE  Unmoved
<1> SUFFICES ASSUME NEW u \in Submission
    PROVE  /\ Len(attempts'[u]) = Len(attempts[u])
           /\ \A m \in 1..Len(attempts[u]) :
                /\ attempts'[u][m].token = attempts[u][m].token
                /\ attempts'[u][m].status = attempts[u][m].status
  <2> \A u \in Submission : lease[u].token \in Nat
    BY HistoryFacts
  <2> QED
    BY DEF Unmoved
<1>1. attempts[u] \in Seq(AttemptRecord) /\ DOMAIN attempts[u] = 1..Len(attempts[u])
  BY DEF TypeOK
<1>2. attempts'[u] = IF u = s THEN [attempts[s] EXCEPT ![n] = a] ELSE attempts[u]
  BY DEF TypeOK
<1>3. Len(attempts'[u]) = Len(attempts[u])
  BY <1>1, <1>2
<1>4. \A m \in 1..Len(attempts[u]) :
        attempts'[u][m] = IF u = s /\ m = n THEN a ELSE attempts[u][m]
  BY <1>1, <1>2
<1> QED
  BY <1>3, <1>4

\* Steps that leave the attempts alone, and status and tokens nearly so.
LEMMA StillUnmoved ==
  ASSUME TypeOK, UNCHANGED attempts,
         \A s \in Submission :
           \/ status'[s] = status[s]
           \/ status[s] \in Runnable /\ status'[s] \in NonTerminal
           \/ status[s] = "absent" /\ status'[s] = "accepted",
         UNCHANGED lease \/ \A s \in Submission : lease'[s].token >= lease[s].token
  PROVE  Unmoved
<1>1. \A s \in Submission : lease[s].token \in Nat
  BY HistoryFacts
<1> QED
  BY <1>1 DEF Unmoved

\* Every other operation leaves each attempt as it was: the commands, the
\* lease calls, the effect receipts and the results.
LEMMA QuietSteps ==
  ASSUME TypeOK, NEW s \in Submission,
         \/ CommandNext(s)
         \/ LeaseNext(s)
         \/ \E o \in Owner, t \in Token, n \in DOMAIN attempts[s] :
              \/ \E e \in EffectInput, v \in Evidence :
                   RecordAttemptEffect(s, n, o, t, e, v)
              \/ \E r \in Report : RecordResult(s, n, o, t, r)
  PROVE  Unmoved
<1>0. /\ \A u \in Submission : lease[u] \in LeaseRecord /\ lease[u].token \in Nat
      /\ lease \in [Submission -> LeaseRecord]
      /\ status \in [Submission -> NonTerminal \cup Terminal \cup {"absent"}]
  BY HistoryFacts DEF TypeOK
<1>1. ASSUME CommandNext(s)
      PROVE  Unmoved
  <2>1. CASE Accept(s)
    BY <2>1, <1>0, StillUnmoved DEF Accept
  <2>2. CASE MarkPublished(s)
    BY <2>2, <1>0, StillUnmoved DEF MarkPublished, NonTerminal, Runnable
  <2>3. CASE CancelSubmission(s)
    BY <2>3, <1>0, StillUnmoved DEF CancelSubmission, NonTerminal, LeaseRecord
  <2>4. ASSUME NEW e \in EffectInput, NEW v \in Evidence, RecordEffect(s, e, v)
        PROVE  Unmoved
    BY <2>4, StillUnmoved DEF RecordEffect
  <2>5. ASSUME NEW n \in DOMAIN attempts[s], NEW r \in Report, MarkResultPublished(s, n, r)
        PROVE  Unmoved
    <3> DEFINE a == [attempts[s][n] EXCEPT !.delivered = TRUE]
    <3>1. attempts[s][n] \in AttemptRecord
      BY DEF TypeOK
    <3>2. a.token = attempts[s][n].token /\ a.status = attempts[s][n].status
      BY <3>1 DEF AttemptRecord
    <3>3. attempts' = [attempts EXCEPT ![s] = [attempts[s] EXCEPT ![n] = a]]
      BY <2>5 DEF MarkResultPublished
    <3>4. UNCHANGED <<status, lease>>
      BY <2>5 DEF MarkResultPublished
    <3> HIDE DEF a
    <3> QED
      BY <3>2, <3>3, <3>4, FieldUpdateUnmoved, Zenon
  <2>6. ASSUME NEW n \in DOMAIN attempts[s], NEW t \in Token, NEW c \in Checkpoint,
               NEW v \in 0..MaxVersion, CompareAndSwapCheckpoint(c, v, s, n, t)
        PROVE  Unmoved
    BY <2>6, StillUnmoved DEF CompareAndSwapCheckpoint
  <2> QED
    BY <1>1, <2>1, <2>2, <2>3, <2>4, <2>5, <2>6 DEF CommandNext
<1>2. ASSUME LeaseNext(s)
      PROVE  Unmoved
  <2>1. CASE Elapse(s)
    BY <2>1, <1>0, StillUnmoved DEF Elapse, LeaseRecord
  <2>2. ASSUME NEW o \in Owner, AcquireLease(s, o)
        PROVE  Unmoved
    <3>1. NextToken(s, o) >= lease[s].token
      BY <1>0 DEF NextToken
    <3>2. \A u \in Submission : lease'[u].token >= lease[u].token
      BY <2>2, <3>1, <1>0 DEF AcquireLease
    <3> QED
      BY <2>2, <3>2, StillUnmoved DEF AcquireLease
  <2>3. ASSUME NEW o \in Owner, NEW t \in Token, Heartbeat(s, o, t)
        PROVE  Unmoved
    BY <2>3, <1>0, StillUnmoved DEF Heartbeat, LeaseRecord
  <2>4. ASSUME NEW o \in Owner, NEW t \in Token, ReleaseLease(s, o, t)
        PROVE  Unmoved
    BY <2>4, <1>0, StillUnmoved DEF ReleaseLease, LeaseRecord
  <2> QED
    BY <1>2, <2>1, <2>2, <2>3, <2>4 DEF LeaseNext
<1>3. ASSUME NEW o \in Owner, NEW t \in Token, NEW n \in DOMAIN attempts[s]
      PROVE  /\ \A e \in EffectInput, v \in Evidence :
                  RecordAttemptEffect(s, n, o, t, e, v) => Unmoved
             /\ \A r \in Report : RecordResult(s, n, o, t, r) => Unmoved
  <2>1. ASSUME NEW e \in EffectInput, NEW v \in Evidence,
               RecordAttemptEffect(s, n, o, t, e, v)
        PROVE  Unmoved
    BY <2>1, StillUnmoved DEF RecordAttemptEffect
  <2>2. ASSUME NEW r \in Report, RecordResult(s, n, o, t, r)
        PROVE  Unmoved
    <3> DEFINE a == [attempts[s][n] EXCEPT !.report = r]
    <3>1. attempts[s][n] \in AttemptRecord
      BY DEF TypeOK
    <3>2. a.token = attempts[s][n].token /\ a.status = attempts[s][n].status
      BY <3>1 DEF AttemptRecord
    <3>3. attempts' = [attempts EXCEPT ![s] = [attempts[s] EXCEPT ![n] = a]]
      BY <2>2 DEF RecordResult
    <3>4. UNCHANGED <<status, lease>>
      BY <2>2 DEF RecordResult
    <3> HIDE DEF a
    <3> QED
      BY <3>2, <3>3, <3>4, FieldUpdateUnmoved, Zenon
  <2> QED
    BY <2>1, <2>2
<1> QED
  BY <1>1, <1>2, <1>3, Zenon

\* start_attempt, finish_attempt and the cancellation sweep are the only
\* operations that start or resolve attempts.
LEMMA StepKinds ==
  ASSUME TypeOK, [Next]_vars
  PROVE  \/ Unmoved
         \/ \E s \in Submission, o \in Owner, t \in Token :
              \/ StartAttempt(s, o, t)
              \/ \E n \in DOMAIN attempts[s], outcome \in Outcome :
                   FinishAttempt(s, n, o, t, outcome)
         \/ \E S \in SUBSET Submission, ack \in BOOLEAN : ReconcileCancelled(S, ack)
<1>1. ASSUME NEW S \in SUBSET Submission, ReconcileTerminalOutbox(S)
      PROVE  Unmoved
  BY <1>1, StillUnmoved DEF ReconcileTerminalOutbox
<1>2. CASE UNCHANGED vars
  BY <1>2, StillUnmoved DEF vars
<1>3. CASE \E s \in Submission : CommandNext(s) \/ LeaseNext(s)
  BY <1>3, QuietSteps, Zenon
<1>4. CASE \E s \in Submission : AttemptNext(s)
  BY <1>4, QuietSteps, Zenon DEF AttemptNext
<1>5. CASE SweepNext
  BY <1>1, <1>5, Zenon DEF SweepNext
<1> QED
  BY <1>2, <1>3, <1>4, <1>5, Zenon DEF Next

---------------------------------------------------------------------------
(* The steps that do move attempts.  They are argued about one submission  *)
(* at a time, on its status, its history and the token of its lease.       *)

Sound(st, history, token) ==
  /\ \A n \in 1..Len(history) : 0 < history[n].token /\ history[n].token <= token
  /\ \A m, n \in 1..Len(history) : m < n => history[m].token < history[n].token
  /\ \A n \in 1..Len(history) : history[n].status = "running" => n = Len(history)
  /\ st \in Terminal => \A n \in 1..Len(history) : history[n].status # "running"
  /\ st \in NonTerminal /\ Len(history) # 0 => history[Len(history)].status = "running"
  /\ st = "absent" => Len(history) = 0
  /\ st = "completed" <=> \E n \in 1..Len(history) : history[n].status = "completed"

AllSound == \A s \in Submission : Sound(status[s], attempts[s], lease[s].token)

\* Inv is Sound of every submission.
LEMMA InvIsAllSound ==
  ASSUME TypeOK
  PROVE  Inv <=> AllSound
<1>1. \A s \in Submission :
        /\ Len(attempts[s]) \in Nat
        /\ DOMAIN attempts[s] = 1..Len(attempts[s])
        /\ attempts[s] = <<>> <=> Len(attempts[s]) = 0
  BY HistoryFacts
<1>2. AttemptsAreFenced <=>
        \A s \in Submission :
          /\ \A n \in 1..Len(attempts[s]) : attempts[s][n].token <= lease[s].token
          /\ \A m, n \in 1..Len(attempts[s]) :
               m < n => attempts[s][m].token < attempts[s][n].token
          /\ \A n \in 1..Len(attempts[s]) :
               attempts[s][n].status = "running" => n = Len(attempts[s])
  BY <1>1 DEF AttemptsAreFenced, Running
<1>3. ResolvedTogether <=>
        \A s \in Submission :
          /\ status[s] \in Terminal =>
               \A n \in 1..Len(attempts[s]) : attempts[s][n].status # "running"
          /\ status[s] \in NonTerminal /\ Len(attempts[s]) # 0 =>
               attempts[s][Len(attempts[s])].status = "running"
  BY <1>1 DEF ResolvedTogether, Running
<1>4. Unstarted <=>
        \A s \in Submission : status[s] = "absent" => Len(attempts[s]) = 0
  BY <1>1 DEF Unstarted
<1>5. CompletionAgrees <=>
        \A s \in Submission :
          status[s] = "completed" <=>
            \E n \in 1..Len(attempts[s]) : attempts[s][n].status = "completed"
  BY <1>1 DEF CompletionAgrees
<1>6. Granted <=>
        \A s \in Submission :
          \A n \in 1..Len(attempts[s]) : 0 < attempts[s][n].token
  BY <1>1 DEF Granted
<1> QED
  BY <1>2, <1>3, <1>4, <1>5, <1>6 DEF Inv, AllSound, Sound

\* start_attempt: the new attempt is fenced off from every older one.
LEMMA StartIsSound ==
  ASSUME Inv, NEW s \in Submission, NEW o \in Owner, NEW t \in Token,
         StartAttempt(s, o, t)
  PROVE  Sound(status[s], attempts'[s], lease[s].token)
<1> DEFINE h == attempts[s]
           g == Retired(s)
<1>1. Sound(status[s], h, lease[s].token) /\ TypeOK
  BY InvIsAllSound DEF AllSound, Inv
<1>2. /\ Len(h) \in Nat /\ DOMAIN h = 1..Len(h)
      /\ \A n \in 1..Len(h) : h[n].token \in Nat /\ h[n].status \in AttemptStatus
  BY <1>1, HistoryFacts
<1>3. /\ g \in Seq(AttemptRecord) /\ Len(g) = Len(h)
      /\ \A n \in 1..Len(h) :
           /\ g[n].token = h[n].token
           /\ g[n].status # "running"
           /\ g[n].status = "completed" <=> h[n].status = "completed"
  BY <1>1, RetiredShape
<1>4. /\ Len(attempts'[s]) = Len(h) + 1
      /\ \A n \in 1..Len(h) : attempts'[s][n] = g[n]
      /\ attempts'[s][Len(h) + 1] = NewAttempt(o, t)
  <2>1. attempts'[s] = Append(g, NewAttempt(o, t))
    BY <1>1 DEF StartAttempt, TypeOK
  <2> HIDE DEF g
  <2> QED
    BY <2>1, <1>2, <1>3
<1>5. /\ t \in Nat /\ t > 0 /\ t = lease[s].token /\ status[s] \in Runnable
      /\ \A n \in 1..Len(h) : h[n].status = "running" => h[n].token < t
  BY <1>2, StoreAssumption DEF StartAttempt, MayStart, HoldsLease, Running, Token
<1>6. \A n \in 1..Len(h) : h[n].token < t
  <2> SUFFICES ASSUME NEW n \in 1..Len(h) PROVE h[n].token < t
    OBVIOUS
  <2>1. h[Len(h)].status = "running" /\ Len(h) \in 1..Len(h)
    BY <1>1, <1>2, <1>5 DEF Sound, NonTerminal
  <2>2. h[Len(h)].token < t
    BY <2>1, <1>5
  <2>3. n # Len(h) => h[n].token < h[Len(h)].token
    BY <1>1, <1>2, <2>1 DEF Sound
  <2> QED
    BY <1>2, <1>5, <2>1, <2>2, <2>3
<1>7. /\ NewAttempt(o, t).token = t /\ NewAttempt(o, t).status = "running"
  BY DEF NewAttempt
<1>8. \A m, n \in 1..(Len(h) + 1) :
        m < n => attempts'[s][m].token < attempts'[s][n].token
  <2> SUFFICES ASSUME NEW m \in 1..(Len(h) + 1), NEW n \in 1..(Len(h) + 1), m < n
      PROVE  attempts'[s][m].token < attempts'[s][n].token
    OBVIOUS
  <2>1. m \in 1..Len(h) /\ attempts'[s][m].token = h[m].token
    BY <1>2, <1>3, <1>4
  <2>2. CASE n \in 1..Len(h)
    BY <1>1, <1>2, <1>3, <1>4, <2>1, <2>2 DEF Sound
  <2>3. CASE n = Len(h) + 1
    BY <1>4, <1>6, <1>7, <2>1, <2>3
  <2> QED
    BY <1>2, <2>2, <2>3
<1>9. \A n \in 1..(Len(h) + 1) :
        /\ 0 < attempts'[s][n].token /\ attempts'[s][n].token <= t
        /\ attempts'[s][n].status = "running" <=> n = Len(h) + 1
  <2> SUFFICES ASSUME NEW n \in 1..(Len(h) + 1)
      PROVE  /\ 0 < attempts'[s][n].token /\ attempts'[s][n].token <= t
             /\ attempts'[s][n].status = "running" <=> n = Len(h) + 1
    OBVIOUS
  <2>1. CASE n \in 1..Len(h)
    <3>1. attempts'[s][n].token = h[n].token /\ attempts'[s][n].status # "running"
      BY <1>3, <1>4, <2>1
    <3>2. 0 < h[n].token /\ h[n].token < t /\ h[n].token \in Nat
      BY <1>1, <1>2, <1>6, <2>1 DEF Sound
    <3> HIDE DEF h, g
    <3> QED
      BY <1>2, <1>5, <2>1, <3>1, <3>2
  <2>2. CASE n = Len(h) + 1
    BY <1>4, <1>5, <1>7, <2>2
  <2> QED
    BY <1>2, <2>1, <2>2
<1>10. \A n \in 1..(Len(h) + 1) : attempts'[s][n].status # "completed"
  BY <1>1, <1>2, <1>3, <1>4, <1>5, <1>7 DEF Sound, Runnable
<1> QED
  <2> HIDE DEF h, g
  <2> QED
    BY <1>2, <1>4, <1>5, <1>8, <1>9, <1>10 DEF Sound, Runnable, NonTerminal, Terminal

\* finish_attempt: it resolves the only running attempt with its submission.
LEMMA FinishIsSound ==
  ASSUME Inv, NEW s \in Submission, NEW n \in DOMAIN attempts[s], NEW o, NEW t,
         NEW outcome \in Outcome, FinishAttempt(s, n, o, t, outcome)
  PROVE  Sound(status'[s], attempts'[s], lease[s].token)
<1> DEFINE h == attempts[s]
           g == attempts'[s]
<1>1. Sound(status[s], h, lease[s].token) /\ TypeOK
  BY InvIsAllSound DEF AllSound, Inv
<1>2. /\ h \in Seq(AttemptRecord) /\ Len(h) \in Nat /\ DOMAIN h = 1..Len(h)
      /\ n \in 1..Len(h) /\ h[n] \in AttemptRecord /\ h[n].status = "running"
  BY <1>1 DEF FinishAttempt, Running, TypeOK
<1> DEFINE verdict == IF outcome = "cancelled" \/ status[s] = "cancel_requested"
                      THEN "cancelled" ELSE outcome
           a == [h[n] EXCEPT !.status = verdict]
<1>3. /\ a.token = h[n].token /\ a.status = verdict
      /\ verdict \in AttemptStatus \ {"running"}
  BY <1>2 DEF AttemptRecord, Outcome, AttemptStatus
<1>4. g = [h EXCEPT ![n] = a]
  BY <1>1 DEF FinishAttempt, TypeOK
<1>5. status'[s] = IF verdict \in {"cancelled", "completed"} THEN verdict ELSE "failed"
  BY <1>1 DEF FinishAttempt, TypeOK
<1>6. n = Len(h)
  BY <1>1, <1>2 DEF Sound
<1>7. \A m \in 1..Len(h) : m # n => h[m].status # "completed" /\ h[m].status # "running"
  <2>1. status[s] # "completed"
    BY <1>1, <1>2 DEF Sound, Terminal
  <2> QED
    BY <1>1, <1>6, <2>1 DEF Sound
<1> HIDE DEF h, g, a, verdict
<1>8. /\ Len(g) = Len(h)
      /\ \A m \in 1..Len(h) : g[m] = IF m = n THEN a ELSE h[m]
  BY <1>2, <1>4
<1>9. \A m \in 1..Len(h) : g[m].token = h[m].token /\ g[m].status # "running"
  BY <1>3, <1>7, <1>8
<1>10. \A m \in 1..Len(h) : g[m].status = "completed" <=> m = n /\ verdict = "completed"
  BY <1>3, <1>7, <1>8
<1>11. /\ \A m \in 1..Len(g) : 0 < g[m].token /\ g[m].token <= lease[s].token
       /\ \A l, m \in 1..Len(g) : l < m => g[l].token < g[m].token
  BY <1>1, <1>8, <1>9 DEF Sound
<1>12. status'[s] \in Terminal /\ (status'[s] = "completed" <=> verdict = "completed")
  BY <1>5 DEF Terminal
<1>13. status'[s] = "completed" <=> \E m \in 1..Len(g) : g[m].status = "completed"
  BY <1>2, <1>8, <1>10, <1>12
<1> QED
  <2>1. \A m \in 1..Len(g) : g[m].status # "running"
    BY <1>8, <1>9
  <2> QED
    BY <1>11, <1>12, <1>13, <2>1 DEF Sound, g, Terminal, NonTerminal, Runnable

\* reconcile_cancelled_submissions: retiring the history of a submission whose
\* cancellation is due resolves it as well.
LEMMA RetireIsSound ==
  ASSUME Inv, NEW s \in Submission, status[s] = "cancel_requested"
  PROVE  Sound("cancelled", Retired(s), lease[s].token)
<1> DEFINE h == attempts[s]
           g == Retired(s)
<1>1. Sound(status[s], h, lease[s].token) /\ TypeOK
  BY InvIsAllSound DEF AllSound, Inv
<1>2. /\ Len(g) = Len(h)
      /\ \A n \in 1..Len(h) :
           /\ g[n].token = h[n].token
           /\ g[n].status # "running"
           /\ g[n].status = "completed" <=> h[n].status = "completed"
  BY <1>1, RetiredShape
<1>3. \A n \in 1..Len(h) : h[n].status # "completed"
  BY <1>1 DEF Sound
<1> HIDE DEF h, g
<1> QED
  BY <1>1, <1>2, <1>3 DEF Sound, g, Terminal, NonTerminal, Runnable

\* A step that moves the attempts of one submission only.
LEMMA OneMoves ==
  ASSUME Inv, TypeOK', NEW s \in Submission,
         \A u \in Submission \ {s} : status'[u] = status[u] /\ attempts'[u] = attempts[u],
         UNCHANGED lease,
         Sound(status'[s], attempts'[s], lease[s].token)
  PROVE  Inv'
<1>1. AllSound
  BY InvIsAllSound DEF Inv
<1>2. \A u \in Submission : Sound(status'[u], attempts'[u], lease'[u].token)
  <2> TAKE u \in Submission
  <2>1. CASE u = s
    BY <2>1
  <2>2. CASE u # s
    BY <1>1, <2>2 DEF AllSound
  <2> QED
    BY <2>1, <2>2
<1>3. AllSound'
  BY <1>2 DEF AllSound
<1>4. TypeOK' => (Inv' <=> AllSound')
  BY InvIsAllSound, PTL
<1> QED
  BY <1>3, <1>4

\* Every step of the store keeps the invariant.
LEMMA InvStep ==
  ASSUME Inv, [Next]_vars
  PROVE  Inv'
<1>0. TypeOK /\ TypeOK'
  BY TypeStep DEF Inv
<1>1. CASE Unmoved
  BY <1>0, <1>1, UnmovedKeepsInv
<1>2. ASSUME NEW s \in Submission, NEW o \in Owner, NEW t \in Token, StartAttempt(s, o, t)
      PROVE  Inv'
  <2>2. Sound(status[s], attempts'[s], lease[s].token)
    BY <1>2, StartIsSound
  <2>3. /\ UNCHANGED <<status, lease>>
        /\ \A u \in Submission \ {s} : attempts'[u] = attempts[u]
    BY <1>0, <1>2 DEF StartAttempt, TypeOK
  <2> QED
    BY <1>0, <2>2, <2>3, OneMoves
<1>3. ASSUME NEW s \in Submission, NEW o \in Owner, NEW t \in Token,
             NEW n \in DOMAIN attempts[s], NEW outcome \in Outcome,
             FinishAttempt(s, n, o, t, outcome)
      PROVE  Inv'
  <2>1. Sound(status'[s], attempts'[s], lease[s].token)
    BY <1>3, FinishIsSound
  <2>2. /\ UNCHANGED lease
        /\ \A u \in Submission \ {s} :
             status'[u] = status[u] /\ attempts'[u] = attempts[u]
    BY <1>0, <1>3 DEF FinishAttempt, TypeOK
  <2> QED
    BY <1>0, <2>1, <2>2, OneMoves
<1>4. ASSUME NEW S \in SUBSET Submission, NEW ack \in BOOLEAN, ReconcileCancelled(S, ack)
      PROVE  Inv'
  <2>1. AllSound
    BY <1>0, InvIsAllSound
  <2>2. ASSUME NEW u \in Submission
        PROVE  Sound(status'[u], attempts'[u], lease'[u].token)
    <3>1. CASE u \in S
      <4>1. status[u] = "cancel_requested"
        BY <1>4, <3>1 DEF ReconcileCancelled, Reconcilable
      <4>2. status'[u] = "cancelled" /\ attempts'[u] = Retired(u) /\ UNCHANGED lease
        BY <1>4, <3>1 DEF ReconcileCancelled
      <4> QED
        BY <4>1, <4>2, RetireIsSound
    <3>2. CASE u \notin S
      <4>1. status'[u] = status[u] /\ attempts'[u] = attempts[u] /\ UNCHANGED lease
        BY <1>4, <3>2 DEF ReconcileCancelled
      <4> QED
        BY <2>1, <4>1 DEF AllSound
    <3> QED
      BY <3>1, <3>2
  <2>3. AllSound'
    BY <2>2 DEF AllSound
  <2>4. TypeOK' => (Inv' <=> AllSound')
    BY InvIsAllSound, PTL
  <2> QED
    BY <1>0, <2>3, <2>4
<1> QED
  BY <1>0, <1>1, <1>2, <1>3, <1>4, StepKinds, Zenon

\* An empty store.
LEMMA InitInv == Init => Inv
<1> SUFFICES ASSUME Init PROVE Inv
  OBVIOUS
<1>1. TypeOK
  BY StoreAssumption, EmptySeq DEF Init, TypeOK, LeaseRecord, CheckpointRecord
<1>2. \A s \in Submission :
        status[s] = "absent" /\ Len(attempts[s]) = 0
  BY EmptySeq DEF Init
<1>3. AllSound
  BY <1>2 DEF AllSound, Sound, Terminal, NonTerminal, Runnable
<1> QED
  BY <1>1, <1>3, InvIsAllSound

\* Inv holds in every reachable state.
LEMMA Invariance == Spec => []Inv
BY InitInv, InvStep, PTL DEF Spec

\* The fencing of attempts: at most the newest attempt of a submission runs.
THEOREM AttemptsFenced == Spec => []AttemptsAreFenced
<1>1. Inv => AttemptsAreFenced
  BY DEF Inv
<1> QED
  BY <1>1, Invariance, PTL

\* A submission and its attempts are resolved together.
THEOREM Resolved == Spec => []ResolvedTogether
<1>1. Inv => ResolvedTogether
  BY DEF Inv
<1> QED
  BY <1>1, Invariance, PTL

\* Completed submissions are exactly those with a completed attempt.
THEOREM CompletionAgreement == Spec => []CompletionAgrees
<1>1. Inv => CompletionAgrees
  BY DEF Inv
<1> QED
  BY <1>1, Invariance, PTL

---------------------------------------------------------------------------
(* What a step may never do.                                               *)

\* How a status may change: a requested cancellation is only ever cancelled
\* and a closed submission stays as it is (finish_attempt, the sweep).
Sticks ==
  \A s \in Submission :
    /\ status[s] = "cancel_requested"
         => status'[s] \in {"cancel_requested", "cancelled"}
    /\ status[s] \in Terminal => status'[s] = status[s]

\* Every operation leaves closed submissions and cancellations be.
LEMMA StatusSticks ==
  ASSUME Inv, [Next]_vars
  PROVE  Sticks
<1>0. TypeOK
  BY DEF Inv
<1>1. CASE Unmoved
  BY <1>1 DEF Sticks, Unmoved, Runnable, Terminal
<1>2. ASSUME NEW s \in Submission, NEW o \in Owner, NEW t \in Token, StartAttempt(s, o, t)
      PROVE  Sticks
  BY <1>2 DEF Sticks, StartAttempt
<1>3. ASSUME NEW s \in Submission, NEW o \in Owner, NEW t \in Token,
             NEW n \in DOMAIN attempts[s], NEW outcome \in Outcome,
             FinishAttempt(s, n, o, t, outcome)
      PROVE  Sticks
  <2>1. status[s] \notin Terminal
    BY <1>3 DEF FinishAttempt, Inv, ResolvedTogether
  <2>2. status[s] = "cancel_requested" => status'[s] = "cancelled"
    BY <1>0, <1>3 DEF FinishAttempt, TypeOK
  <2>3. \A u \in Submission \ {s} : status'[u] = status[u]
    BY <1>0, <1>3 DEF FinishAttempt, TypeOK
  <2> QED
    BY <2>1, <2>2, <2>3 DEF Sticks, Terminal
<1>4. ASSUME NEW S \in SUBSET Submission, NEW ack \in BOOLEAN, ReconcileCancelled(S, ack)
      PROVE  Sticks
  BY <1>4 DEF Sticks, ReconcileCancelled, Reconcilable, Terminal
<1> QED
  BY <1>0, <1>1, <1>2, <1>3, <1>4, StepKinds, Zenon

\* A requested cancellation is never lost to an outcome, and a terminal
\* submission never changes again: finish_attempt finds no running attempt.
THEOREM CancellationSticks == Spec => CancelSticks
<1>1. Inv /\ [Next]_vars => [Sticks]_vars
  BY StatusSticks
<1> QED
  BY <1>1, Invariance, PTL DEF Spec, CancelSticks, Sticks

\* The calls that may write an effect receipt, and what they may write.
LEMMA EffectMoves ==
  ASSUME TypeOK, [Next]_vars, NEW s \in Submission
  PROVE  \/ effect'[s] = effect[s]
         \/ \E e \in EffectInput, v \in Evidence :
              EffectMayBecome(effect[s], e, v) /\ effect'[s] = e
         \/ effect[s] # "committed" /\ effect'[s] = "unknown"
<1>0. effect \in [Submission -> EffectStatus \cup {"absent"}]
  BY DEF TypeOK
<1>1. ASSUME NEW u \in Submission, CommandNext(u)
      PROVE  \/ effect'[s] = effect[s]
             \/ \E e \in EffectInput, v \in Evidence :
                  EffectMayBecome(effect[s], e, v) /\ effect'[s] = e
  <2>1. ASSUME NEW e \in EffectInput, NEW v \in Evidence, RecordEffect(u, e, v)
        PROVE  effect'[s] = effect[s] \/ (EffectMayBecome(effect[s], e, v) /\ effect'[s] = e)
    BY <1>0, <2>1 DEF RecordEffect
  <2>2. \/ UNCHANGED effect
        \/ \E e \in EffectInput, v \in Evidence : RecordEffect(u, e, v)
    BY <1>1 DEF CommandNext, Accept, MarkPublished, CancelSubmission,
                MarkResultPublished, CompareAndSwapCheckpoint
  <2> QED
    BY <2>1, <2>2
<1>2. ASSUME NEW u \in Submission, AttemptNext(u)
      PROVE  \/ effect'[s] = effect[s]
             \/ \E e \in EffectInput, v \in Evidence :
                  EffectMayBecome(effect[s], e, v) /\ effect'[s] = e
  <2>1. ASSUME NEW o \in Owner, NEW t \in Token, NEW n \in DOMAIN attempts[u],
               NEW e \in EffectInput, NEW v \in Evidence,
               RecordAttemptEffect(u, n, o, t, e, v)
        PROVE  effect'[s] = effect[s] \/ (EffectMayBecome(effect[s], e, v) /\ effect'[s] = e)
    BY <1>0, <2>1 DEF RecordAttemptEffect
  <2>2. \/ UNCHANGED effect
        \/ \E o \in Owner, t \in Token, n \in DOMAIN attempts[u],
              e \in EffectInput, v \in Evidence : RecordAttemptEffect(u, n, o, t, e, v)
    BY <1>2 DEF AttemptNext, StartAttempt, FinishAttempt, RecordResult
  <2> QED
    BY <2>1, <2>2
<1>3. ASSUME NEW u \in Submission, LeaseNext(u)
      PROVE  UNCHANGED effect
  BY <1>3 DEF LeaseNext, Elapse, AcquireLease, Heartbeat, ReleaseLease
<1>4. ASSUME NEW S \in SUBSET Submission,
             ReconcileTerminalOutbox(S) \/ \E ack \in BOOLEAN : ReconcileCancelled(S, ack)
      PROVE  effect'[s] = effect[s] \/ (effect[s] # "committed" /\ effect'[s] = "unknown")
  BY <1>4 DEF ReconcileTerminalOutbox, ReconcileCancelled
<1>5. UNCHANGED vars => UNCHANGED effect
  BY DEF vars
<1>6. SweepNext =>
        effect'[s] = effect[s] \/ (effect[s] # "committed" /\ effect'[s] = "unknown")
  BY <1>4, Zenon DEF SweepNext
<1> QED
  BY <1>1, <1>2, <1>3, <1>5, <1>6 DEF Next

\* A committed receipt outlives every worker, operator and sweep.
THEOREM CommitFinality == Spec => CommittedIsFinal
<1> DEFINE Final ==
      \A s \in Submission : effect[s] = "committed" => effect'[s] = "committed"
<1>1. TypeOK /\ [Next]_vars => Final
  BY EffectMoves DEF EffectMayBecome
<1>2. TypeOK /\ [Next]_vars => [Final]_vars
  BY <1>1
<1> QED
  BY <1>2, TypeCorrect, PTL DEF Spec, CommittedIsFinal

\* What a worker left behind by a cancellation may have written is recorded:
\* the sweep writes unknown for the attempts it abandons, and no receipt is
\* ever erased.
THEOREM AbandonedAnswered == Spec => []AbandonedRunHasReceipt
<1>1. Init => AbandonedRunHasReceipt
  BY DEF Init, AbandonedRunHasReceipt
<1>2. ASSUME Inv, AbandonedRunHasReceipt, [Next]_vars,
             NEW s \in Submission, NEW n \in DOMAIN attempts'[s],
             status'[s] = "cancelled", n = Len(attempts'[s]),
             attempts'[s][n].status = "lost"
      PROVE  effect'[s] # "absent"
  <2>0. /\ TypeOK
        /\ Len(attempts[s]) \in Nat /\ DOMAIN attempts[s] = 1..Len(attempts[s])
        /\ Len(attempts'[s]) \in Nat /\ DOMAIN attempts'[s] = 1..Len(attempts'[s])
    <3>1. TypeOK /\ TypeOK'
      BY <1>2, TypeStep DEF Inv
    <3> QED
      BY <3>1, HistoryFacts DEF TypeOK
  <2>1. effect[s] # "absent" => effect'[s] # "absent"
    BY <1>2, <2>0, EffectMoves, StoreAssumption DEF EffectStatus
  <2>2. CASE status[s] = "cancelled" /\ Len(attempts'[s]) = Len(attempts[s])
             /\ attempts[s][n].status = "lost"
    BY <1>2, <2>0, <2>1, <2>2 DEF AbandonedRunHasReceipt
  <2>3. CASE Unmoved
    BY <1>2, <2>0, <2>2, <2>3 DEF Unmoved, NonTerminal, Runnable
  <2>4. ASSUME NEW u \in Submission, NEW o \in Owner, NEW t \in Token, StartAttempt(u, o, t)
        PROVE  effect'[s] # "absent"
    <3>1. u # s
      BY <1>2, <2>4 DEF StartAttempt, MayStart, Runnable
    <3> QED
      BY <1>2, <2>0, <2>2, <2>4, <3>1 DEF StartAttempt, TypeOK
  <2>5. ASSUME NEW u \in Submission, NEW o \in Owner, NEW t \in Token,
               NEW m \in DOMAIN attempts[u], NEW outcome \in Outcome,
               FinishAttempt(u, m, o, t, outcome)
        PROVE  effect'[s] # "absent"
    <3>1. CASE u # s
      BY <1>2, <2>0, <2>2, <2>5, <3>1 DEF FinishAttempt, TypeOK
    <3>2. CASE u = s
      <4> DEFINE verdict == IF outcome = "cancelled" \/ status[s] = "cancel_requested"
                            THEN "cancelled" ELSE outcome
                 a == [attempts[s][m] EXCEPT !.status = verdict]
      <4>1. verdict = "cancelled"
        BY <1>2, <2>0, <2>5, <3>2 DEF FinishAttempt, TypeOK
      <4>2. attempts'[s] = [attempts[s] EXCEPT ![m] = a]
        BY <2>0, <2>5, <3>2 DEF FinishAttempt, TypeOK
      <4>3. m = Len(attempts[s])
        BY <1>2, <2>5, <3>2 DEF FinishAttempt, Inv, AttemptsAreFenced
      <4>4. attempts[s][m] \in AttemptRecord
        BY <2>0, <2>5, <3>2 DEF TypeOK
      <4>5. a.status = "cancelled"
        BY <4>1, <4>4 DEF AttemptRecord
      <4> HIDE DEF a
      <4>6. Len(attempts'[s]) = Len(attempts[s]) /\ attempts'[s][m] = a
        BY <2>0, <2>5, <3>2, <4>2 DEF TypeOK
      <4> QED
        BY <1>2, <4>3, <4>5, <4>6
    <3> QED
      BY <3>1, <3>2
  <2>6. ASSUME NEW S \in SUBSET Submission, NEW ack \in BOOLEAN, ReconcileCancelled(S, ack)
        PROVE  effect'[s] # "absent"
    <3>1. CASE s \notin S
      BY <1>2, <2>2, <2>6, <3>1 DEF ReconcileCancelled
    <3>2. CASE s \in S
      <4>1. status[s] = "cancel_requested" /\ attempts'[s] = Retired(s)
        BY <2>6, <3>2 DEF ReconcileCancelled, Reconcilable
      <4>2. Len(attempts[s]) = Len(attempts'[s])
        BY <2>0, <4>1, RetiredShape
      <4>3. Running(s) # {}
        BY <1>2, <2>0, <4>1, <4>2 DEF Inv, ResolvedTogether, NonTerminal
      <4> QED
        BY <2>6, <3>2, <4>3 DEF ReconcileCancelled
    <3> QED
      BY <3>1, <3>2
  <2> QED
    BY <1>2, <2>0, <2>3, <2>4, <2>5, <2>6, StepKinds, Zenon
<1>3. Inv /\ AbandonedRunHasReceipt /\ [Next]_vars => AbandonedRunHasReceipt'
  BY <1>2 DEF AbandonedRunHasReceipt
<1> QED
  BY <1>1, <1>3, Invariance, PTL DEF Spec

---------------------------------------------------------------------------
(* What one step does to a history: nothing, it retires its newest         *)
(* attempt, appends to it, or writes one record of it.                     *)

\* A record of the same attempt, which does not start again.
Rewrites(new, old) ==
  /\ new.owner = old.owner
  /\ new.token = old.token
  /\ new.status = "running" => old.status = "running"

\* How the operations write the attempts of one submission.
AttemptsMove(s) ==
  \/ attempts'[s] = attempts[s]
  \/ attempts'[s] = Retired(s)
  \/ \E o \in Owner, t \in Token : attempts'[s] = Append(Retired(s), NewAttempt(o, t))
  \/ \E a : Rewrites(a, attempts[s][Len(attempts[s])])
               /\ attempts'[s] = [attempts[s] EXCEPT ![Len(attempts[s])] = a]
  \/ \E n \in DOMAIN attempts[s] :
       attempts'[s] = [attempts[s] EXCEPT ![n] = [attempts[s][n] EXCEPT !.delivered = TRUE]]

\* The attempt a call of a live holder names is the newest one: no older one
\* carries the token of the lease.
LEMMA HolderIsNewest ==
  ASSUME Inv, NEW s \in Submission, NEW n \in DOMAIN attempts[s],
         attempts[s][n].token = lease[s].token
  PROVE  n = Len(attempts[s])
<1>1. /\ Len(attempts[s]) \in Nat /\ DOMAIN attempts[s] = 1..Len(attempts[s])
      /\ lease[s].token \in Nat
      /\ \A m \in 1..Len(attempts[s]) : attempts[s][m].token \in Nat
  BY HistoryFacts DEF Inv
<1>2. \A m \in DOMAIN attempts[s] : attempts[s][m].token <= lease[s].token
  BY DEF Inv, AttemptsAreFenced
<1>3. \A m \in DOMAIN attempts[s] : n < m => attempts[s][n].token < attempts[s][m].token
  BY DEF Inv, AttemptsAreFenced
<1>4. n \in 1..Len(attempts[s]) /\ Len(attempts[s]) \in 1..Len(attempts[s])
  BY <1>1
<1> QED
  BY <1>1, <1>2, <1>3, <1>4

\* Every operation moves a history in one of these ways.
LEMMA HistoryMoves ==
  ASSUME Inv, [Next]_vars, NEW s \in Submission
  PROVE  AttemptsMove(s)
<1>0. TypeOK
  BY DEF Inv
<1>1. attempts \in [Submission -> Seq(AttemptRecord)]
  BY <1>0 DEF TypeOK
<1>2. ASSUME NEW u \in Submission, CommandNext(u)
      PROVE  AttemptsMove(s)
  <2>1. ASSUME NEW n \in DOMAIN attempts[u], NEW r \in Report, MarkResultPublished(u, n, r)
        PROVE  AttemptsMove(s)
    <3>1. attempts'[s] = IF u = s
                         THEN [attempts[s] EXCEPT ![n] = [attempts[s][n] EXCEPT !.delivered = TRUE]]
                         ELSE attempts[s]
      BY <1>1, <2>1 DEF MarkResultPublished
    <3> QED
      BY <3>1 DEF AttemptsMove
  <2>2. \/ UNCHANGED attempts
        \/ \E n \in DOMAIN attempts[u], r \in Report : MarkResultPublished(u, n, r)
    BY <1>2 DEF CommandNext, Accept, MarkPublished, CancelSubmission,
                RecordEffect, CompareAndSwapCheckpoint
  <2> QED
    BY <2>1, <2>2 DEF AttemptsMove
<1>3. ASSUME NEW u \in Submission, LeaseNext(u)
      PROVE  AttemptsMove(s)
  <2>1. UNCHANGED attempts
    BY <1>3 DEF LeaseNext, Elapse, AcquireLease, Heartbeat, ReleaseLease
  <2> QED
    BY <2>1 DEF AttemptsMove
<1>4. ASSUME NEW u \in Submission, AttemptNext(u)
      PROVE  AttemptsMove(s)
  <2> PICK o \in Owner, t \in Token :
        \/ StartAttempt(u, o, t)
        \/ \E n \in DOMAIN attempts[u] :
             \/ \E outcome \in Outcome : FinishAttempt(u, n, o, t, outcome)
             \/ \E e \in EffectInput, v \in Evidence :
                  RecordAttemptEffect(u, n, o, t, e, v)
             \/ \E r \in Report : RecordResult(u, n, o, t, r)
    BY <1>4 DEF AttemptNext
  <2>1. CASE StartAttempt(u, o, t)
    <3>1. attempts'[s] = IF u = s THEN Append(Retired(s), NewAttempt(o, t)) ELSE attempts[s]
      BY <1>1, <2>1 DEF StartAttempt
    <3> QED
      BY <3>1 DEF AttemptsMove
  <2>2. ASSUME NEW n \in DOMAIN attempts[u], NEW outcome \in Outcome,
               FinishAttempt(u, n, o, t, outcome)
        PROVE  AttemptsMove(s)
    <3> DEFINE a == [attempts[u][n] EXCEPT !.status =
                       IF outcome = "cancelled" \/ status[u] = "cancel_requested"
                       THEN "cancelled" ELSE outcome]
    <3>1. attempts' = [attempts EXCEPT ![u] = [attempts[u] EXCEPT ![n] = a]]
      BY <2>2 DEF FinishAttempt
    <3>2. n = Len(attempts[u])
      BY <2>2 DEF FinishAttempt, Inv, AttemptsAreFenced
    <3>3. attempts[u][n] \in AttemptRecord /\ attempts[u][n].status = "running"
      BY <1>1, <2>2 DEF FinishAttempt, Running
    <3>4. Rewrites(a, attempts[u][n])
      BY <3>3 DEF AttemptRecord, Rewrites
    <3> HIDE DEF a
    <3>5. attempts'[s] = IF u = s THEN [attempts[s] EXCEPT ![Len(attempts[s])] = a]
                         ELSE attempts[s]
      BY <1>1, <3>1, <3>2
    <3> QED
      BY <3>2, <3>4, <3>5 DEF AttemptsMove
  <2>3. ASSUME NEW n \in DOMAIN attempts[u], NEW e \in EffectInput, NEW v \in Evidence,
               RecordAttemptEffect(u, n, o, t, e, v)
        PROVE  AttemptsMove(s)
    BY <2>3 DEF RecordAttemptEffect, AttemptsMove
  <2>4. ASSUME NEW n \in DOMAIN attempts[u], NEW r \in Report, RecordResult(u, n, o, t, r)
        PROVE  AttemptsMove(s)
    <3> DEFINE a == [attempts[u][n] EXCEPT !.report = r]
    <3>1. attempts' = [attempts EXCEPT ![u] = [attempts[u] EXCEPT ![n] = a]]
      BY <2>4 DEF RecordResult
    <3>2. attempts[u][n].token = lease[u].token
      BY <2>4 DEF RecordResult, MayRecordResult, HoldsLease, OwnsAttempt
    <3>3. n = Len(attempts[u])
      BY <3>2, HolderIsNewest
    <3>4. attempts[u][n] \in AttemptRecord
      BY <1>1
    <3>5. Rewrites(a, attempts[u][n])
      BY <3>4 DEF AttemptRecord, Rewrites
    <3> HIDE DEF a
    <3>6. attempts'[s] = IF u = s THEN [attempts[s] EXCEPT ![Len(attempts[s])] = a]
                         ELSE attempts[s]
      BY <1>1, <3>1, <3>3
    <3> QED
      BY <3>3, <3>5, <3>6 DEF AttemptsMove
  <2> QED
    BY <2>1, <2>2, <2>3, <2>4
<1>5. ASSUME NEW S \in SUBSET Submission,
             ReconcileTerminalOutbox(S) \/ \E ack \in BOOLEAN : ReconcileCancelled(S, ack)
      PROVE  AttemptsMove(s)
  BY <1>5 DEF ReconcileTerminalOutbox, ReconcileCancelled, AttemptsMove
<1>6. SweepNext => AttemptsMove(s)
  BY <1>5, Zenon DEF SweepNext
<1>7. UNCHANGED vars => AttemptsMove(s)
  BY DEF vars, AttemptsMove
<1> QED
  BY <1>2, <1>3, <1>4, <1>6, <1>7 DEF Next

\* An older attempt keeps its record but for the delivery mark, and a history
\* never gets shorter.
LEMMA OlderAttemptsStay ==
  ASSUME Inv, TypeOK', NEW s \in Submission, AttemptsMove(s)
  PROVE  /\ Len(attempts'[s]) >= Len(attempts[s])
         /\ \A n \in DOMAIN attempts[s] :
              n < Len(attempts[s]) =>
                \/ attempts'[s][n] = attempts[s][n]
                \/ attempts'[s][n] = [attempts[s][n] EXCEPT !.delivered = TRUE]
<1> DEFINE h == attempts[s]
<1>0. TypeOK
  BY DEF Inv
<1>1. h \in Seq(AttemptRecord) /\ Len(h) \in Nat /\ DOMAIN h = 1..Len(h)
  BY <1>0, HistoryFacts
<1>2. Retired(s) \in Seq(AttemptRecord) /\ Len(Retired(s)) = Len(h)
  BY <1>0, RetiredShape
<1>3. \A n \in DOMAIN h : n < Len(h) => Retired(s)[n] = h[n]
  BY <1>1 DEF Retired, Inv, AttemptsAreFenced
<1>4. CASE attempts'[s] = Retired(s)
  BY <1>1, <1>2, <1>3, <1>4
<1>5. ASSUME NEW o \in Owner, NEW t \in Token,
             attempts'[s] = Append(Retired(s), NewAttempt(o, t))
      PROVE  /\ Len(attempts'[s]) >= Len(h)
             /\ \A n \in DOMAIN h : n < Len(h) => attempts'[s][n] = h[n]
  <2>1. /\ Len(attempts'[s]) = Len(h) + 1
        /\ \A n \in 1..Len(h) : attempts'[s][n] = Retired(s)[n]
    BY <1>1, <1>2, <1>5
  <2> QED
    BY <1>1, <1>3, <2>1
<1>6. ASSUME NEW a, Rewrites(a, h[Len(h)]), attempts'[s] = [h EXCEPT ![Len(h)] = a]
      PROVE  /\ Len(attempts'[s]) >= Len(h)
             /\ \A n \in DOMAIN h : n < Len(h) => attempts'[s][n] = h[n]
  <2>1. DOMAIN attempts'[s] = DOMAIN h
    BY <1>6, Zenon
  <2>2. DOMAIN attempts'[s] = 1..Len(attempts'[s]) /\ Len(attempts'[s]) \in Nat
    BY DEF TypeOK
  <2>3. Len(attempts'[s]) = Len(h)
    BY <1>1, <2>1, <2>2
  <2>4. \A n \in DOMAIN h : n # Len(h) => attempts'[s][n] = h[n]
    BY <1>6, Zenon
  <2> QED
    BY <1>1, <2>3, <2>4
<1>7. ASSUME NEW m \in DOMAIN h, attempts'[s] = [h EXCEPT ![m] = [h[m] EXCEPT !.delivered = TRUE]]
      PROVE  /\ Len(attempts'[s]) >= Len(h)
             /\ \A n \in DOMAIN h :
                  attempts'[s][n] = h[n] \/ attempts'[s][n] = [h[n] EXCEPT !.delivered = TRUE]
  <2> DEFINE a == [h[m] EXCEPT !.delivered = TRUE]
  <2>1. attempts'[s] = [h EXCEPT ![m] = a]
    BY <1>7
  <2> HIDE DEF a
  <2>2. DOMAIN attempts'[s] = DOMAIN h
    BY <2>1, Zenon
  <2>3. DOMAIN attempts'[s] = 1..Len(attempts'[s]) /\ Len(attempts'[s]) \in Nat
    BY DEF TypeOK
  <2>4. Len(attempts'[s]) = Len(h)
    BY <1>1, <2>2, <2>3
  <2>5. \A n \in DOMAIN h : attempts'[s][n] = IF n = m THEN a ELSE h[n]
    BY <2>1, Zenon
  <2>6. ASSUME NEW n \in DOMAIN h
        PROVE  attempts'[s][n] = h[n] \/ attempts'[s][n] = [h[n] EXCEPT !.delivered = TRUE]
    BY <2>5, <2>6, Zenon DEF a
  <2> QED
    BY <1>1, <2>4, <2>6
<1>8. CASE attempts'[s] = h
  BY <1>1, <1>8
<1> QED
  BY <1>4, <1>5, <1>6, <1>7, <1>8, Zenon DEF AttemptsMove

\* A worker that was superseded can no longer change what its attempt left
\* behind: the token of the lease is beyond that of its attempt.
THEOREM SupersededStays == Spec => SupersededIsInert
<1> DEFINE Inert ==
      \A s \in Submission :
        \A n \in DOMAIN attempts[s] :
          n < Len(attempts[s]) =>
            [attempts'[s][n] EXCEPT !.delivered = FALSE] =
              [attempts[s][n] EXCEPT !.delivered = FALSE]
<1>1. ASSUME Inv, [Next]_vars
      PROVE  Inert
  <2> SUFFICES ASSUME NEW s \in Submission, NEW n \in DOMAIN attempts[s], n < Len(attempts[s])
      PROVE  [attempts'[s][n] EXCEPT !.delivered = FALSE] =
               [attempts[s][n] EXCEPT !.delivered = FALSE]
    OBVIOUS
  <2>1. AttemptsMove(s)
    BY <1>1, HistoryMoves
  <2>2. \/ attempts'[s][n] = attempts[s][n]
        \/ attempts'[s][n] = [attempts[s][n] EXCEPT !.delivered = TRUE]
    BY <1>1, <2>1, TypeStep, OlderAttemptsStay DEF Inv
  <2>3. attempts[s][n] \in AttemptRecord
    BY <1>1 DEF Inv, TypeOK
  <2> QED
    BY <2>2, <2>3 DEF AttemptRecord
<1>2. Inv /\ [Next]_vars => [Inert]_vars
  BY <1>1
<1> QED
  BY <1>2, Invariance, PTL DEF Spec, SupersededIsInert

---------------------------------------------------------------------------
(* Checkpoints.                                                            *)

\* The last writer of a checkpoint is an attempt of its submission.
WrittenByAttempt ==
  \A c \in Checkpoint :
    IF checkpoint[c].submission \in Submission
    THEN checkpoint[c].attempt <= Len(attempts[checkpoint[c].submission])
    ELSE checkpoint[c].attempt = 0

\* compare_and_swap_checkpoint is the only operation that writes checkpoints,
\* and what it writes names the newest attempt of the submission.
LEMMA CheckpointWrites ==
  ASSUME Inv, [Next]_vars
  PROVE  \/ UNCHANGED checkpoint
         \/ \E c \in Checkpoint, s \in Submission :
              /\ checkpoint[c].submission \in {NoSubmission, s}
              /\ UNCHANGED attempts
              /\ checkpoint' = [checkpoint EXCEPT ![c] =
                                  [version |-> checkpoint[c].version + 1, submission |-> s,
                                   attempt |-> Len(attempts[s])]]
<1>1. ASSUME NEW s \in Submission, CommandNext(s)
      PROVE  \/ UNCHANGED checkpoint
             \/ \E n \in DOMAIN attempts[s], t \in Token, c \in Checkpoint,
                   v \in 0..MaxVersion : CompareAndSwapCheckpoint(c, v, s, n, t)
  BY <1>1 DEF CommandNext, Accept, MarkPublished, CancelSubmission, RecordEffect,
              MarkResultPublished
<1>2. ASSUME NEW s \in Submission, NEW n \in DOMAIN attempts[s], NEW t \in Token,
             NEW c \in Checkpoint, NEW v \in 0..MaxVersion,
             CompareAndSwapCheckpoint(c, v, s, n, t)
      PROVE  /\ checkpoint[c].submission \in {NoSubmission, s}
             /\ UNCHANGED attempts
             /\ checkpoint' = [checkpoint EXCEPT ![c] =
                                 [version |-> checkpoint[c].version + 1, submission |-> s,
                                  attempt |-> Len(attempts[s])]]
  <2>1. n = Len(attempts[s]) /\ v = checkpoint[c].version
    BY <1>2 DEF CompareAndSwapCheckpoint, Inv, AttemptsAreFenced
  <2> QED
    BY <1>2, <2>1 DEF CompareAndSwapCheckpoint
<1>3. ASSUME NEW s \in Submission, LeaseNext(s) \/ AttemptNext(s)
      PROVE  UNCHANGED checkpoint
  BY <1>3 DEF LeaseNext, AttemptNext, Elapse, AcquireLease, Heartbeat, ReleaseLease,
              StartAttempt, FinishAttempt, RecordAttemptEffect, RecordResult
<1>4. SweepNext => UNCHANGED checkpoint
  BY Zenon DEF SweepNext, ReconcileTerminalOutbox, ReconcileCancelled
<1>5. UNCHANGED vars => UNCHANGED checkpoint
  BY DEF vars
<1> QED
  BY <1>1, <1>2, <1>3, <1>4, <1>5 DEF Next

\* A checkpoint keeps its submission and moves on with its attempts.
THEOREM CheckpointsMoveForward == Spec => CheckpointMovesForward
<1> DEFINE Forward ==
      \A c \in Checkpoint :
        /\ checkpoint[c].submission # NoSubmission =>
             checkpoint'[c].submission = checkpoint[c].submission
        /\ checkpoint'[c].attempt >= checkpoint[c].attempt
<1>1. Init => WrittenByAttempt
  BY StoreAssumption DEF Init, WrittenByAttempt
<1>2. ASSUME Inv, WrittenByAttempt, [Next]_vars
      PROVE  WrittenByAttempt' /\ Forward
  <2>0. /\ checkpoint \in [Checkpoint -> CheckpointRecord]
        /\ \A s \in Submission :
             /\ Len(attempts[s]) \in Nat /\ Len(attempts'[s]) \in Nat
             /\ Len(attempts'[s]) >= Len(attempts[s])
    <3>1. TypeOK /\ TypeOK'
      BY <1>2, TypeStep DEF Inv
    <3>2. \A s \in Submission : attempts[s] \in Seq(AttemptRecord) /\ attempts'[s] \in Seq(AttemptRecord)
      BY <3>1 DEF TypeOK
    <3>3. \A s \in Submission : Len(attempts'[s]) >= Len(attempts[s])
      BY <1>2, <3>1, HistoryMoves, OlderAttemptsStay
    <3> QED
      BY <3>1, <3>2, <3>3 DEF TypeOK
  <2>1. \A c \in Checkpoint :
          /\ checkpoint[c].attempt \in Nat
          /\ checkpoint[c].submission \in Submission \cup {NoSubmission}
    BY <2>0 DEF CheckpointRecord
  <2>2. CASE UNCHANGED checkpoint
    <3>1. Forward
      BY <2>1, <2>2
    <3>2. WrittenByAttempt'
      <4> SUFFICES ASSUME NEW c \in Checkpoint
          PROVE  IF checkpoint[c].submission \in Submission
                 THEN checkpoint[c].attempt <= Len(attempts'[checkpoint[c].submission])
                 ELSE checkpoint[c].attempt = 0
        BY <2>2 DEF WrittenByAttempt
      <4>1. CASE checkpoint[c].submission \in Submission
        <5>1. checkpoint[c].attempt <= Len(attempts[checkpoint[c].submission])
          BY <1>2, <4>1 DEF WrittenByAttempt
        <5> QED
          BY <2>0, <2>1, <4>1, <5>1
      <4>2. CASE checkpoint[c].submission \notin Submission
        BY <1>2, <4>2 DEF WrittenByAttempt
      <4> QED
        BY <4>1, <4>2
    <3> QED
      BY <3>1, <3>2
  <2>3. ASSUME NEW c \in Checkpoint, NEW s \in Submission,
               checkpoint[c].submission \in {NoSubmission, s},
               UNCHANGED attempts,
               checkpoint' = [checkpoint EXCEPT ![c] =
                                [version |-> checkpoint[c].version + 1, submission |-> s,
                                 attempt |-> Len(attempts[s])]]
        PROVE  WrittenByAttempt' /\ Forward
    <3>1. /\ checkpoint'[c].submission = s /\ checkpoint'[c].attempt = Len(attempts[s])
          /\ \A d \in Checkpoint \ {c} : checkpoint'[d] = checkpoint[d]
      BY <2>0, <2>3
    <3>2. checkpoint[c].attempt <= Len(attempts[s])
      BY <1>2, <2>0, <2>1, <2>3, StoreAssumption DEF WrittenByAttempt
    <3>3. Forward
      BY <2>0, <2>1, <2>3, <3>1, <3>2
    <3>4. WrittenByAttempt'
      <4> SUFFICES ASSUME NEW d \in Checkpoint
          PROVE  IF checkpoint'[d].submission \in Submission
                 THEN checkpoint'[d].attempt <= Len(attempts[checkpoint'[d].submission])
                 ELSE checkpoint'[d].attempt = 0
        BY <2>3 DEF WrittenByAttempt
      <4>1. CASE d = c
        BY <2>0, <3>1, <4>1
      <4>2. CASE d # c
        BY <1>2, <3>1, <4>2 DEF WrittenByAttempt
      <4> QED
        BY <4>1, <4>2
    <3> QED
      BY <3>3, <3>4
  <2> HIDE DEF Forward
  <2> QED
    BY <1>2, <2>2, <2>3, CheckpointWrites
<1>3. Spec => []WrittenByAttempt
  BY <1>1, <1>2, Invariance, PTL DEF Spec
<1>4. Inv /\ WrittenByAttempt /\ [Next]_vars => [Forward]_vars
  BY <1>2
<1> QED
  BY <1>3, <1>4, Invariance, PTL DEF Spec, CheckpointMovesForward

---------------------------------------------------------------------------
(* Admission.                                                              *)

\* The open submissions, counted: accept is the only operation that opens one.
THEOREM AdmissionLimited == Spec => []AdmissionRespected
<1> DEFINE Counted == IsFiniteSet(InFlight) /\ Cardinality(InFlight) <= AdmissionLimit
<1>1. Init => Counted
  <2> SUFFICES ASSUME Init PROVE Counted
    OBVIOUS
  <2>1. InFlight = {}
    BY DEF Init, InFlight, NonTerminal, Runnable
  <2> QED
    BY <2>1, FS_EmptySet, StoreAssumption
<1>2. ASSUME Inv, Counted, [Next]_vars
      PROVE  Counted'
  <2>0. TypeOK
    BY <1>2 DEF Inv
  <2>1. CASE InFlight' \subseteq InFlight
    <3>1. IsFiniteSet(InFlight') /\ Cardinality(InFlight') <= Cardinality(InFlight)
      BY <1>2, <2>1, FS_Subset
    <3>2. Cardinality(InFlight') \in Nat /\ Cardinality(InFlight) \in Nat
      BY <1>2, <3>1, FS_CardinalityType
    <3> QED
      BY <1>2, <3>1, <3>2, StoreAssumption
  <2>2. ASSUME NEW s \in Submission, Accept(s)
        PROVE  Counted'
    <3>1. InFlight' = InFlight \cup {s} /\ s \notin InFlight
      BY <2>0, <2>2 DEF Accept, InFlight, TypeOK, NonTerminal, Runnable
    <3>2. IsFiniteSet(InFlight') /\ Cardinality(InFlight') = Cardinality(InFlight) + 1
      BY <1>2, <3>1, FS_AddElement
    <3>3. Cardinality(InFlight) < AdmissionLimit /\ Cardinality(InFlight) \in Nat
      BY <1>2, <2>2, FS_CardinalityType DEF Accept
    <3> QED
      BY <3>2, <3>3, StoreAssumption
  <2>3. (\A u \in Submission : status'[u] \in NonTerminal => status[u] \in NonTerminal)
          => InFlight' \subseteq InFlight
    BY DEF InFlight
  <2>4. ASSUME NEW s \in Submission, CommandNext(s), ~Accept(s)
        PROVE  InFlight' \subseteq InFlight
    BY <2>0, <2>3, <2>4 DEF CommandNext, MarkPublished, CancelSubmission, RecordEffect,
         MarkResultPublished, CompareAndSwapCheckpoint, TypeOK, NonTerminal, Runnable
  <2>5. ASSUME NEW s \in Submission, LeaseNext(s)
        PROVE  InFlight' \subseteq InFlight
    BY <2>3, <2>5 DEF LeaseNext, Elapse, AcquireLease, Heartbeat, ReleaseLease
  <2>6. ASSUME NEW s \in Submission, AttemptNext(s)
        PROVE  InFlight' \subseteq InFlight
    <3>1. ASSUME NEW o \in Owner, NEW t \in Token, NEW n \in DOMAIN attempts[s],
                 NEW outcome \in Outcome, FinishAttempt(s, n, o, t, outcome)
          PROVE  InFlight' \subseteq InFlight
      BY <2>0, <2>3, <3>1 DEF FinishAttempt, TypeOK, NonTerminal, Runnable
    <3>2. \/ UNCHANGED status
          \/ \E o \in Owner, t \in Token, n \in DOMAIN attempts[s], outcome \in Outcome :
               FinishAttempt(s, n, o, t, outcome)
      BY <2>6 DEF AttemptNext, StartAttempt, RecordAttemptEffect, RecordResult
    <3> QED
      BY <2>3, <3>1, <3>2
  <2>7. ASSUME SweepNext
        PROVE  InFlight' \subseteq InFlight
    <3>1. ASSUME NEW S \in SUBSET Submission, ReconcileTerminalOutbox(S)
          PROVE  InFlight' \subseteq InFlight
      BY <2>3, <3>1 DEF ReconcileTerminalOutbox
    <3>2. ASSUME NEW S \in SUBSET Submission, NEW ack \in BOOLEAN, ReconcileCancelled(S, ack)
          PROVE  InFlight' \subseteq InFlight
      BY <2>3, <3>2 DEF ReconcileCancelled, NonTerminal, Runnable
    <3> QED
      BY <2>7, <3>1, <3>2, Zenon DEF SweepNext
  <2>8. UNCHANGED vars => InFlight' \subseteq InFlight
    BY <2>3 DEF vars
  <2> HIDE DEF Counted
  <2> QED
    BY <1>2, <2>1, <2>2, <2>4, <2>5, <2>6, <2>7, <2>8 DEF Next
<1>3. Inv /\ Counted /\ [Next]_vars => Counted'
  BY <1>2
<1>4. Counted => AdmissionRespected
  BY DEF AdmissionRespected
<1> QED
  BY <1>1, <1>3, <1>4, Invariance, PTL DEF Spec
---------------------------------------------------------------------------
(* What clients of the store rely on, whatever anybody calls.              *)

\* Attempts keep their fence and do not start again, tokens rise, a lease that
\* was lost is not held again under the same token, and submissions do not
\* vanish or open again.
Onward(s) ==
  /\ Len(attempts'[s]) >= Len(attempts[s])
  /\ \A n \in DOMAIN attempts[s] :
       n \in DOMAIN attempts'[s] /\ Rewrites(attempts'[s][n], attempts[s][n])
  /\ lease'[s].token >= lease[s].token
  /\ \A o \in Owner, t \in Nat :
       t <= lease[s].token /\ HoldsLease(s, o, t)' => HoldsLease(s, o, t)
  /\ status[s] # "absent" => status'[s] # "absent"
  /\ status[s] \in Terminal => status'[s] = status[s]

\* The attempts of a history stay the attempts they are.
LEMMA AttemptsStay ==
  ASSUME Inv, TypeOK', NEW s \in Submission, AttemptsMove(s)
  PROVE  \A n \in DOMAIN attempts[s] :
           n \in DOMAIN attempts'[s] /\ Rewrites(attempts'[s][n], attempts[s][n])
<1> DEFINE h == attempts[s]
<1>0. TypeOK
  BY DEF Inv
<1>1. /\ h \in Seq(AttemptRecord) /\ Len(h) \in Nat /\ DOMAIN h = 1..Len(h)
      /\ attempts'[s] \in Seq(AttemptRecord)
  BY <1>0, HistoryFacts DEF TypeOK
<1>2. SUFFICES ASSUME NEW n \in DOMAIN h
               PROVE  n \in DOMAIN attempts'[s] /\ Rewrites(attempts'[s][n], h[n])
  OBVIOUS
<1>3. n \in DOMAIN attempts'[s]
  BY <1>0, <1>1, OlderAttemptsStay
<1>4. h[n] \in AttemptRecord
  BY <1>1
<1>5. Retired(s) \in Seq(AttemptRecord) /\ Len(Retired(s)) = Len(h)
  BY <1>0, RetiredShape
<1>6. Rewrites(Retired(s)[n], h[n])
  BY <1>1, <1>4 DEF Retired, Running, Rewrites, AttemptRecord
<1>7. CASE attempts'[s] = h
  BY <1>3, <1>7 DEF Rewrites
<1>8. CASE attempts'[s] = Retired(s)
  BY <1>3, <1>6, <1>8
<1>9. ASSUME NEW o \in Owner, NEW t \in Token,
             attempts'[s] = Append(Retired(s), NewAttempt(o, t))
      PROVE  Rewrites(attempts'[s][n], h[n])
  <2>1. attempts'[s][n] = Retired(s)[n]
    BY <1>1, <1>5, <1>9
  <2> QED
    BY <1>6, <2>1
<1>10. ASSUME NEW a, Rewrites(a, h[Len(h)]), attempts'[s] = [h EXCEPT ![Len(h)] = a]
       PROVE  Rewrites(attempts'[s][n], h[n])
  <2>1. attempts'[s][n] = IF n = Len(h) THEN a ELSE h[n]
    BY <1>10, Zenon
  <2> QED
    BY <1>10, <2>1 DEF Rewrites
<1>11. ASSUME NEW m \in DOMAIN h,
              attempts'[s] = [h EXCEPT ![m] = [h[m] EXCEPT !.delivered = TRUE]]
       PROVE  Rewrites(attempts'[s][n], h[n])
  <2>1. attempts'[s][n] = h[n] \/ attempts'[s][n] = [h[n] EXCEPT !.delivered = TRUE]
    BY <1>11, Zenon
  <2> QED
    BY <1>4, <2>1 DEF Rewrites, AttemptRecord
<1> QED
  BY <1>3, <1>7, <1>8, <1>9, <1>10, <1>11, Zenon DEF AttemptsMove

\* Tokens only rise, and a holder that lost its lease has lost it for good.
LEMMA LeaseMoves ==
  ASSUME TypeOK, [Next]_vars, NEW s \in Submission
  PROVE  /\ lease'[s].token >= lease[s].token
         /\ \A o \in Owner, t \in Nat :
              t <= lease[s].token /\ HoldsLease(s, o, t)' => HoldsLease(s, o, t)
<1> DEFINE Good == /\ lease'[s].token >= lease[s].token
                   /\ \A o \in Owner, t \in Nat :
                        t <= lease[s].token /\ HoldsLease(s, o, t)' => HoldsLease(s, o, t)
<1>0. /\ lease \in [Submission -> LeaseRecord] /\ lease[s] \in LeaseRecord
      /\ lease[s].token \in Nat /\ lease[s].left \in 0..TTL /\ TTL \in Nat
  BY StoreAssumption, HistoryFacts DEF TypeOK, LeaseRecord
<1>1. lease'[s] = lease[s] => Good
  BY <1>0 DEF HoldsLease, Live
<1>2. ASSUME NEW left \in 0..TTL, lease'[s] = [lease[s] EXCEPT !.left = left],
             lease[s].left > 0 \/ left = 0
      PROVE  Good
  <2>1. lease'[s].left = left /\ lease'[s].owner = lease[s].owner /\ lease'[s].token = lease[s].token
    BY <1>0, <1>2 DEF LeaseRecord
  <2> QED
    BY <1>0, <1>2, <2>1 DEF HoldsLease, Live
<1>3. ASSUME NEW u \in Submission, LeaseNext(u)
      PROVE  Good
  <2>1. CASE Elapse(u)
    <3>1. lease'[s] = IF u = s THEN [lease[s] EXCEPT !.left = lease[s].left - 1] ELSE lease[s]
      BY <1>0, <2>1 DEF Elapse
    <3>2. u = s => lease[s].left - 1 \in 0..TTL /\ lease[s].left > 0
      BY <1>0, <2>1 DEF Elapse, Live
    <3> QED
      BY <1>1, <1>2, <3>1, <3>2
  <2>2. ASSUME NEW o \in Owner, AcquireLease(u, o)
        PROVE  Good
    <3>1. CASE u # s
      BY <1>0, <1>1, <2>2, <3>1 DEF AcquireLease
    <3>2. CASE u = s
      <4>1. /\ lease'[s].owner = o /\ lease'[s].token = NextToken(s, o)
            /\ lease[s].left > 0 => lease[s].owner = o
        BY <1>0, <2>2, <3>2 DEF AcquireLease, MayAcquire, Live
      <4> QED
        BY <1>0, <4>1 DEF NextToken, HoldsLease, Live
    <3> QED
      BY <3>1, <3>2
  <2>3. ASSUME NEW o \in Owner, NEW t \in Token, Heartbeat(u, o, t)
        PROVE  Good
    <3>1. lease'[s] = IF u = s THEN [lease[s] EXCEPT !.left = TTL] ELSE lease[s]
      BY <1>0, <2>3 DEF Heartbeat
    <3>2. TTL \in 0..TTL /\ (u = s => lease[s].left > 0)
      BY <1>0, <2>3 DEF Heartbeat, HoldsLease, Live
    <3> QED
      BY <1>1, <1>2, <3>1, <3>2
  <2>4. ASSUME NEW o \in Owner, NEW t \in Token, ReleaseLease(u, o, t)
        PROVE  Good
    <3>1. lease'[s] = IF u = s THEN [lease[s] EXCEPT !.left = 0] ELSE lease[s]
      BY <1>0, <2>4 DEF ReleaseLease
    <3>2. 0 \in 0..TTL
      BY <1>0
    <3> QED
      BY <1>1, <1>2, <3>1, <3>2
  <2> QED
    BY <1>3, <2>1, <2>2, <2>3, <2>4 DEF LeaseNext
<1>4. ASSUME NEW u \in Submission, CommandNext(u)
      PROVE  Good
  <2>1. CASE CancelSubmission(u)
    <3>1. lease'[s] = lease[s] \/ lease'[s] = [lease[s] EXCEPT !.left = 0]
      BY <1>0, <2>1 DEF CancelSubmission
    <3>2. 0 \in 0..TTL
      BY <1>0
    <3> QED
      BY <1>1, <1>2, <3>1, <3>2
  <2>2. CASE UNCHANGED lease
    BY <1>1, <2>2
  <2> QED
    BY <1>4, <2>1, <2>2 DEF CommandNext, Accept, MarkPublished, RecordEffect,
         MarkResultPublished, CompareAndSwapCheckpoint
<1>5. ASSUME NEW u \in Submission, AttemptNext(u)
      PROVE  Good
  <2>1. UNCHANGED lease
    BY <1>5 DEF AttemptNext, StartAttempt, FinishAttempt, RecordAttemptEffect, RecordResult
  <2> QED
    BY <1>1, <2>1
<1>6. SweepNext => UNCHANGED lease
  BY Zenon DEF SweepNext, ReconcileTerminalOutbox, ReconcileCancelled
<1>7. UNCHANGED vars => UNCHANGED lease
  BY DEF vars
<1> HIDE DEF Good
<1>8. Good
  BY <1>1, <1>3, <1>4, <1>5, <1>6, <1>7 DEF Next
<1> QED
  BY <1>8 DEF Good

\* Every operation moves the store onward.
LEMMA StoreGoesOn ==
  ASSUME Inv, [Next]_vars, NEW s \in Submission
  PROVE  Onward(s)
<1>0. TypeOK /\ TypeOK'
  BY TypeStep DEF Inv
<1>1. AttemptsMove(s)
  BY HistoryMoves
<1>2. status[s] # "absent" => status'[s] # "absent"
  <2>1. CASE Unmoved
    BY <1>0, <2>1 DEF Unmoved, NonTerminal, Runnable
  <2>2. ASSUME NEW u \in Submission, NEW o \in Owner, NEW t \in Token, StartAttempt(u, o, t)
        PROVE  status'[s] = status[s]
    BY <2>2 DEF StartAttempt
  <2>3. ASSUME NEW u \in Submission, NEW o \in Owner, NEW t \in Token,
               NEW n \in DOMAIN attempts[u], NEW outcome \in Outcome,
               FinishAttempt(u, n, o, t, outcome)
        PROVE  status'[s] = status[s] \/ status'[s] \in Terminal
    BY <1>0, <2>3 DEF FinishAttempt, TypeOK, Terminal
  <2>4. ASSUME NEW S \in SUBSET Submission, NEW ack \in BOOLEAN, ReconcileCancelled(S, ack)
        PROVE  status'[s] = status[s] \/ status'[s] \in Terminal
    BY <2>4 DEF ReconcileCancelled, Terminal
  <2>5. "absent" \notin Terminal
    BY DEF Terminal
  <2> QED
    BY <1>0, <2>1, <2>2, <2>3, <2>4, <2>5, StepKinds, Zenon
<1>3. status[s] \in Terminal => status'[s] = status[s]
  BY StatusSticks DEF Sticks
<1> QED
  BY <1>0, <1>1, <1>2, <1>3, OlderAttemptsStay, AttemptsStay, LeaseMoves DEF Onward
=============================================================================
