----------------------- MODULE DurableWorkRefinement -----------------------
(***************************************************************************)
(* Proof that the durable work store implements FencedExecution, for any   *)
(* number of submissions, owners and tokens: the initial states map to its *)
(* initial states, and each operation to one of its steps or to a stutter. *)
(***************************************************************************)
EXTENDS DurableWorkProofs

\* What a step may do to the abstract view of a submission: nothing.
Same(s) ==
  /\ Phase(s)' = Phase(s)
  /\ lease'[s].token = lease[s].token
  /\ WorkerFence(s)' = WorkerFence(s)

\* A step that moves no submission in the abstract view is a stutter.
LEMMA Stutter ==
  ASSUME \A s \in Submission : Same(s)
  PROVE  UNCHANGED Fenced!fvars
<1>1. /\ [s \in Submission |-> Phase(s)]' = [s \in Submission |-> Phase(s)]
      /\ [s \in Submission |-> lease[s].token]' = [s \in Submission |-> lease[s].token]
      /\ [s \in Submission |-> WorkerFence(s)]' = [s \in Submission |-> WorkerFence(s)]
  BY DEF Same
<1> QED
  BY <1>1 DEF Fenced!fvars

\* Steps that leave histories as they are leave the worker as it is.
LEMMA WorkerStays ==
  ASSUME TypeOK, TypeOK', Unmoved, NEW s \in Submission
  PROVE  WorkerFence(s)' = WorkerFence(s)
<1>1. /\ DOMAIN attempts[s] = 1..Len(attempts[s]) /\ Len(attempts[s]) \in Nat
      /\ DOMAIN attempts'[s] = 1..Len(attempts[s])
  BY HistoryFacts DEF TypeOK, Unmoved
<1>2. Running(s)' = Running(s)
  BY <1>1 DEF Running, Unmoved
<1>3. CASE Running(s) = {}
  BY <1>2, <1>3 DEF WorkerFence
<1>4. CASE Running(s) # {}
  <2>1. Len(attempts[s]) \in 1..Len(attempts[s])
    BY <1>1, <1>4 DEF Running
  <2>2. attempts'[s][Len(attempts'[s])].token = attempts[s][Len(attempts[s])].token
    BY <2>1 DEF Unmoved
  <2> QED
    BY <1>2, <2>2 DEF WorkerFence
<1> QED
  BY <1>3, <1>4

\* A step of one submission, seen from above: only that submission moves.
LEMMA OneViewMoves ==
  ASSUME NEW s \in Submission, NEW p, NEW f, NEW w,
         Phase(s)' = p, lease'[s].token = f, WorkerFence(s)' = w,
         \A u \in Submission \ {s} : Same(u)
  PROVE  /\ [u \in Submission |-> Phase(u)]' =
              [[u \in Submission |-> Phase(u)] EXCEPT ![s] = p]
         /\ [u \in Submission |-> lease[u].token]' =
              [[u \in Submission |-> lease[u].token] EXCEPT ![s] = f]
         /\ [u \in Submission |-> WorkerFence(u)]' =
              [[u \in Submission |-> WorkerFence(u)] EXCEPT ![s] = w]
  BY DEF Same

\* Commands and lease calls: accept submits, a cancellation of open work
\* requests, a new fencing token grants, and the others cannot be seen.
LEMMA QuietRefines ==
  ASSUME TypeOK, TypeOK', NEW s \in Submission, CommandNext(s) \/ LeaseNext(s)
  PROVE  [Fenced!FencedNext]_(Fenced!fvars)
<1>0. /\ status \in [Submission -> NonTerminal \cup Terminal \cup {"absent"}]
      /\ lease \in [Submission -> LeaseRecord]
      /\ \A u \in Submission : lease[u].token \in Nat
  BY HistoryFacts DEF TypeOK
<1>1. \A u \in Submission : WorkerFence(u)' = WorkerFence(u)
  BY QuietSteps, WorkerStays
<1>2. ASSUME \A u \in Submission : status'[u] = status[u] /\ lease'[u].token = lease[u].token
      PROVE  UNCHANGED Fenced!fvars
  <2>1. \A u \in Submission : Same(u)
    BY <1>1, <1>2 DEF Same, Phase
  <2> QED
    BY <2>1, Stutter
<1>3. CASE Accept(s)
  <2>1. /\ Phase(s) = "absent" /\ Phase(s)' = "open"
        /\ \A u \in Submission \ {s} : Same(u)
        /\ UNCHANGED lease
    BY <1>0, <1>1, <1>3 DEF Accept, Phase, Runnable, Same
  <2>2. Fenced!Submit(s)
    BY <1>1, <2>1, OneViewMoves DEF Fenced!Submit
  <2> QED
    BY <2>2 DEF Fenced!FencedNext
<1>4. CASE MarkPublished(s)
  <2>1. \A u \in Submission : Same(u)
    BY <1>0, <1>1, <1>4 DEF MarkPublished, Phase, Runnable, Same
  <2> QED
    BY <2>1, Stutter
<1>5. CASE CancelSubmission(s)
  <2>1. \A u \in Submission : lease'[u].token = lease[u].token
    BY <1>0, <1>5 DEF CancelSubmission, LeaseRecord
  <2>2. /\ Phase(s)' = "cancelling"
        /\ Phase(s) \in {"open", "cancelling"}
        /\ \A u \in Submission \ {s} : Same(u)
    BY <1>0, <1>1, <1>5, <2>1 DEF CancelSubmission, Phase, Runnable, NonTerminal, Same
  <2>3. CASE Phase(s) = "cancelling"
    BY <1>1, <2>1, <2>2, <2>3, Stutter DEF Same
  <2>4. CASE Phase(s) = "open"
    <3>1. Fenced!RequestCancel(s)
      BY <1>1, <2>1, <2>2, <2>4, OneViewMoves DEF Fenced!RequestCancel
    <3> QED
      BY <3>1 DEF Fenced!FencedNext
  <2> QED
    BY <2>2, <2>3, <2>4
<1>6. ASSUME NEW o \in Owner, AcquireLease(s, o)
      PROVE  [Fenced!FencedNext]_(Fenced!fvars)
  <2>1. /\ lease'[s].token = NextToken(s, o)
        /\ UNCHANGED status
        /\ \A u \in Submission \ {s} : lease'[u] = lease[u]
    BY <1>0, <1>6 DEF AcquireLease
  <2>2. CASE Live(s)
    BY <1>2, <2>1, <2>2 DEF NextToken
  <2>3. CASE ~Live(s)
    <3>1. lease'[s].token = lease[s].token + 1 /\ Phase(s) = "open"
      BY <1>6, <2>1, <2>3 DEF NextToken, AcquireLease, MayAcquire, Phase, Runnable
    <3>2. \A u \in Submission \ {s} : Same(u)
      BY <1>1, <2>1 DEF Same, Phase
    <3>3. Phase(s)' = Phase(s)
      BY <2>1 DEF Phase
    <3>4. /\ [u \in Submission |-> lease[u].token]' =
               [[u \in Submission |-> lease[u].token] EXCEPT ![s] = lease[s].token + 1]
          /\ UNCHANGED [u \in Submission |-> Phase(u)]
          /\ UNCHANGED [u \in Submission |-> WorkerFence(u)]
      BY <1>1, <3>1, <3>2, <3>3 DEF Same
    <3>5. Fenced!Grant(s)
      BY <3>1, <3>4 DEF Fenced!Grant
    <3> QED
      BY <3>5 DEF Fenced!FencedNext
  <2> QED
    BY <2>2, <2>3
<1>7. CASE Elapse(s)
  BY <1>0, <1>2, <1>7 DEF Elapse, LeaseRecord
<1>8. ASSUME NEW o \in Owner, NEW t \in Token, Heartbeat(s, o, t) \/ ReleaseLease(s, o, t)
      PROVE  UNCHANGED Fenced!fvars
  BY <1>0, <1>2, <1>8 DEF Heartbeat, ReleaseLease, LeaseRecord
<1>9. CASE LeaseNext(s)
  BY <1>6, <1>7, <1>8, <1>9, Zenon DEF LeaseNext
<1>10. CASE CommandNext(s)
  <2>1. \/ Accept(s) \/ MarkPublished(s) \/ CancelSubmission(s)
        \/ UNCHANGED <<status, lease>>
    BY <1>10 DEF CommandNext, RecordEffect, MarkResultPublished, CompareAndSwapCheckpoint
  <2>2. UNCHANGED <<status, lease>> => UNCHANGED Fenced!fvars
    BY <1>2
  <2> QED
    BY <1>3, <1>4, <1>5, <2>1, <2>2
<1> QED
  BY <1>9, <1>10

\* start_attempt begins the worker of the newest fence: either nobody is at
\* work, or the running attempt it retires is older.
LEMMA StartRefines ==
  ASSUME Inv, Inv', NEW s \in Submission, NEW o \in Owner, NEW t \in Token,
         StartAttempt(s, o, t)
  PROVE  Fenced!Begin(s)
<1>0. /\ TypeOK /\ TypeOK'
      /\ Len(attempts[s]) \in Nat /\ DOMAIN attempts[s] = 1..Len(attempts[s])
      /\ t \in Nat /\ t > 0
  <2>1. TypeOK /\ TypeOK'
    BY DEF Inv
  <2> QED
    BY <2>1, HistoryFacts, StoreAssumption DEF Token
<1>1. /\ UNCHANGED <<status, lease>> /\ status[s] \in Runnable /\ t = lease[s].token
      /\ \A n \in Running(s) : attempts[s][n].token < t
      /\ \A u \in Submission \ {s} : attempts'[u] = attempts[u]
  BY <1>0 DEF StartAttempt, MayStart, HoldsLease, TypeOK
<1>2. WorkerFence(s) < t
  <2>1. CASE Running(s) = {}
    BY <1>0, <2>1 DEF WorkerFence
  <2>2. CASE Running(s) # {}
    <3>1. Len(attempts[s]) \in Running(s)
      BY <2>2 DEF Inv, AttemptsAreFenced
    <3> QED
      BY <1>1, <2>2, <3>1 DEF WorkerFence
  <2> QED
    BY <2>1, <2>2
<1>3. WorkerFence(s)' = t
  <2>1. attempts'[s] = Append(Retired(s), NewAttempt(o, t))
    BY <1>0 DEF StartAttempt, TypeOK
  <2>2. /\ Retired(s) \in Seq(AttemptRecord) /\ Len(Retired(s)) = Len(attempts[s])
    BY <1>0, RetiredShape
  <2>3. /\ Len(attempts'[s]) = Len(attempts[s]) + 1
        /\ DOMAIN attempts'[s] = 1..Len(attempts'[s])
        /\ attempts'[s][Len(attempts'[s])] = NewAttempt(o, t)
    BY <1>0, <2>1, <2>2
  <2>4. Len(attempts'[s]) \in Running(s)'
    BY <1>0, <2>3 DEF Running, NewAttempt
  <2> QED
    BY <2>3, <2>4 DEF WorkerFence, NewAttempt
<1>4. \A u \in Submission \ {s} : WorkerFence(u)' = WorkerFence(u)
  BY <1>1 DEF WorkerFence, Running
<1>5. /\ Phase(s) = "open"
      /\ UNCHANGED [u \in Submission |-> Phase(u)]
      /\ UNCHANGED [u \in Submission |-> lease[u].token]
  BY <1>1 DEF Phase, Runnable
<1>6. [u \in Submission |-> WorkerFence(u)]' =
        [[u \in Submission |-> WorkerFence(u)] EXCEPT ![s] = lease[s].token]
  BY <1>1, <1>3, <1>4
<1> QED
  BY <1>1, <1>2, <1>5, <1>6 DEF Fenced!Begin

\* finish_attempt resolves the submission with the worker that is at work.
LEMMA FinishRefines ==
  ASSUME Inv, Inv', NEW s \in Submission, NEW o \in Owner, NEW t \in Token,
         NEW n \in DOMAIN attempts[s], NEW outcome \in Outcome,
         FinishAttempt(s, n, o, t, outcome)
  PROVE  Fenced!FencedNext
<1>0. TypeOK /\ TypeOK' /\ DOMAIN attempts[s] = 1..Len(attempts[s])
  <2>1. TypeOK /\ TypeOK'
    BY DEF Inv
  <2> QED
    BY <2>1, HistoryFacts
<1>1. /\ UNCHANGED lease
      /\ \A u \in Submission \ {s} : attempts'[u] = attempts[u] /\ status'[u] = status[u]
  BY <1>0 DEF FinishAttempt, TypeOK
<1>2. n \in Running(s) /\ n = Len(attempts[s])
  BY DEF FinishAttempt, Inv, AttemptsAreFenced
<1>3. WorkerFence(s) > 0
  BY <1>2 DEF WorkerFence, Inv, Granted
<1>4. status[s] \in NonTerminal
  <2>1. status[s] \notin Terminal
    BY <1>2 DEF Inv, ResolvedTogether
  <2>2. status[s] # "absent"
    <3>1. attempts[s] # <<>>
      BY <1>0, <1>2, HistoryFacts
    <3> QED
      BY <3>1 DEF Inv, Unstarted
  <2> QED
    BY <1>0, <2>1, <2>2 DEF TypeOK
<1>5. /\ status'[s] \in Terminal
      /\ status[s] = "cancel_requested" => status'[s] = "cancelled"
  BY <1>0 DEF FinishAttempt, TypeOK, Terminal
<1>6. WorkerFence(s)' = 0
  BY <1>5 DEF Inv, ResolvedTogether, WorkerFence
<1>7. /\ Phase(s) \in {"open", "cancelling"}
      /\ Phase(s) = "cancelling" => status'[s] = "cancelled"
      /\ Phase(s)' = status'[s]
  BY <1>4, <1>5 DEF Phase, NonTerminal, Runnable, Terminal
<1>8. \A u \in Submission \ {s} : Same(u)
  BY <1>1 DEF Same, Phase, WorkerFence, Running
<1>9. /\ [u \in Submission |-> Phase(u)]' =
            [[u \in Submission |-> Phase(u)] EXCEPT ![s] = status'[s]]
      /\ [u \in Submission |-> WorkerFence(u)]' =
            [[u \in Submission |-> WorkerFence(u)] EXCEPT ![s] = 0]
  BY <1>6, <1>7, <1>8, OneViewMoves
<1>10. UNCHANGED [u \in Submission |-> lease[u].token]
  BY <1>1
<1>11. Fenced!Resolve(s, status'[s])
  BY <1>3, <1>7, <1>9, <1>10 DEF Fenced!Resolve
<1>12. status'[s] \in Fenced!Outcomes
  BY <1>5 DEF Fenced!Outcomes, Terminal
<1> QED
  BY <1>11, <1>12 DEF Fenced!FencedNext

\* The cancellation sweep abandons.
LEMMA SweepRefines ==
  ASSUME Inv, Inv', NEW S \in SUBSET Submission, NEW ack \in BOOLEAN,
         ReconcileCancelled(S, ack)
  PROVE  Fenced!Abandon(S)
<1>1. \A s \in S : status[s] = "cancel_requested" /\ status'[s] = "cancelled"
  BY DEF ReconcileCancelled, Reconcilable
<1>2. \A s \in Submission \ S : status'[s] = status[s] /\ attempts'[s] = attempts[s]
  BY DEF ReconcileCancelled
<1>3. UNCHANGED [s \in Submission |-> lease[s].token]
  BY DEF ReconcileCancelled
<1>4. \A s \in S : WorkerFence(s)' = 0
  BY <1>1 DEF Inv, ResolvedTogether, WorkerFence, Terminal
<1>5. \A s \in Submission \ S : WorkerFence(s)' = WorkerFence(s) /\ Phase(s)' = Phase(s)
  BY <1>2 DEF WorkerFence, Running, Phase
<1>6. \A s \in S : Phase(s) = "cancelling" /\ Phase(s)' = "cancelled"
  BY <1>1 DEF Phase, Runnable
<1> QED
  BY <1>3, <1>4, <1>5, <1>6 DEF Fenced!Abandon

\* Initial states map to initial states.
LEMMA InitRefines == Init => Fenced!FencedInit
<1> SUFFICES ASSUME Init PROVE Fenced!FencedInit
  OBVIOUS
<1>1. \A s \in Submission :
        /\ Phase(s) = "absent"
        /\ lease[s].token = 0
        /\ Running(s) = {}
  BY EmptySeq DEF Init, Phase, Runnable, Running
<1> QED
  BY <1>1 DEF Fenced!FencedInit, WorkerFence

\* The durable work store, with all its leases, expiries, sweeps and stale
\* callers, implements the fenced execution.
THEOREM StoreIsFenced == Spec => ImplementsFencing
<1>1. ASSUME Inv, Inv', [Next]_vars
      PROVE  [Fenced!FencedNext]_(Fenced!fvars)
  <2>0. TypeOK /\ TypeOK'
    BY <1>1 DEF Inv
  <2>1. ASSUME NEW s \in Submission, CommandNext(s) \/ LeaseNext(s)
        PROVE  [Fenced!FencedNext]_(Fenced!fvars)
    BY <2>0, <2>1, QuietRefines
  <2>2. ASSUME UNCHANGED <<status, lease>>, Unmoved
        PROVE  UNCHANGED Fenced!fvars
    <3>1. \A s \in Submission : Same(s)
      BY <2>0, <2>2, WorkerStays DEF Same, Phase
    <3> QED
      BY <3>1, Stutter
  <2>3. ASSUME NEW s \in Submission, NEW o \in Owner, NEW t \in Token, StartAttempt(s, o, t)
        PROVE  Fenced!FencedNext
    BY <1>1, <2>3, StartRefines DEF Fenced!FencedNext
  <2>4. ASSUME NEW s \in Submission, NEW o \in Owner, NEW t \in Token,
               NEW n \in DOMAIN attempts[s], NEW outcome \in Outcome,
               FinishAttempt(s, n, o, t, outcome)
        PROVE  Fenced!FencedNext
    BY <1>1, <2>4, FinishRefines
  <2>5. ASSUME NEW s \in Submission, NEW o \in Owner, NEW t \in Token,
               NEW n \in DOMAIN attempts[s],
               \/ \E e \in EffectInput, v \in Evidence :
                    RecordAttemptEffect(s, n, o, t, e, v)
               \/ \E r \in Report : RecordResult(s, n, o, t, r)
        PROVE  UNCHANGED Fenced!fvars
    <3>1. Unmoved
      BY <2>0, <2>5, QuietSteps
    <3>2. UNCHANGED <<status, lease>>
      BY <2>5 DEF RecordAttemptEffect, RecordResult
    <3> QED
      BY <2>2, <3>1, <3>2
  <2>6. ASSUME NEW S \in SUBSET Submission, ReconcileTerminalOutbox(S)
        PROVE  UNCHANGED Fenced!fvars
    <3>1. UNCHANGED <<status, lease, attempts>>
      BY <2>6 DEF ReconcileTerminalOutbox
    <3> QED
      BY <2>0, <2>2, <3>1, StillUnmoved
  <2>7. ASSUME NEW S \in SUBSET Submission, NEW ack \in BOOLEAN, ReconcileCancelled(S, ack)
        PROVE  Fenced!FencedNext
    BY <1>1, <2>7, SweepRefines DEF Fenced!FencedNext
  <2>8. CASE UNCHANGED vars
    <3>1. UNCHANGED <<status, lease, attempts>>
      BY <2>8 DEF vars
    <3> QED
      BY <2>0, <2>2, <3>1, StillUnmoved
  <2>9. ASSUME NEW s \in Submission, AttemptNext(s)
        PROVE  [Fenced!FencedNext]_(Fenced!fvars)
    BY <2>3, <2>4, <2>5, <2>9, Zenon DEF AttemptNext
  <2>10. CASE SweepNext
    BY <2>6, <2>7, <2>10, Zenon DEF SweepNext
  <2> QED
    BY <1>1, <2>1, <2>8, <2>9, <2>10, Zenon DEF Next
<1>2. Inv /\ Inv' /\ [Next]_vars => [Fenced!FencedNext]_(Fenced!fvars)
  BY <1>1
<1> QED
  BY <1>2, InitRefines, Invariance, PTL DEF Spec, ImplementsFencing, Fenced!FencedSpec
============================================================================
