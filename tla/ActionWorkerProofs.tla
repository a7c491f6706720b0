------------------------- MODULE ActionWorkerProofs -------------------------
(***************************************************************************)
(* The action jobs and their workers, for any jobs, workers, leases and    *)
(* faults.  The invariant says what the record of a job may look like,     *)
(* what a worker and a thread that was left behind still know of it, and   *)
(* when what they report is true.                                          *)
(***************************************************************************)
EXTENDS ActionWorker, TLAPS

\* What the fields of a job's record say of each other.
Sound(j, record) ==
  /\ Kind[j] \in SQL => record.st \notin {"cancel_requested", "cancelled"}
  /\ record.result => record.st \in Terminal
  /\ record.phase = "accepting" =>
       /\ Kind[j] = "prepare"
       /\ record.st \in {"running", "succeeded", "failed", "timed_out"}
  /\ record.st = "succeeded" /\ Kind[j] \in Effectful => record.result
  /\ record.st = "failed" => record.err \in {"action_failed", "authorization_denied"}
  /\ record.st = "timed_out" => record.err = "deadline_exceeded"

\* A cleanup was only accepted for a provision with a receipt.
JobOK(j) == Sound(j, job[j]) /\ (job[j].st # "absent" => ParentVerified(j))

\* A lease that outlasts the deadline only ends after it.
LeaseInv ==
  scenario.covers => \A j \in Jobs :
    Kind[j] \in SQL /\ job[j].st = "running" /\ ~job[j].live => Overdue(j)

\* The provision of the cleanup is over, its table is gone, and nobody is about
\* to create it again.
Gone(c) ==
  /\ job[Parent[c]].result
  /\ registry # [owner |-> Parent[c], st |-> "created"]
  /\ \A w \in Workers : OpAt(w, "commit") => op[w].job # Parent[c]

\* What a receipt of the job says.
Receipted(j) ==
  /\ Kind[j] = "provision" => registry.owner = j \/ GivenUp(j)
  /\ Kind[j] = "prepare" => j \in accepted
  /\ Kind[j] = "cleanup" /\ scenario.covers => Gone(j)

\* The job is being executed under this fence and deadline.
Current(j, w, tok, deadline) ==
  /\ job[j].st = "running" /\ job[j].worker = w
  /\ job[j].tok = tok /\ job[j].deadline = deadline

\* Only an action that is too late is executed beside a later fence of its job.
Fenced(j, w, tok, deadline) ==
  scenario.covers /\ Kind[j] \in SQL => Past(j, deadline) \/ Current(j, w, tok, deadline)

\* The thread in the worker is not the handler of the worker's claim.
OwnThreadOver(w) ==
  OpAt(w, "none") \/ op[w].job # host[w].job \/ op[w].tok < host[w].tok

HostOK(w) ==
  /\ ~At(w, "idle") =>
       job[host[w].job].st # "absent" /\ host[w].tok <= job[host[w].job].tok
  /\ At(w, "check") \/ At(w, "invoke") =>
       /\ Fenced(host[w].job, w, host[w].tok, host[w].deadline)
       /\ OwnThreadOver(w)
  /\ At(w, "await") =>
       /\ ~OpAt(w, "none") /\ op[w].job = host[w].job
       /\ op[w].tok = host[w].tok /\ op[w].deadline = host[w].deadline
       /\ HostKind(w) # "prepare" => ~op[w].cancelled
  /\ At(w, "finish") =>
       /\ host[w].st # "none"
       /\ host[w].st = "failed" => host[w].err \notin {"none", "deadline_exceeded"}
       /\ host[w].st # "timed_out" => OwnThreadOver(w)
       /\ host[w].late => host[w].st = "timed_out"
  /\ At(w, "retain") => host[w].late
  /\ host[w].late => (At(w, "finish") \/ At(w, "retain")) /\ OpAt(w, "none")
  /\ host[w].st = "succeeded" => At(w, "finish")
  /\ host[w].st = "succeeded" \/ host[w].late => Receipted(host[w].job)

OpOK(w) ==
  ~OpAt(w, "none") =>
    /\ job[op[w].job].st # "absent" /\ op[w].tok <= job[op[w].job].tok
    /\ op[w].pc \in {"execute", "recheck", "commit", "reconcile"} => OpKind(w) \in SQL
    /\ op[w].pc \in {"begin", "accept"} => OpKind(w) = "prepare"
    /\ OpAt(w, "accept") => job[op[w].job].phase = "accepting"
    /\ OpAt(w, "recheck") \/ OpAt(w, "commit") => ~Foreign(w)
    /\ ~OpAt(w, "done") => Fenced(op[w].job, w, op[w].tok, op[w].deadline)
    /\ op[w].res = "receipt" => OpAt(w, "done") /\ Receipted(op[w].job)

\* A thread has the transaction from its statements to the commit.
TxnInv == \A w \in Workers : OpAt(w, "recheck") \/ OpAt(w, "commit") <=> txn = w

\* Only a cleanup removes the table.
RegistryInv ==
  /\ registry.st = "none" => registry.owner = NoJob
  /\ registry.st = "removed" => GivenUp(registry.owner)

\* A run is accepted after the preparation could last be cancelled.
AcceptedInv == \A j \in accepted : job[j].phase = "accepting"

ResultInv == \A j \in Jobs : job[j].result => Receipted(j)

Inv ==
  /\ TypeOK
  /\ \A j \in Jobs : JobOK(j)
  /\ \A w \in Workers : HostOK(w) /\ OpOK(w)
  /\ LeaseInv /\ TxnInv /\ RegistryInv /\ AcceptedInv /\ ResultInv

\* What the invariant says of the properties.
LEMMA InvImplies ==
  Inv => /\ CleanedIsGone
         /\ ReceiptsAreTrue
         /\ UnrecordedIsRecoverable
         /\ CancelledNeverAccepted
<1> SUFFICES ASSUME Inv
             PROVE  /\ CleanedIsGone
                    /\ ReceiptsAreTrue
                    /\ UnrecordedIsRecoverable
                    /\ CancelledNeverAccepted
  OBVIOUS
<1>1. ReceiptsAreTrue
  BY DEF Inv, ResultInv, Receipted, ReceiptsAreTrue
<1>2. CleanedIsGone
  BY DEF Inv, ResultInv, Receipted, Gone, CleanedIsGone
<1>3. ASSUME NEW j \in Jobs, Done(j), ~job[j].result, job[j].st # "absent"
      PROVE  job[j].st \in Open \/ Renewable(j) \/ job[j].err = "authorization_denied"
  <2>1. Kind[j] \in SQL
    BY <1>3 DEF Done, SQL
  <2>2. job[j].st \in Open \cup {"succeeded", "failed", "timed_out"} /\ JobOK(j)
    BY <1>3, <2>1 DEF Inv, TypeOK, JobRecord, JobOK, Sound, Terminal
  <2> QED
    BY <1>3, <2>1, <2>2 DEF JobOK, Sound, Renewable, SQL, Effectful
<1>4. UnrecordedIsRecoverable
  BY <1>3 DEF UnrecordedIsRecoverable
<1>5. CancelledNeverAccepted
  BY DEF Inv, AcceptedInv, JobOK, Sound, CancelledNeverAccepted
<1> QED
  BY <1>1, <1>2, <1>4, <1>5

(***************************************************************************)
(* What any step leaves of a job, a fence and a receipt.                   *)
(***************************************************************************)
\* Tokens, acceptance and passed deadlines are never taken back.
JobGrows(j) ==
  /\ job'[j].tok \in Nat /\ job[j].tok <= job'[j].tok
  /\ job[j].st # "absent" => job'[j].st # "absent"
  /\ job[j].phase = "accepting" => job'[j].phase = "accepting"
  /\ job[j].result /\ Kind[j] # "preview" => job'[j].result
  /\ passed[j] \subseteq passed'[j]

\* The fence of a running job still stands, or came too late.
Stays(j) ==
  job[j].st = "running" =>
    \/ job[j].deadline \in passed'[j]
    \/ /\ job'[j].st = "running" /\ job'[j].worker = job[j].worker
       /\ job'[j].tok = job[j].tok /\ job'[j].deadline = job[j].deadline

Onward ==
  /\ scenario' = scenario
  /\ \A j \in Jobs : JobGrows(j) /\ (Receipted(j) => Receipted(j)')

\* The part of the locals that a fence speaks of stands with its job.
LEMMA FencedStands ==
  ASSUME NEW j \in Jobs, NEW w, NEW tok, NEW deadline, scenario' = scenario, JobGrows(j),
         Fenced(j, w, tok, deadline),
         scenario.covers /\ Kind[j] \in SQL /\ Current(j, w, tok, deadline) => Stays(j)
  PROVE  scenario'.covers /\ Kind[j] \in SQL =>
           \/ deadline \in passed'[j]
           \/ /\ job'[j].st = "running" /\ job'[j].worker = w
              /\ job'[j].tok = tok /\ job'[j].deadline = deadline
BY DEF Fenced, Current, Past, Stays, JobGrows

\* A receipt stays true while the registry and the commits stand still.
LEMMA ReceiptsStand ==
  ASSUME \A j \in Jobs : JobGrows(j), scenario' = scenario, registry' = registry,
         accepted \subseteq accepted',
         \A w \in Workers :
           op'[w].pc = "commit" => op[w].pc = "commit" /\ op'[w].job = op[w].job
  PROVE  Onward
<1>1. ASSUME NEW j \in Jobs, GivenUp(j)
      PROVE  GivenUp(j)'
  BY <1>1 DEF GivenUp, JobGrows
<1>2. ASSUME NEW j \in Jobs, Kind[j] = "cleanup", Gone(j)
      PROVE  Gone(j)'
  BY <1>2, JobAssumption DEF Gone, OpAt, JobGrows
<1>3. ASSUME NEW j \in Jobs, Receipted(j)
      PROVE  Receipted(j)'
  BY <1>1, <1>2, <1>3 DEF Receipted
<1> QED
  BY <1>3 DEF Onward

\* A thread that does nothing keeps what it knows.
LEMMA OpStands ==
  ASSUME Inv, Onward, NEW w \in Workers, op'[w] = op[w],
         OpAt(w, "recheck") \/ OpAt(w, "commit") => registry' = registry,
         scenario.covers /\ ~OpAt(w, "none") /\ OpKind(w) \in SQL /\ ~OpAt(w, "done")
           /\ Current(op[w].job, w, op[w].tok, op[w].deadline) => Stays(op[w].job)
  PROVE  OpOK(w)'
<1> SUFFICES ASSUME ~OpAt(w, "none")
             PROVE  OpOK(w)'
  BY DEF OpOK, OpAt
<1> DEFINE o == op[w]
<1>1. o.job \in Jobs /\ OpOK(w) /\ JobGrows(o.job) /\ o.tok \in Nat
  BY DEF Inv, TypeOK, Onward, OpLocals
<1>2. job'[o.job].st # "absent" /\ o.tok <= job'[o.job].tok
  <2>1. job[o.job].tok \in Nat /\ job[o.job].tok <= job'[o.job].tok /\ o.tok <= job[o.job].tok
    BY <1>1 DEF Inv, TypeOK, JobRecord, OpOK, JobGrows
  <2>2. job[o.job].st # "absent"
    BY <1>1 DEF OpOK
  <2>3. job'[o.job].tok \in Nat
    BY <1>1 DEF JobGrows
  <2> QED
    BY <2>1, <2>2, <2>3, <1>1 DEF JobGrows
<1>3. ~OpAt(w, "done") => Fenced(o.job, w, o.tok, o.deadline)'
  <2> SUFFICES ASSUME ~OpAt(w, "done")
               PROVE  Fenced(o.job, w, o.tok, o.deadline)'
    OBVIOUS
  <2>1. Fenced(o.job, w, o.tok, o.deadline) /\ scenario' = scenario
    BY <1>1 DEF OpOK, Onward
  <2>2. scenario.covers /\ Kind[o.job] \in SQL /\ Current(o.job, w, o.tok, o.deadline)
          => Stays(o.job)
    BY DEF OpKind
  <2>3. scenario'.covers /\ Kind[o.job] \in SQL =>
           \/ o.deadline \in passed'[o.job]
           \/ /\ job'[o.job].st = "running" /\ job'[o.job].worker = w
              /\ job'[o.job].tok = o.tok /\ job'[o.job].deadline = o.deadline
    BY <1>1, <2>1, <2>2, FencedStands
  <2> QED
    BY <2>3 DEF Fenced, Past, Current
<1>4. o.res = "receipt" => OpAt(w, "done") /\ Receipted(o.job)'
  BY <1>1 DEF OpOK, Onward, Receipted, GivenUp, Gone, OpAt
<1>5. o.pc = "accept" => job'[o.job].phase = "accepting"
  BY <1>1 DEF OpOK, OpAt, JobGrows
<1>6. o.pc \in {"recheck", "commit"} => ~Foreign(w)'
  BY <1>1 DEF OpOK, OpAt, Foreign, OpKind
<1> QED
  BY <1>1, <1>2, <1>3, <1>4, <1>5, <1>6
  DEF OpOK, OpAt, OpKind, Fenced, Past, Current, Receipted, GivenUp, Gone

\* The event loop of a worker whose thread ends or goes on.
LEMMA HostBeside ==
  ASSUME Inv, Onward, NEW w \in Workers, host'[w] = host[w],
         OwnThreadOver(w) => OwnThreadOver(w)',
         At(w, "await") => /\ op'[w].pc # "none" /\ op'[w].job = op[w].job
                           /\ op'[w].tok = op[w].tok /\ op'[w].deadline = op[w].deadline
                           /\ op'[w].cancelled = op[w].cancelled,
         host[w].late => op'[w].pc = "none",
         scenario.covers /\ (At(w, "check") \/ At(w, "invoke")) /\ HostKind(w) \in SQL
           /\ Current(host[w].job, w, host[w].tok, host[w].deadline) => Stays(host[w].job)
  PROVE  HostOK(w)'
<1> SUFFICES ASSUME ~At(w, "idle")
             PROVE  HostOK(w)'
  BY DEF HostOK, At, Inv
<1> DEFINE h == host[w]
<1>1. h.job \in Jobs /\ HostOK(w) /\ JobGrows(h.job) /\ h.tok \in Nat
  BY DEF Inv, TypeOK, Onward, HostLocals
<1>2. job'[h.job].st # "absent" /\ h.tok <= job'[h.job].tok
  <2>1. job[h.job].tok \in Nat /\ job'[h.job].tok \in Nat /\ job[h.job].tok <= job'[h.job].tok
        /\ h.tok <= job[h.job].tok
    BY <1>1 DEF Inv, TypeOK, JobRecord, HostOK, JobGrows
  <2>2. job[h.job].st # "absent"
    BY <1>1 DEF HostOK
  <2> QED
    BY <2>1, <2>2, <1>1 DEF JobGrows
<1>3. At(w, "check") \/ At(w, "invoke") => Fenced(h.job, w, h.tok, h.deadline)'
  <2> SUFFICES ASSUME At(w, "check") \/ At(w, "invoke")
               PROVE  Fenced(h.job, w, h.tok, h.deadline)'
    OBVIOUS
  <2>1. Fenced(h.job, w, h.tok, h.deadline) /\ scenario' = scenario
    BY <1>1 DEF HostOK, Onward
  <2>2. scenario.covers /\ Kind[h.job] \in SQL /\ Current(h.job, w, h.tok, h.deadline)
          => Stays(h.job)
    BY DEF HostKind
  <2>3. scenario'.covers /\ Kind[h.job] \in SQL =>
           \/ h.deadline \in passed'[h.job]
           \/ /\ job'[h.job].st = "running" /\ job'[h.job].worker = w
              /\ job'[h.job].tok = h.tok /\ job'[h.job].deadline = h.deadline
    BY <1>1, <2>1, <2>2, FencedStands
  <2> QED
    BY <2>3 DEF Fenced, Past, Current
<1>4. h.st = "succeeded" \/ h.late => Receipted(h.job)'
  BY <1>1 DEF HostOK, Onward, Receipted, GivenUp, Gone, OpAt
<1> QED
  BY <1>1, <1>2, <1>3, <1>4 DEF HostOK, At, OpAt, HostKind

\* A worker that does nothing keeps what it knows.
LEMMA HostStands ==
  ASSUME Inv, Onward, NEW w \in Workers, op'[w] = op[w], host'[w] = host[w],
         scenario.covers /\ (At(w, "check") \/ At(w, "invoke")) /\ HostKind(w) \in SQL
           /\ Current(host[w].job, w, host[w].tok, host[w].deadline) => Stays(host[w].job)
  PROVE  HostOK(w)'
BY HostBeside DEF HostOK, Inv, OpAt, OwnThreadOver

\* A step of some workers, or of none, keeps the invariant if those keep their
\* part, the records stay in order and the others' fences stand.
LEMMA StepKeepsInv ==
  ASSUME Inv, TypeOK', Onward, NEW W \in SUBSET Workers,
         \A j \in Jobs : JobOK(j)', LeaseInv',
         \A w \in W : HostOK(w)' /\ OpOK(w)',
         \A w \in Workers \ W : host'[w] = host[w] /\ op'[w] = op[w],
         \A w \in Workers \ W, j \in Jobs :
           scenario.covers /\ Kind[j] \in SQL /\ job[j].worker = w => Stays(j),
         registry' = registry \/ txn \in W,
         RegistryInv', TxnInv', AcceptedInv',
         \A j \in Jobs : job'[j].result /\ ~job[j].result => Receipted(j)'
  PROVE  Inv'
<1>1. ASSUME NEW w \in Workers
      PROVE  HostOK(w)' /\ OpOK(w)'
  <2>1. CASE w \in W
    BY <2>1
  <2>2. CASE w \notin W
    <3>1. OpAt(w, "recheck") \/ OpAt(w, "commit") => registry' = registry
      BY <2>2 DEF Inv, TxnInv
    <3>2. host[w].job \in Jobs \/ At(w, "idle")
      BY DEF Inv, TypeOK
    <3>3. op[w].job \in Jobs \/ OpAt(w, "none")
      BY DEF Inv, TypeOK
    <3>4. OpOK(w)'
      <4>1. scenario.covers /\ ~OpAt(w, "none") /\ OpKind(w) \in SQL /\ ~OpAt(w, "done")
              /\ Current(op[w].job, w, op[w].tok, op[w].deadline) => Stays(op[w].job)
        BY <2>2, <3>3 DEF Current, OpKind
      <4> QED
        BY <2>2, <3>1, <4>1, OpStands
    <3>5. HostOK(w)'
      <4>1. scenario.covers /\ (At(w, "check") \/ At(w, "invoke")) /\ HostKind(w) \in SQL
              /\ Current(host[w].job, w, host[w].tok, host[w].deadline) => Stays(host[w].job)
        BY <2>2, <3>2 DEF Current, HostKind, At
      <4> QED
        BY <2>2, <4>1, HostStands
    <3> QED
      BY <3>4, <3>5
  <2> QED
    BY <2>1, <2>2
<1>2. ResultInv'
  BY DEF ResultInv, Inv, Onward
<1> QED
  BY <1>1, <1>2 DEF Inv

(***************************************************************************)
(* Steps that leave the store alone.                                       *)
(***************************************************************************)
LEMMA StoreRests ==
  ASSUME Inv, UNCHANGED storeVars, scenario' = scenario
  PROVE  /\ job' \in [Jobs -> JobRecord] /\ passed' \in [Jobs -> SUBSET Nat]
         /\ \A j \in Jobs : JobGrows(j) /\ Stays(j) /\ JobOK(j)'
         /\ LeaseInv'
<1>1. job' = job /\ passed' = passed
  BY DEF storeVars
<1>2. ASSUME NEW j \in Jobs
      PROVE  JobGrows(j) /\ Stays(j)
  <2>1. job[j].tok \in Nat
    BY DEF Inv, TypeOK, JobRecord
  <2> QED
    BY <1>1, <2>1 DEF JobGrows, Stays
<1>3. ASSUME NEW j \in Jobs
      PROVE  JobOK(j)'
  BY <1>1 DEF Inv, JobOK, Sound, ParentVerified
<1>4. LeaseInv'
  BY <1>1 DEF Inv, LeaseInv, Overdue, Past
<1> QED
  BY <1>1, <1>2, <1>3, <1>4 DEF Inv, TypeOK

LEMMA SpendType ==
  ASSUME TypeOK, left' = left \/ (left > 0 /\ left' = left - 1)
  PROVE  left' \in 0 .. MaxFaults
BY WorkerAssumption DEF TypeOK

\* A worker that leaves the store and the database alone has only its own part
\* to keep.
LEMMA QuietStep ==
  ASSUME Inv, NEW w \in Workers, UNCHANGED <<storeVars, scenario, registry, accepted>>,
         left' \in 0 .. MaxFaults, txn' \in {txn, w, NoWorker}, Onward,
         host' \in [Workers -> HostLocals], op' \in [Workers -> OpLocals],
         host'[w].pc # "idle" => host'[w].job \in Jobs,
         op'[w].pc # "none" => op'[w].job \in Jobs,
         \A v \in Workers \ {w} : host'[v] = host[v] /\ op'[v] = op[v],
         op'[w].pc \in {"recheck", "commit"} <=> txn' = w,
         txn' = txn \/ txn \in {w, NoWorker},
         HostOK(w)', OpOK(w)'
  PROVE  Inv'
<1>1. /\ job' \in [Jobs -> JobRecord] /\ passed' \in [Jobs -> SUBSET Nat]
      /\ \A j \in Jobs : JobGrows(j) /\ Stays(j) /\ JobOK(j)'
      /\ LeaseInv' /\ job' = job
  BY StoreRests DEF storeVars
<1>2. TypeOK'
  <2>1. \A v \in Workers : (host'[v].pc # "idle" => host'[v].job \in Jobs)
                        /\ (op'[v].pc # "none" => op'[v].job \in Jobs)
    BY DEF Inv, TypeOK, At, OpAt
  <2> QED
    BY <1>1, <2>1 DEF Inv, TypeOK, At, OpAt
<1>3. TxnInv'
  <2>1. ASSUME NEW v \in Workers, v # w
        PROVE  op'[v].pc \in {"recheck", "commit"} <=> txn' = v
    <3>1. op[v].pc \in {"recheck", "commit"} <=> txn = v
      BY DEF Inv, TxnInv, OpAt
    <3> QED
      BY <2>1, <3>1, JobAssumption
  <2> QED
    BY <2>1 DEF TxnInv, OpAt
<1>4. RegistryInv' /\ AcceptedInv'
  BY <1>1 DEF Inv, RegistryInv, AcceptedInv, GivenUp
<1> DEFINE W == {w}
<1>5. /\ W \in SUBSET Workers
      /\ \A v \in W : HostOK(v)' /\ OpOK(v)'
      /\ \A v \in Workers \ W : host'[v] = host[v] /\ op'[v] = op[v]
  OBVIOUS
<1> HIDE DEF W
<1> QED
  BY <1>1, <1>2, <1>3, <1>4, <1>5, StepKeepsInv

(***************************************************************************)
(* How the locals of one worker change.                                    *)
(***************************************************************************)
LEMMA HostChanges ==
  ASSUME TypeOK, NEW w \in Workers, NEW h \in HostLocals, host' = [host EXCEPT ![w] = h]
  PROVE  /\ host' \in [Workers -> HostLocals] /\ host'[w] = h
         /\ \A v \in Workers \ {w} : host'[v] = host[v]
BY DEF TypeOK

LEMMA OpChanges ==
  ASSUME TypeOK, NEW w \in Workers, NEW o \in OpLocals, op' = [op EXCEPT ![w] = o]
  PROVE  /\ op' \in [Workers -> OpLocals] /\ op'[w] = o
         /\ \A v \in Workers \ {w} : op'[v] = op[v]
BY DEF TypeOK

HostPcs == {"idle", "check", "invoke", "await", "unwind", "finish", "retain"}

OpPcs == {"none", "start", "execute", "recheck", "commit", "reconcile", "begin", "accept", "done"}

LEMMA LocalsTyped ==
  ASSUME TypeOK, NEW w \in Workers
  PROVE  /\ host[w] \in HostLocals /\ op[w] \in OpLocals
         /\ Idle \in HostLocals /\ NoOp \in OpLocals
BY DEF TypeOK, Idle, NoOp, HostLocals, OpLocals, ErrorCodes

\* Only the program counter of the event loop moves.
LEMMA GotoMoves ==
  ASSUME TypeOK, NEW w \in Workers, NEW pc \in HostPcs, Goto(w, pc)
  PROVE  /\ host' \in [Workers -> HostLocals]
         /\ \A v \in Workers \ {w} : host'[v] = host[v]
         /\ host'[w].pc = pc /\ host'[w].job = host[w].job /\ host'[w].tok = host[w].tok
         /\ host'[w].deadline = host[w].deadline /\ host'[w].st = host[w].st
         /\ host'[w].err = host[w].err /\ host'[w].late = host[w].late
<1> DEFINE h == [host[w] EXCEPT !.pc = pc]
<1>1. h \in HostLocals
  BY LocalsTyped DEF HostLocals, HostPcs
<1>2. host' = [host EXCEPT ![w] = h]
  BY DEF Goto
<1>3. /\ h.pc = pc /\ h.job = host[w].job /\ h.tok = host[w].tok
      /\ h.deadline = host[w].deadline /\ h.st = host[w].st
      /\ h.err = host[w].err /\ h.late = host[w].late
  BY LocalsTyped DEF HostLocals
<1> HIDE DEF h
<1> QED
  BY <1>1, <1>2, <1>3, HostChanges

Outcomes == {"succeeded", "failed", "timed_out"}

\* The event loop goes on to finish its job with an outcome.
LEMMA ConcludeMoves ==
  ASSUME TypeOK, NEW w \in Workers, NEW st \in Outcomes,
         NEW err \in ErrorCodes \cup {"preparation_failed"}, NEW late \in BOOLEAN,
         host' = [host EXCEPT ![w] = [@ EXCEPT !.pc = "finish", !.st = st, !.err = err,
                                               !.late = late]]
  PROVE  /\ host' \in [Workers -> HostLocals]
         /\ \A v \in Workers \ {w} : host'[v] = host[v]
         /\ host'[w].pc = "finish" /\ host'[w].job = host[w].job
         /\ host'[w].tok = host[w].tok /\ host'[w].deadline = host[w].deadline
         /\ host'[w].st = st /\ host'[w].err = err /\ host'[w].late = late
<1> DEFINE h == [host[w] EXCEPT !.pc = "finish", !.st = st, !.err = err, !.late = late]
<1>1. h \in HostLocals
  BY LocalsTyped DEF HostLocals, Outcomes
<1>2. host' = [host EXCEPT ![w] = h]
  OBVIOUS
<1>3. /\ h.pc = "finish" /\ h.job = host[w].job /\ h.tok = host[w].tok
      /\ h.deadline = host[w].deadline /\ h.st = st /\ h.err = err /\ h.late = late
  BY LocalsTyped DEF HostLocals
<1> HIDE DEF h
<1> QED
  BY <1>1, <1>2, <1>3, HostChanges

LEMMA Concludes ==
  ASSUME TypeOK, NEW w \in Workers, NEW st \in Outcomes,
         NEW err \in ErrorCodes \cup {"preparation_failed"}, Conclude(w, st, err)
  PROVE  /\ host' \in [Workers -> HostLocals]
         /\ \A v \in Workers \ {w} : host'[v] = host[v]
         /\ host'[w].pc = "finish" /\ host'[w].job = host[w].job
         /\ host'[w].tok = host[w].tok /\ host'[w].deadline = host[w].deadline
         /\ host'[w].st = st /\ host'[w].err = err /\ host'[w].late = host[w].late
<1> DEFINE h == [host[w] EXCEPT !.pc = "finish", !.st = st, !.err = err]
<1>1. h \in HostLocals
  BY LocalsTyped DEF HostLocals, Outcomes
<1>2. host' = [host EXCEPT ![w] = h]
  BY DEF Conclude
<1>3. /\ h.pc = "finish" /\ h.job = host[w].job /\ h.tok = host[w].tok
      /\ h.deadline = host[w].deadline /\ h.st = st /\ h.err = err /\ h.late = host[w].late
  BY LocalsTyped DEF HostLocals
<1> HIDE DEF h
<1> QED
  BY <1>1, <1>2, <1>3, HostChanges

LEMMA Returns ==
  ASSUME TypeOK, NEW w \in Workers, Return(w)
  PROVE  /\ host' \in [Workers -> HostLocals] /\ host'[w] = Idle
         /\ \A v \in Workers \ {w} : host'[v] = host[v]
BY LocalsTyped, HostChanges DEF Return

LEMMA OpGotoMoves ==
  ASSUME TypeOK, NEW w \in Workers, NEW pc \in OpPcs, OpGoto(w, pc)
  PROVE  /\ op' \in [Workers -> OpLocals]
         /\ \A v \in Workers \ {w} : op'[v] = op[v]
         /\ op'[w].pc = pc /\ op'[w].job = op[w].job /\ op'[w].tok = op[w].tok
         /\ op'[w].deadline = op[w].deadline /\ op'[w].cancelled = op[w].cancelled
         /\ op'[w].res = op[w].res
<1> DEFINE o == [op[w] EXCEPT !.pc = pc]
<1>1. o \in OpLocals
  BY LocalsTyped DEF OpLocals, OpPcs
<1>2. op' = [op EXCEPT ![w] = o]
  BY DEF OpGoto
<1>3. /\ o.pc = pc /\ o.job = op[w].job /\ o.tok = op[w].tok
      /\ o.deadline = op[w].deadline /\ o.cancelled = op[w].cancelled /\ o.res = op[w].res
  BY LocalsTyped DEF OpLocals
<1> HIDE DEF o
<1> QED
  BY <1>1, <1>2, <1>3, OpChanges

LEMMA OpEndsMoves ==
  ASSUME TypeOK, NEW w \in Workers, NEW res \in {"receipt", "error"}, OpEnds(w, res)
  PROVE  /\ op' \in [Workers -> OpLocals]
         /\ \A v \in Workers \ {w} : op'[v] = op[v]
         /\ op'[w].pc = "done" /\ op'[w].job = op[w].job /\ op'[w].tok = op[w].tok
         /\ op'[w].deadline = op[w].deadline /\ op'[w].cancelled = op[w].cancelled
         /\ op'[w].res = res
<1> DEFINE o == [op[w] EXCEPT !.pc = "done", !.res = res]
<1>1. o \in OpLocals
  BY LocalsTyped DEF OpLocals
<1>2. op' = [op EXCEPT ![w] = o]
  BY DEF OpEnds
<1>3. /\ o.pc = "done" /\ o.job = op[w].job /\ o.tok = op[w].tok
      /\ o.deadline = op[w].deadline /\ o.cancelled = op[w].cancelled /\ o.res = res
  BY LocalsTyped DEF OpLocals
<1> HIDE DEF o
<1> QED
  BY <1>1, <1>2, <1>3, OpChanges

LEMMA CancelOpMoves ==
  ASSUME TypeOK, NEW w \in Workers, CancelOp(w)
  PROVE  /\ op' \in [Workers -> OpLocals]
         /\ \A v \in Workers \ {w} : op'[v] = op[v]
         /\ op'[w].pc = op[w].pc /\ op'[w].job = op[w].job /\ op'[w].tok = op[w].tok
         /\ op'[w].deadline = op[w].deadline /\ op'[w].cancelled /\ op'[w].res = op[w].res
<1> DEFINE o == [op[w] EXCEPT !.cancelled = TRUE]
<1>1. o \in OpLocals
  BY LocalsTyped DEF OpLocals
<1>2. op' = [op EXCEPT ![w] = o]
  BY DEF CancelOp
<1>3. /\ o.pc = op[w].pc /\ o.job = op[w].job /\ o.tok = op[w].tok
      /\ o.deadline = op[w].deadline /\ o.cancelled /\ o.res = op[w].res
  BY LocalsTyped DEF OpLocals
<1> HIDE DEF o
<1> QED
  BY <1>1, <1>2, <1>3, OpChanges

LEMMA OpClears ==
  ASSUME TypeOK, NEW w \in Workers, op' = [op EXCEPT ![w] = NoOp]
  PROVE  /\ op' \in [Workers -> OpLocals] /\ op'[w] = NoOp
         /\ \A v \in Workers \ {w} : op'[v] = op[v]
BY LocalsTyped, OpChanges

(***************************************************************************)
(* The steps of the event loop that leave the store alone.                 *)
(***************************************************************************)
\* With the store and the database at rest a receipt and a fence say the same.
LEMMA QuietMeans ==
  ASSUME Inv, NEW w \in Workers, UNCHANGED <<storeVars, scenario, registry, accepted>>,
         \A v \in Workers \ {w} : op'[v] = op[v],
         op'[w].pc = "commit" => op[w].pc = "commit" /\ op'[w].job = op[w].job
  PROVE  /\ Onward /\ job' = job /\ passed' = passed /\ scenario' = scenario
         /\ registry' = registry
<1>1. job' = job /\ passed' = passed /\ scenario' = scenario /\ registry' = registry
      /\ accepted' = accepted
  BY DEF storeVars
<1>2. \A v \in Workers :
        op'[v].pc = "commit" => op[v].pc = "commit" /\ op'[v].job = op[v].job
  OBVIOUS
<1>3. \A j \in Jobs : JobGrows(j)
  BY StoreRests
<1> QED
  BY <1>1, <1>2, <1>3, ReceiptsStand

\* The thread is not touched.
LEMMA HostOnlyStep ==
  ASSUME Inv, NEW w \in Workers, UNCHANGED <<storeVars, op, world>>,
         left' \in 0 .. MaxFaults, host' \in [Workers -> HostLocals],
         host'[w].pc # "idle" => host'[w].job \in Jobs,
         \A v \in Workers \ {w} : host'[v] = host[v],
         Onward => HostOK(w)'
  PROVE  Inv'
<1>1. Onward /\ op' = op /\ txn' = txn
  BY QuietMeans DEF world
<1>2. UNCHANGED <<storeVars, scenario, registry, accepted>>
  BY DEF world
<1>3. OpOK(w)'
  BY <1>1, <1>2, StoreRests, OpStands DEF Inv, TypeOK, OpAt, OpKind
<1>4. /\ op' \in [Workers -> OpLocals]
      /\ op'[w].pc # "none" => op'[w].job \in Jobs
      /\ op'[w].pc \in {"recheck", "commit"} <=> txn' = w
      /\ txn' \in {txn, w, NoWorker}
      /\ \A v \in Workers \ {w} : host'[v] = host[v] /\ op'[v] = op[v]
  BY <1>1 DEF Inv, TypeOK, TxnInv, OpAt
<1> QED
  BY <1>1, <1>2, <1>3, <1>4, QuietStep

LEMMA CheckJobStep ==
  ASSUME Inv, NEW w \in Workers, CheckJob(w)
  PROVE  Inv'
<1>1. At(w, "check") /\ UNCHANGED <<storeVars, op, world>> /\ left' \in 0 .. MaxFaults
  BY SpendType DEF CheckJob, Inv, Spend
<1>2. HostOK(w) /\ host[w].job \in Jobs /\ ~host[w].late /\ host[w].st # "succeeded"
  BY <1>1 DEF Inv, TypeOK, HostOK, At
<1>3. CASE Conclude(w, "failed", "authorization_denied")
  <2>1. /\ host' \in [Workers -> HostLocals]
        /\ \A v \in Workers \ {w} : host'[v] = host[v]
        /\ host'[w].pc = "finish" /\ host'[w].job = host[w].job
        /\ host'[w].tok = host[w].tok /\ host'[w].st = "failed"
        /\ host'[w].err = "authorization_denied" /\ ~host'[w].late
    BY <1>2, <1>3, Concludes DEF Outcomes, ErrorCodes, Inv
  <2>2. HostOK(w)'
    BY <1>1, <1>2, <2>1 DEF HostOK, At, OpAt, OwnThreadOver, storeVars
  <2> QED
    BY <1>1, <1>2, <2>1, <2>2, HostOnlyStep
<1>4. CASE Conclude(w, "timed_out", "none")
  <2>1. /\ host' \in [Workers -> HostLocals]
        /\ \A v \in Workers \ {w} : host'[v] = host[v]
        /\ host'[w].pc = "finish" /\ host'[w].job = host[w].job
        /\ host'[w].tok = host[w].tok /\ host'[w].st = "timed_out"
        /\ host'[w].err = "none" /\ ~host'[w].late
    BY <1>2, <1>4, Concludes DEF Outcomes, ErrorCodes, Inv
  <2>2. HostOK(w)'
    BY <1>1, <1>2, <2>1 DEF HostOK, At, OpAt, OwnThreadOver, storeVars
  <2> QED
    BY <1>1, <1>2, <2>1, <2>2, HostOnlyStep
<1>5. CASE Goto(w, "invoke")
  <2>1. /\ host' \in [Workers -> HostLocals]
        /\ \A v \in Workers \ {w} : host'[v] = host[v]
        /\ host'[w].pc = "invoke" /\ host'[w].job = host[w].job
        /\ host'[w].tok = host[w].tok /\ host'[w].deadline = host[w].deadline
        /\ host'[w].st = host[w].st /\ ~host'[w].late
    BY <1>2, <1>5, GotoMoves DEF HostPcs, Inv
  <2>2. Fenced(host[w].job, w, host[w].tok, host[w].deadline) /\ OwnThreadOver(w)
    BY <1>1, <1>2 DEF HostOK
  <2>3. Fenced(host[w].job, w, host[w].tok, host[w].deadline)'
    <3>1. job' = job /\ passed' = passed /\ scenario' = scenario
      BY <1>1 DEF storeVars, world
    <3> QED
      BY <2>1, <2>2, <3>1 DEF Fenced, Past, Current
  <2>4. HostOK(w)'
    BY <1>1, <1>2, <2>1, <2>2, <2>3 DEF HostOK, At, OpAt, OwnThreadOver, storeVars
  <2> QED
    BY <1>1, <1>2, <2>1, <2>4, HostOnlyStep
<1> QED
  BY <1>3, <1>4, <1>5 DEF CheckJob

LEMMA SlotTimeoutStep ==
  ASSUME Inv, NEW w \in Workers, SlotTimeout(w)
  PROVE  Inv'
<1>1. /\ At(w, "invoke") /\ UNCHANGED <<storeVars, op, world>>
      /\ Conclude(w, "timed_out", "none") /\ left' \in 0 .. MaxFaults
  BY SpendType DEF SlotTimeout, Inv
<1>2. HostOK(w) /\ host[w].job \in Jobs /\ ~host[w].late /\ host[w].st # "succeeded"
  BY <1>1 DEF Inv, TypeOK, HostOK, At
<1>3. /\ host' \in [Workers -> HostLocals]
      /\ \A v \in Workers \ {w} : host'[v] = host[v]
      /\ host'[w].pc = "finish" /\ host'[w].job = host[w].job
      /\ host'[w].tok = host[w].tok /\ host'[w].st = "timed_out"
      /\ host'[w].err = "none" /\ ~host'[w].late
  BY <1>1, <1>2, Concludes DEF Outcomes, ErrorCodes, Inv
<1>4. HostOK(w)'
  BY <1>1, <1>2, <1>3 DEF HostOK, At, OpAt, OwnThreadOver, storeVars
<1> QED
  BY <1>1, <1>2, <1>3, <1>4, HostOnlyStep

\* The event loop or the thread, or both, move on beside a store and a database
\* that rest.
LEMMA LocalStep ==
  ASSUME Inv, NEW w \in Workers, UNCHANGED <<storeVars, world>>, left' \in 0 .. MaxFaults,
         host' \in [Workers -> HostLocals], op' \in [Workers -> OpLocals],
         host'[w].pc # "idle" => host'[w].job \in Jobs,
         op'[w].pc # "none" => op'[w].job \in Jobs,
         \A v \in Workers \ {w} : host'[v] = host[v] /\ op'[v] = op[v],
         op'[w].pc \in {"recheck", "commit"} <=> op[w].pc \in {"recheck", "commit"},
         op'[w].pc = "commit" => op[w].pc = "commit" /\ op'[w].job = op[w].job,
         Onward /\ job' = job /\ passed' = passed /\ scenario' = scenario
           /\ registry' = registry => HostOK(w)' /\ OpOK(w)'
  PROVE  Inv'
<1>1. UNCHANGED <<storeVars, scenario, registry, accepted>> /\ txn' = txn
  BY DEF world
<1>2. HostOK(w)' /\ OpOK(w)' /\ Onward
  BY <1>1, QuietMeans
<1>3. op'[w].pc \in {"recheck", "commit"} <=> txn' = w
  BY <1>1 DEF Inv, TxnInv, OpAt
<1> QED
  BY <1>1, <1>2, <1>3, QuietStep

\* A fence says the same of a store at rest.
LEMMA FenceRests ==
  ASSUME job' = job, passed' = passed, scenario' = scenario,
         NEW j, NEW w, NEW tok, NEW deadline, Fenced(j, w, tok, deadline)
  PROVE  /\ scenario'.covers /\ Kind[j] \in SQL =>
              \/ deadline \in passed'[j]
              \/ /\ job'[j].st = "running" /\ job'[j].worker = w
                 /\ job'[j].tok = tok /\ job'[j].deadline = deadline
BY DEF Fenced, Past, Current

\* A thread that only learns that it is cancelled.
LEMMA OpCancelled ==
  ASSUME Inv, NEW w \in Workers, Onward, job' = job, passed' = passed,
         scenario' = scenario, registry' = registry, CancelOp(w)
  PROVE  OpOK(w)'
<1>1. /\ op'[w].pc = op[w].pc /\ op'[w].job = op[w].job /\ op'[w].tok = op[w].tok
      /\ op'[w].deadline = op[w].deadline /\ op'[w].res = op[w].res
  BY CancelOpMoves DEF Inv
<1> SUFFICES ASSUME ~OpAt(w, "none")
             PROVE  OpOK(w)'
  BY <1>1 DEF OpOK, OpAt
<1>2. OpOK(w) /\ op[w].job \in Jobs
  BY DEF Inv, TypeOK
<1>3. ~OpAt(w, "done") => Fenced(op[w].job, w, op[w].tok, op[w].deadline)'
  BY <1>1, <1>2, FenceRests DEF OpOK, Fenced, Past, Current
<1>4. op[w].res = "receipt" => OpAt(w, "done") /\ Receipted(op[w].job)'
  BY <1>1, <1>2 DEF OpOK, Onward, Receipted, GivenUp, Gone, OpAt
<1> QED
  BY <1>1, <1>2, <1>3, <1>4
  DEF OpOK, OpAt, OpKind, Foreign, Fenced, Past, Current, Receipted, GivenUp, Gone

LEMMA StartHandlerStep ==
  ASSUME Inv, NEW w \in Workers, StartHandler(w)
  PROVE  Inv'
<1> DEFINE o == [NoOp EXCEPT !.pc = "start", !.job = host[w].job, !.tok = host[w].tok,
                             !.deadline = host[w].deadline]
<1>1. /\ At(w, "invoke") /\ OpAt(w, "none") /\ Goto(w, "await")
      /\ op' = [op EXCEPT ![w] = o]
      /\ UNCHANGED <<storeVars, world>> /\ left' \in 0 .. MaxFaults
  BY SpendType DEF StartHandler, Inv
<1>2. HostOK(w) /\ host[w].job \in Jobs /\ host[w] \in HostLocals
  BY <1>1, LocalsTyped DEF Inv, TypeOK, At
<1>3. /\ o \in OpLocals /\ o.pc = "start" /\ o.job = host[w].job /\ o.tok = host[w].tok
      /\ o.deadline = host[w].deadline /\ ~o.cancelled /\ o.res = "none"
  BY <1>2 DEF HostLocals, OpLocals, NoOp
<1> HIDE DEF o
<1>4. /\ op' \in [Workers -> OpLocals] /\ op'[w] = o
      /\ \A v \in Workers \ {w} : op'[v] = op[v]
  BY <1>1, <1>3, OpChanges DEF Inv
<1>5. /\ host' \in [Workers -> HostLocals]
      /\ \A v \in Workers \ {w} : host'[v] = host[v]
      /\ host'[w].pc = "await" /\ host'[w].job = host[w].job /\ host'[w].tok = host[w].tok
      /\ host'[w].deadline = host[w].deadline /\ host'[w].st = host[w].st
      /\ host'[w].late = host[w].late
  BY <1>1, GotoMoves DEF Inv, HostPcs
<1>6. ~host[w].late /\ host[w].st # "succeeded"
      /\ Fenced(host[w].job, w, host[w].tok, host[w].deadline)
      /\ job[host[w].job].st # "absent" /\ host[w].tok <= job[host[w].job].tok
  BY <1>1, <1>2 DEF HostOK, At
<1>7. ASSUME Onward, job' = job, passed' = passed, scenario' = scenario
      PROVE  HostOK(w)' /\ OpOK(w)'
  <2>1. HostOK(w)'
    BY <1>3, <1>4, <1>5, <1>6, <1>7 DEF HostOK, At, OpAt, HostKind
  <2> DEFINE j == host[w].job
             tok == host[w].tok
             deadline == host[w].deadline
  <2>2. scenario'.covers /\ Kind[j] \in SQL =>
           \/ deadline \in passed'[j]
           \/ /\ job'[j].st = "running" /\ job'[j].worker = w
              /\ job'[j].tok = tok /\ job'[j].deadline = deadline
    BY <1>6, <1>7, FenceRests
  <2>3. OpOK(w)'
    BY <1>3, <1>4, <1>6, <1>7, <2>2 DEF OpOK, OpAt, OpKind, Fenced, Past, Current
  <2> QED
    BY <2>1, <2>3
<1> QED
  BY <1>1, <1>2, <1>3, <1>4, <1>5, <1>7, LocalStep DEF OpAt

\* What holds of a worker that waits for its handler.
LEMMA AwaitFacts ==
  ASSUME Inv, NEW w \in Workers, At(w, "await")
  PROVE  /\ host[w].job \in Jobs /\ host[w] \in HostLocals /\ op[w] \in OpLocals
         /\ ~host[w].late /\ host[w].st # "succeeded"
         /\ ~OpAt(w, "none") /\ op[w].job = host[w].job
         /\ op[w].tok = host[w].tok /\ op[w].deadline = host[w].deadline
         /\ HostKind(w) # "prepare" => ~op[w].cancelled
         /\ job[host[w].job].st # "absent" /\ host[w].tok <= job[host[w].job].tok
BY LocalsTyped DEF Inv, TypeOK, HostOK, At

LEMMA DeadlineHitsStep ==
  ASSUME Inv, NEW w \in Workers, DeadlineHits(w)
  PROVE  Inv'
<1>1. /\ At(w, "await") /\ CancelOp(w) /\ UNCHANGED <<storeVars, world>>
      /\ left' \in 0 .. MaxFaults
      /\ \/ HostKind(w) = "prepare" /\ host' = host
         \/ HostKind(w) # "prepare" /\ Conclude(w, "timed_out", "none")
  BY SpendType DEF DeadlineHits, Inv
<1>2. /\ op' \in [Workers -> OpLocals]
      /\ \A v \in Workers \ {w} : op'[v] = op[v]
      /\ op'[w].pc = op[w].pc /\ op'[w].job = op[w].job /\ op'[w].tok = op[w].tok
      /\ op'[w].deadline = op[w].deadline
  BY <1>1, CancelOpMoves DEF Inv
<1>3. /\ host' \in [Workers -> HostLocals]
      /\ \A v \in Workers \ {w} : host'[v] = host[v]
      /\ host'[w].job = host[w].job /\ host'[w].tok = host[w].tok
      /\ host'[w].deadline = host[w].deadline
      /\ \/ host'[w] = host[w] /\ HostKind(w) = "prepare"
         \/ /\ host'[w].pc = "finish" /\ host'[w].st = "timed_out" /\ ~host'[w].late
            /\ host'[w].err = "none"
  BY <1>1, Concludes, AwaitFacts DEF Outcomes, ErrorCodes, Inv, TypeOK
<1>4. ASSUME Onward, job' = job, passed' = passed, scenario' = scenario, registry' = registry
      PROVE  HostOK(w)' /\ OpOK(w)'
  <2>1. HostOK(w)'
    BY <1>1, <1>2, <1>3, <1>4, AwaitFacts DEF HostOK, At, OpAt, HostKind
  <2> QED
    BY <1>1, <1>4, <2>1, OpCancelled
<1>5. op[w].job \in Jobs \/ op[w].pc = "none"
  BY DEF Inv, TypeOK, OpAt
<1> QED
  BY <1>1, <1>2, <1>3, <1>4, <1>5, AwaitFacts, LocalStep

LEMMA SeesCancelStep ==
  ASSUME Inv, NEW w \in Workers, SeesCancel(w)
  PROVE  Inv'
<1>1. /\ At(w, "await") /\ CancelOp(w) /\ UNCHANGED <<storeVars, world>>
      /\ left' \in 0 .. MaxFaults /\ HostKind(w) = "prepare" /\ host' = host
  BY SpendType DEF SeesCancel, Inv
<1>2. /\ op' \in [Workers -> OpLocals]
      /\ \A v \in Workers \ {w} : op'[v] = op[v]
      /\ op'[w].pc = op[w].pc /\ op'[w].job = op[w].job /\ op'[w].tok = op[w].tok
      /\ op'[w].deadline = op[w].deadline
  BY <1>1, CancelOpMoves DEF Inv
<1>3. ASSUME Onward, job' = job, passed' = passed, scenario' = scenario, registry' = registry
      PROVE  HostOK(w)' /\ OpOK(w)'
  <2>1. HostOK(w)'
    BY <1>1, <1>2, <1>3, AwaitFacts DEF HostOK, At, OpAt, HostKind
  <2> QED
    BY <1>1, <1>3, <2>1, OpCancelled
<1>4. /\ op[w].job \in Jobs \/ op[w].pc = "none"
      /\ host' \in [Workers -> HostLocals]
  BY <1>1 DEF Inv, TypeOK, OpAt
<1> QED
  BY <1>1, <1>2, <1>3, <1>4, AwaitFacts, LocalStep

\* A worker that has no job and no receipt knows nothing.
LEMMA IdleKnows ==
  ASSUME NEW w \in Workers, host'[w] = Idle
  PROVE  HostOK(w)'
BY DEF HostOK, At, Idle

LEMMA HeartbeatFailsStep ==
  ASSUME Inv, NEW w \in Workers, HeartbeatFails(w)
  PROVE  Inv'
<1>1. /\ At(w, "await") \/ At(w, "invoke")
      /\ UNCHANGED <<storeVars, world>> /\ left' \in 0 .. MaxFaults
      /\ \/ Goto(w, "unwind") /\ op' = op
         \/ Return(w) /\ CancelOp(w)
  BY SpendType DEF HeartbeatFails, Inv, Spend
<1>2. /\ host[w].job \in Jobs /\ ~host[w].late /\ host[w].st # "succeeded"
      /\ job[host[w].job].st # "absent" /\ host[w].tok <= job[host[w].job].tok
  BY <1>1, AwaitFacts DEF Inv, TypeOK, HostOK, At
<1>3. UNCHANGED <<storeVars, world>>
  BY <1>1 DEF HeartbeatFails
<1>4. CASE Goto(w, "unwind") /\ op' = op
  <2>1. /\ host' \in [Workers -> HostLocals]
        /\ \A v \in Workers \ {w} : host'[v] = host[v]
        /\ host'[w].pc = "unwind" /\ host'[w].job = host[w].job
        /\ host'[w].tok = host[w].tok /\ host'[w].st = host[w].st
        /\ host'[w].late = host[w].late
    BY <1>4, GotoMoves DEF Inv, HostPcs
  <2>2. HostOK(w)'
    <3>1. job' = job
      BY <1>3 DEF storeVars
    <3> QED
      BY <1>2, <2>1, <3>1 DEF HostOK, At
  <2>3. UNCHANGED <<storeVars, op, world>>
    BY <1>3, <1>4
  <2> QED
    BY <1>1, <1>2, <2>1, <2>2, <2>3, HostOnlyStep
<1>5. CASE Return(w) /\ CancelOp(w)
  <2>1. /\ op' \in [Workers -> OpLocals]
        /\ \A v \in Workers \ {w} : op'[v] = op[v]
        /\ op'[w].pc = op[w].pc /\ op'[w].job = op[w].job
    BY <1>5, CancelOpMoves DEF Inv
  <2>2. /\ host' \in [Workers -> HostLocals] /\ host'[w] = Idle /\ Idle.pc = "idle"
        /\ \A v \in Workers \ {w} : host'[v] = host[v]
    <3>1. Idle.pc = "idle"
      BY DEF Idle
    <3> QED
      BY <1>5, <3>1, Returns DEF Inv
  <2>3. ASSUME Onward, job' = job, passed' = passed, scenario' = scenario, registry' = registry
        PROVE  HostOK(w)' /\ OpOK(w)'
    <3>1. HostOK(w)'
      BY <2>2, IdleKnows
    <3>2. OpOK(w)'
      BY <1>5, <2>3, OpCancelled
    <3> QED
      BY <3>1, <3>2
  <2>4. op[w].job \in Jobs \/ op[w].pc = "none"
    BY DEF Inv, TypeOK, OpAt
  <2> QED
    BY <1>1, <1>3, <2>1, <2>2, <2>3, <2>4, LocalStep
<1> QED
  BY <1>1, <1>4, <1>5

LEMMA UnwindStep ==
  ASSUME Inv, NEW w \in Workers, Unwind(w)
  PROVE  Inv'
<1>1. /\ At(w, "unwind") /\ OpAt(w, "done") /\ op' = [op EXCEPT ![w] = NoOp]
      /\ UNCHANGED <<storeVars, world>>
      /\ Conclude(w, "failed", "preparation_failed") /\ left' \in 0 .. MaxFaults
  BY SpendType DEF Unwind, Inv
<1>2. /\ host[w].job \in Jobs /\ ~host[w].late /\ host[w].st # "succeeded"
      /\ job[host[w].job].st # "absent" /\ host[w].tok <= job[host[w].job].tok
  BY <1>1 DEF Inv, TypeOK, HostOK, At
<1>3. /\ host' \in [Workers -> HostLocals]
      /\ \A v \in Workers \ {w} : host'[v] = host[v]
      /\ host'[w].pc = "finish" /\ host'[w].job = host[w].job
      /\ host'[w].tok = host[w].tok /\ host'[w].st = "failed"
      /\ host'[w].err = "preparation_failed" /\ ~host'[w].late
  BY <1>1, <1>2, Concludes DEF Outcomes, Inv
<1>4. /\ op' \in [Workers -> OpLocals] /\ op'[w] = NoOp /\ op'[w].pc = "none"
      /\ \A v \in Workers \ {w} : op'[v] = op[v]
  BY <1>1, OpClears DEF Inv, NoOp
<1>5. ASSUME job' = job
      PROVE  HostOK(w)' /\ OpOK(w)'
  BY <1>2, <1>3, <1>4, <1>5 DEF HostOK, OpOK, At, OpAt, OwnThreadOver
<1> QED
  BY <1>1, <1>2, <1>3, <1>4, <1>5, LocalStep DEF OpAt

LEMMA HandlerReturnsStep ==
  ASSUME Inv, NEW w \in Workers, HandlerReturns(w)
  PROVE  Inv'
<1> DEFINE receipt == op[w].res = "receipt"
           late == receipt /\ HostKind(w) \in SQL
<1>1. /\ At(w, "await") /\ OpAt(w, "done") /\ op' = [op EXCEPT ![w] = NoOp]
      /\ UNCHANGED <<storeVars, world>> /\ left' \in 0 .. MaxFaults
  BY SpendType DEF HandlerReturns, Inv
<1>2. \/ Conclude(w, "timed_out", "none")
      \/ receipt /\ Conclude(w, "succeeded", "none")
      \/ Conclude(w, "failed", "preparation_failed")
      \/ Conclude(w, "failed", "action_failed")
      \/ host' = [host EXCEPT ![w].pc = "finish", ![w].st = "timed_out", ![w].late = late]
  <2>1. CASE HostKind(w) = "prepare"
    BY <2>1 DEF HandlerReturns
  <2>2. CASE HostKind(w) # "prepare"
    BY <2>2 DEF HandlerReturns
  <2> QED
    BY <2>1, <2>2
<1>3. late \in BOOLEAN /\ receipt \in BOOLEAN
  OBVIOUS
<1>4. receipt => Receipted(host[w].job)
  BY <1>1, AwaitFacts DEF Inv, OpOK
<1>5. /\ host' \in [Workers -> HostLocals]
      /\ \A v \in Workers \ {w} : host'[v] = host[v]
      /\ host'[w].pc = "finish" /\ host'[w].job = host[w].job /\ host'[w].tok = host[w].tok
      /\ host'[w].st \in Outcomes
      /\ host'[w].st = "failed" => host'[w].err \notin {"none", "deadline_exceeded"}
      /\ host'[w].st = "succeeded" => receipt
      /\ host'[w].late => receipt /\ host'[w].st = "timed_out"
  <2>1. ASSUME NEW st \in Outcomes, NEW err \in ErrorCodes \cup {"preparation_failed"},
               Conclude(w, st, err)
        PROVE  /\ host' \in [Workers -> HostLocals]
               /\ \A v \in Workers \ {w} : host'[v] = host[v]
               /\ host'[w].pc = "finish" /\ host'[w].job = host[w].job
               /\ host'[w].tok = host[w].tok /\ host'[w].st = st /\ host'[w].err = err
               /\ ~host'[w].late
    BY <1>1, <2>1, Concludes, AwaitFacts DEF Inv
  <2>2. CASE Conclude(w, "timed_out", "none")
    BY <2>1, <2>2 DEF Outcomes, ErrorCodes
  <2>3. CASE receipt /\ Conclude(w, "succeeded", "none")
    BY <2>1, <2>3 DEF Outcomes, ErrorCodes
  <2>4. CASE Conclude(w, "failed", "preparation_failed")
    BY <2>1, <2>4 DEF Outcomes, ErrorCodes
  <2>5. CASE Conclude(w, "failed", "action_failed")
    BY <2>1, <2>5 DEF Outcomes, ErrorCodes
  <2>6. CASE host' = [host EXCEPT ![w].pc = "finish", ![w].st = "timed_out", ![w].late = late]
    <3> DEFINE h == [host[w] EXCEPT !.pc = "finish", !.st = "timed_out", !.late = late]
    <3>1. host' = [host EXCEPT ![w] = h]
      BY <2>6
    <3>2. host[w] \in HostLocals
      BY LocalsTyped DEF Inv
    <3> HIDE DEF late
    <3>3. /\ h \in HostLocals
          /\ h.pc = "finish" /\ h.job = host[w].job /\ h.tok = host[w].tok
          /\ h.st = "timed_out" /\ h.late = late
      BY <1>3, <3>2 DEF HostLocals
    <3> HIDE DEF h
    <3>4. /\ host' \in [Workers -> HostLocals] /\ host'[w] = h
          /\ \A v \in Workers \ {w} : host'[v] = host[v]
      BY <3>1, <3>3, HostChanges DEF Inv
    <3> QED
      BY <3>3, <3>4 DEF Outcomes, late
  <2> QED
    BY <1>2, <2>2, <2>3, <2>4, <2>5, <2>6
<1>6. /\ op' \in [Workers -> OpLocals] /\ op'[w] = NoOp /\ NoOp.pc = "none"
      /\ \A v \in Workers \ {w} : op'[v] = op[v]
  <2>1. NoOp.pc = "none"
    BY DEF NoOp
  <2> QED
    BY <1>1, <2>1, OpClears DEF Inv
<1> HIDE DEF receipt, late
<1>7. ASSUME Onward, job' = job
      PROVE  HostOK(w)' /\ OpOK(w)'
  <2>1. host[w].job \in Jobs /\ job[host[w].job].st # "absent"
        /\ host[w].tok <= job[host[w].job].tok
    BY <1>1, AwaitFacts
  <2>2. receipt => Receipted(host[w].job)'
    <3>1. PICK j \in Jobs : j = host[w].job
      BY <2>1
    <3>2. receipt => Receipted(j)'
      BY <1>4, <1>7, <3>1 DEF Onward
    <3> QED
      BY <1>5, <3>1, <3>2 DEF Receipted, GivenUp, Gone, OpAt
  <2>3. OpOK(w)'
    BY <1>6 DEF OpOK, OpAt
  <2>4. HostOK(w)'
    <3>1. host'[w].st \notin {"none"} /\ NoOp.pc = "none"
      BY <1>5, <1>6 DEF Outcomes
    <3> QED
      BY <1>5, <1>6, <1>7, <2>1, <2>2, <3>1 DEF HostOK, At, OpAt, OwnThreadOver
  <2> QED
    BY <2>3, <2>4
<1> QED
  BY <1>1, <1>5, <1>6, <1>7, AwaitFacts, LocalStep DEF OpAt

LEMMA CrashStep ==
  ASSUME Inv, NEW w \in Workers, Crash(w)
  PROVE  Inv'
<1>1. /\ Return(w) /\ op' = [op EXCEPT ![w] = NoOp]
      /\ txn' = IF txn = w THEN NoWorker ELSE txn
      /\ UNCHANGED <<storeVars, scenario, registry, accepted>> /\ left' \in 0 .. MaxFaults
  BY SpendType DEF Crash, Inv, Spend
<1>2. /\ host' \in [Workers -> HostLocals] /\ host'[w] = Idle
      /\ \A v \in Workers \ {w} : host'[v] = host[v]
  BY <1>1, Returns DEF Inv
<1>3. /\ op' \in [Workers -> OpLocals] /\ op'[w] = NoOp
      /\ \A v \in Workers \ {w} : op'[v] = op[v]
  BY <1>1, OpClears DEF Inv
<1>4. Idle.pc = "idle" /\ NoOp.pc = "none"
  BY DEF Idle, NoOp
<1>5. Onward
  BY <1>1, <1>3, <1>4, QuietMeans
<1>6. HostOK(w)' /\ OpOK(w)'
  BY <1>2, <1>3, <1>4, IdleKnows DEF OpOK, OpAt
<1>7. /\ op'[w].pc \in {"recheck", "commit"} <=> txn' = w
      /\ txn' = txn \/ txn \in {w, NoWorker}
      /\ txn' \in {txn, w, NoWorker}
  BY <1>1, <1>3, <1>4, JobAssumption
<1> QED
  BY <1>1, <1>2, <1>3, <1>4, <1>5, <1>6, <1>7, QuietStep

(***************************************************************************)
(* The steps of a handler's thread.                                        *)
(***************************************************************************)
\* The thread goes on with the same job; only the database may change.
OpGoesOn(w) ==
  /\ ~OpAt(w, "none") /\ op' \in [Workers -> OpLocals]
  /\ \A v \in Workers \ {w} : op'[v] = op[v]
  /\ op'[w].pc # "none" /\ op'[w].job = op[w].job /\ op'[w].tok = op[w].tok
  /\ op'[w].deadline = op[w].deadline /\ op'[w].cancelled = op[w].cancelled

LEMMA OpGoesOnHost ==
  ASSUME Inv, NEW w \in Workers, Onward, job' = job, passed' = passed, host' = host, OpGoesOn(w)
  PROVE  HostOK(w)'
<1>1. HostOK(w) /\ (~At(w, "idle") => host[w].job \in Jobs) /\ scenario' = scenario
  BY DEF Inv, TypeOK, Onward
<1>2. ~host[w].late
  BY <1>1 DEF HostOK, OpGoesOn
<1>3. At(w, "check") \/ At(w, "invoke") => Fenced(host[w].job, w, host[w].tok, host[w].deadline)'
  BY <1>1 DEF HostOK, Fenced, Past, Current
<1>4. host[w].st = "succeeded" => Receipted(host[w].job)'
  <2> SUFFICES ASSUME host[w].st = "succeeded"
               PROVE  Receipted(host[w].job)'
    OBVIOUS
  <2>1. At(w, "finish") /\ Receipted(host[w].job)
    BY <1>1 DEF HostOK
  <2>2. PICK j \in Jobs : j = host[w].job
    BY <1>1, <2>1 DEF At
  <2>3. Receipted(j)'
    BY <2>1, <2>2 DEF Onward
  <2> QED
    BY <2>2, <2>3 DEF Receipted, GivenUp, Gone, OpAt
<1>5. OwnThreadOver(w) => OwnThreadOver(w)'
  BY DEF OwnThreadOver, OpGoesOn, OpAt
<1> QED
  BY <1>1, <1>2, <1>3, <1>4, <1>5 DEF HostOK, At, OpAt, HostKind, OpGoesOn

LEMMA ThreadStep ==
  ASSUME Inv, NEW w \in Workers, UNCHANGED <<storeVars, host, scenario>>, OpGoesOn(w), Onward,
         left' \in 0 .. MaxFaults, accepted' \subseteq Jobs, AcceptedInv',
         registry' \in [owner : Jobs \cup {NoJob}, st : {"none", "created", "removed"}],
         registry' = registry \/ txn = w, RegistryInv',
         txn' \in {txn, w, NoWorker}, txn' = txn \/ txn \in {w, NoWorker},
         op'[w].pc \in {"recheck", "commit"} <=> txn' = w,
         OpOK(w)'
  PROVE  Inv'
<1>1. /\ job' \in [Jobs -> JobRecord] /\ passed' \in [Jobs -> SUBSET Nat]
      /\ \A j \in Jobs : JobGrows(j) /\ Stays(j) /\ JobOK(j)'
      /\ LeaseInv' /\ job' = job /\ passed' = passed /\ host' = host
  BY StoreRests DEF storeVars
<1>2. TypeOK'
  <2>1. \A v \in Workers : (host'[v].pc # "idle" => host'[v].job \in Jobs)
                        /\ (op'[v].pc # "none" => op'[v].job \in Jobs)
    BY <1>1 DEF Inv, TypeOK, At, OpAt, OpGoesOn
  <2> QED
    BY <1>1, <2>1 DEF Inv, TypeOK, At, OpAt, OpGoesOn
<1>3. TxnInv'
  <2>1. ASSUME NEW v \in Workers, v # w
        PROVE  op'[v].pc \in {"recheck", "commit"} <=> txn' = v
    <3>1. op[v].pc \in {"recheck", "commit"} <=> txn = v
      BY DEF Inv, TxnInv, OpAt
    <3> QED
      BY <2>1, <3>1, JobAssumption DEF OpGoesOn
  <2> QED
    BY <2>1 DEF TxnInv, OpAt
<1>4. HostOK(w)'
  BY <1>1, OpGoesOnHost
<1> DEFINE W == {w}
<1>5. /\ W \in SUBSET Workers
      /\ \A v \in W : HostOK(v)' /\ OpOK(v)'
      /\ \A v \in Workers \ W : host'[v] = host[v] /\ op'[v] = op[v]
      /\ registry' = registry \/ txn \in W
  BY <1>1, <1>4 DEF OpGoesOn
<1> HIDE DEF W
<1> QED
  BY <1>1, <1>2, <1>3, <1>5, StepKeepsInv

\* The database rests too.
LEMMA LocalThreadStep ==
  ASSUME Inv, NEW w \in Workers, UNCHANGED <<storeVars, host, scenario, registry, accepted>>,
         OpGoesOn(w), left' \in 0 .. MaxFaults,
         op'[w].pc = "commit" => op[w].pc = "commit",
         txn' \in {txn, w, NoWorker}, txn' = txn \/ txn \in {w, NoWorker},
         op'[w].pc \in {"recheck", "commit"} <=> txn' = w,
         Onward /\ job' = job /\ passed' = passed /\ scenario' = scenario
           /\ registry' = registry => OpOK(w)'
  PROVE  Inv'
<1>1. Onward /\ job' = job /\ passed' = passed /\ scenario' = scenario /\ registry' = registry
  BY QuietMeans DEF OpGoesOn
<1>2. /\ accepted' \subseteq Jobs /\ AcceptedInv' /\ RegistryInv'
      /\ registry' \in [owner : Jobs \cup {NoJob}, st : {"none", "created", "removed"}]
  BY <1>1 DEF Inv, TypeOK, AcceptedInv, RegistryInv, GivenUp
<1> QED
  BY <1>1, <1>2, ThreadStep

\* What a thread knows of its job.
LEMMA ThreadFacts ==
  ASSUME Inv, NEW w \in Workers, ~OpAt(w, "none")
  PROVE  /\ op[w].job \in Jobs /\ op[w] \in OpLocals
         /\ job[op[w].job].st # "absent" /\ op[w].tok <= job[op[w].job].tok
         /\ ~OpAt(w, "done") => op[w].res # "receipt"
                                /\ Fenced(op[w].job, w, op[w].tok, op[w].deadline)
BY LocalsTyped DEF Inv, TypeOK, OpOK

\* A thread that goes on without a receipt, before the acceptance of a run.
LEMMA ThreadKnows ==
  ASSUME Inv, NEW w \in Workers, OpGoesOn(w), ~OpAt(w, "done"),
         job' = job, passed' = passed, scenario' = scenario,
         op'[w].res # "receipt", op'[w].pc # "accept",
         op'[w].pc \in {"execute", "recheck", "commit", "reconcile"} => OpKind(w) \in SQL,
         op'[w].pc = "begin" => OpKind(w) = "prepare",
         op'[w].pc \in {"recheck", "commit"} => ~Foreign(w) /\ registry' = registry
  PROVE  OpOK(w)'
<1>1. Fenced(op[w].job, w, op[w].tok, op[w].deadline)'
  BY ThreadFacts DEF OpGoesOn, Fenced, Past, Current
<1>2. op'[w].pc \in {"recheck", "commit"} => ~Foreign(w)'
  BY DEF OpGoesOn, Foreign, OpKind
<1> QED
  BY <1>1, <1>2, ThreadFacts DEF OpOK, OpAt, OpKind, OpGoesOn

\* The thread ends with a receipt that is true, or with an error.
LEMMA ThreadEnds ==
  ASSUME Inv, NEW w \in Workers, OpGoesOn(w), Onward, job' = job, op'[w].pc = "done",
         op'[w].res = "receipt" => Receipted(op[w].job)'
  PROVE  OpOK(w)'
BY ThreadFacts DEF OpOK, OpAt, OpGoesOn

LEMMA OpStartStep ==
  ASSUME Inv, NEW w \in Workers, OpStart(w)
  PROVE  Inv'
<1>1. /\ OpAt(w, "start") /\ OpKind(w) \in SQL
      /\ OpEnds(w, "error") \/ OpGoto(w, "execute")
      /\ UNCHANGED <<storeVars, host, world>> /\ left' \in 0 .. MaxFaults
  BY SpendType DEF OpStart, Inv
<1>2. ~OpAt(w, "none") /\ ~OpAt(w, "done") /\ op[w].res # "receipt"
  BY <1>1, ThreadFacts DEF OpAt
<1>3. OpGoesOn(w) /\ op'[w].pc \in {"execute", "done"} /\ op'[w].res # "receipt"
  BY <1>1, <1>2, OpEndsMoves, OpGotoMoves DEF Inv, OpPcs, OpGoesOn
<1>4. txn # w /\ txn' = txn
  BY <1>1 DEF Inv, TxnInv, OpAt, world
<1>5. ASSUME job' = job, passed' = passed, scenario' = scenario
      PROVE  OpOK(w)'
  BY <1>1, <1>2, <1>3, <1>5, ThreadKnows
<1> QED
  BY <1>1, <1>3, <1>4, <1>5, LocalThreadStep DEF world

LEMMA ExecuteStep ==
  ASSUME Inv, NEW w \in Workers, Execute(w)
  PROVE  Inv'
<1>1. /\ OpAt(w, "execute") /\ txn = NoWorker
      /\ \/ ~Foreign(w) /\ txn' = w /\ OpGoto(w, "recheck")
         \/ OpEnds(w, "error") /\ txn' = txn
      /\ UNCHANGED <<storeVars, host, scenario, registry, accepted>>
      /\ left' \in 0 .. MaxFaults
  BY SpendType DEF Execute, Inv
<1>2. ~OpAt(w, "none") /\ ~OpAt(w, "done") /\ op[w].res # "receipt" /\ OpKind(w) \in SQL
  <2>1. ~OpAt(w, "none") /\ ~OpAt(w, "done")
    BY <1>1 DEF OpAt
  <2>2. OpOK(w)
    BY DEF Inv
  <2> QED
    BY <1>1, <2>1, <2>2 DEF OpAt, OpOK
<1>3. /\ OpGoesOn(w) /\ op'[w].res # "receipt"
      /\ \/ op'[w].pc = "recheck" /\ txn' = w /\ ~Foreign(w)
         \/ op'[w].pc = "done" /\ txn' = NoWorker
  BY <1>1, <1>2, OpEndsMoves, OpGotoMoves DEF Inv, OpPcs, OpGoesOn
<1>4. ASSUME job' = job, passed' = passed, scenario' = scenario, registry' = registry
      PROVE  OpOK(w)'
  BY <1>2, <1>3, <1>4, ThreadKnows
<1> QED
  BY <1>1, <1>3, <1>4, JobAssumption, LocalThreadStep

LEMMA PreviewStep ==
  ASSUME Inv, NEW w \in Workers, Preview(w)
  PROVE  Inv'
<1>1. /\ OpAt(w, "start") /\ OpKind(w) = "preview"
      /\ OpEnds(w, "receipt") \/ OpEnds(w, "error")
      /\ UNCHANGED <<storeVars, host, world>> /\ left' \in 0 .. MaxFaults
  BY SpendType DEF Preview, Inv
<1>2. OpGoesOn(w) /\ op'[w].pc = "done"
  BY <1>1, OpEndsMoves DEF Inv, OpGoesOn, OpAt
<1>3. txn # w /\ txn' = txn
  BY <1>1 DEF Inv, TxnInv, OpAt, world
<1>4. Receipted(op[w].job)'
  BY <1>1, <1>2 DEF Receipted, OpKind, OpGoesOn
<1>5. ASSUME Onward, job' = job
      PROVE  OpOK(w)'
  BY <1>2, <1>4, <1>5, ThreadEnds
<1> QED
  BY <1>1, <1>2, <1>3, <1>5, LocalThreadStep DEF world

LEMMA PrepareStartStep ==
  ASSUME Inv, NEW w \in Workers, PrepareStart(w)
  PROVE  Inv'
<1>1. /\ OpAt(w, "start") /\ OpKind(w) = "prepare"
      /\ \/ OpEnds(w, "error")
         \/ op[w].job \in accepted /\ OpEnds(w, "receipt")
         \/ OpGoto(w, "begin")
      /\ UNCHANGED <<storeVars, host, world>> /\ left' \in 0 .. MaxFaults
  <2>1. \/ job[op[w].job].worker # w \/ job[op[w].job].tok # op[w].tok
        \/ job[op[w].job].worker = w /\ job[op[w].job].tok = op[w].tok
    OBVIOUS
  <2> QED
    BY <2>1, SpendType DEF PrepareStart, Inv
<1>2. ~OpAt(w, "none") /\ ~OpAt(w, "done") /\ op[w].res # "receipt"
  BY <1>1, ThreadFacts DEF OpAt
<1>3. txn # w /\ txn' = txn
  BY <1>1 DEF Inv, TxnInv, OpAt, world
<1>4. CASE OpGoto(w, "begin")
  <2>1. OpGoesOn(w) /\ op'[w].pc = "begin" /\ op'[w].res # "receipt"
    BY <1>2, <1>4, OpGotoMoves DEF Inv, OpPcs, OpGoesOn
  <2>2. ASSUME job' = job, passed' = passed, scenario' = scenario
        PROVE  OpOK(w)'
    BY <1>1, <1>2, <2>1, <2>2, ThreadKnows
  <2> QED
    BY <1>1, <1>3, <2>1, <2>2, LocalThreadStep DEF world
<1>5. CASE OpEnds(w, "error") \/ (op[w].job \in accepted /\ OpEnds(w, "receipt"))
  <2>1. /\ OpGoesOn(w) /\ op'[w].pc = "done"
        /\ op'[w].res = "receipt" => op[w].job \in accepted
    BY <1>2, <1>5, OpEndsMoves DEF Inv, OpGoesOn
  <2>2. op'[w].res = "receipt" => Receipted(op[w].job)'
    BY <1>1, <2>1 DEF Receipted, OpKind, OpGoesOn, world
  <2>3. ASSUME Onward, job' = job
        PROVE  OpOK(w)'
    BY <2>1, <2>2, <2>3, ThreadEnds
  <2> QED
    BY <1>1, <1>3, <2>1, <2>3, LocalThreadStep DEF world
<1> QED
  BY <1>1, <1>4, <1>5

LEMMA AcceptRunStep ==
  ASSUME Inv, NEW w \in Workers, AcceptRun(w)
  PROVE  Inv'
<1>1. /\ OpAt(w, "accept")
      /\ \/ accepted' = accepted \cup {op[w].job} /\ OpEnds(w, "receipt")
         \/ accepted' = accepted /\ OpEnds(w, "error")
      /\ UNCHANGED <<storeVars, host, scenario, registry, txn>>
      /\ left' \in 0 .. MaxFaults
  BY SpendType DEF AcceptRun, Inv, Spend
<1>2. /\ op[w].job \in Jobs /\ OpKind(w) = "prepare"
      /\ job[op[w].job].phase = "accepting" /\ ~OpAt(w, "none")
  <2>1. OpOK(w) /\ ~OpAt(w, "none")
    BY <1>1 DEF Inv, OpAt
  <2> QED
    BY <1>1, <2>1, ThreadFacts DEF OpOK, OpAt
<1>3. /\ OpGoesOn(w) /\ op'[w].pc = "done"
      /\ op'[w].res = "receipt" => op[w].job \in accepted'
  BY <1>1, <1>2, OpEndsMoves DEF Inv, OpGoesOn
<1>4. Onward
  <2>1. \A j \in Jobs : JobGrows(j)
    BY <1>1, StoreRests
  <2>2. \A v \in Workers :
          op'[v].pc = "commit" => op[v].pc = "commit" /\ op'[v].job = op[v].job
    BY <1>3 DEF OpGoesOn
  <2> QED
    BY <1>1, <2>1, <2>2, ReceiptsStand
<1>5. op'[w].res = "receipt" => Receipted(op[w].job)'
  BY <1>2, <1>3 DEF Receipted, OpKind, OpGoesOn
<1>6. job' = job /\ registry' = registry /\ txn' = txn
  BY <1>1 DEF storeVars
<1>7. OpOK(w)'
  BY <1>3, <1>4, <1>5, <1>6, ThreadEnds
<1>8. /\ accepted' \subseteq Jobs /\ AcceptedInv' /\ RegistryInv'
      /\ registry' \in [owner : Jobs \cup {NoJob}, st : {"none", "created", "removed"}]
  BY <1>1, <1>2, <1>6 DEF Inv, TypeOK, AcceptedInv, RegistryInv, GivenUp
<1>9. txn # w
  BY <1>1 DEF Inv, TxnInv, OpAt
<1> QED
  BY <1>1, <1>3, <1>4, <1>6, <1>7, <1>8, <1>9, ThreadStep

LEMMA RecheckStep ==
  ASSUME Inv, NEW w \in Workers, Recheck(w)
  PROVE  Inv'
<1>1. /\ OpAt(w, "recheck")
      /\ \/ OpGoto(w, "reconcile") /\ txn' = NoWorker
         \/ ~Stopped(w) /\ OpGoto(w, "commit") /\ txn' = txn
      /\ UNCHANGED <<storeVars, host, scenario, registry, accepted>>
      /\ left' \in 0 .. MaxFaults
  BY SpendType DEF Recheck, Inv
<1>2. ~OpAt(w, "none") /\ ~OpAt(w, "done") /\ op[w].res # "receipt"
  BY <1>1, ThreadFacts DEF OpAt
<1>3. OpKind(w) \in SQL /\ ~Foreign(w) /\ op[w].job \in Jobs
      /\ Fenced(op[w].job, w, op[w].tok, op[w].deadline)
  <2>1. OpOK(w)
    BY DEF Inv
  <2> QED
    BY <1>1, <1>2, <2>1, ThreadFacts DEF OpOK, OpAt
<1>4. txn = w
  BY <1>1 DEF Inv, TxnInv
<1>5. job' = job /\ passed' = passed /\ scenario' = scenario /\ registry' = registry
  BY <1>1 DEF storeVars
<1>6. OpGoesOn(w) /\ op'[w].res # "receipt"
      /\ \/ op'[w].pc = "reconcile" /\ txn' = NoWorker
         \/ ~Stopped(w) /\ op'[w].pc = "commit" /\ txn' = txn
  BY <1>1, <1>2, OpGotoMoves DEF Inv, OpPcs, OpGoesOn
<1>7. OpOK(w)'
  BY <1>2, <1>3, <1>5, <1>6, ThreadKnows
<1>8. CASE op'[w].pc = "reconcile" /\ txn' = NoWorker
  BY <1>1, <1>4, <1>6, <1>7, <1>8, JobAssumption, LocalThreadStep
<1>9. CASE ~Stopped(w) /\ op'[w].pc = "commit" /\ txn' = txn
  <2>1. ASSUME NEW j \in Jobs, scenario.covers, Kind[j] = "cleanup", Gone(j)
        PROVE  op[w].job # Parent[j]
    <3> SUFFICES ASSUME op[w].job = Parent[j]
                 PROVE  FALSE
      OBVIOUS
    <3>1. job[op[w].job].st = "running"
      BY <1>3, <1>9, <2>1 DEF Fenced, Current, Stopped, OpKind
    <3> QED
      BY <1>3, <2>1, <3>1 DEF Gone, Inv, JobOK, Sound, Terminal
  <2>2. ASSUME NEW j \in Jobs, Receipted(j)
        PROVE  Receipted(j)'
    <3>1. Kind[j] = "cleanup" /\ scenario.covers => Gone(j)'
      BY <1>5, <1>6, <2>1, <2>2 DEF Receipted, Gone, OpAt, OpGoesOn
    <3> QED
      BY <1>1, <1>5, <2>2, <3>1 DEF Receipted, GivenUp
  <2>3. Onward
    BY <1>1, <1>5, <2>2, StoreRests DEF Onward
  <2>4. /\ accepted' \subseteq Jobs /\ AcceptedInv' /\ RegistryInv'
        /\ registry' \in [owner : Jobs \cup {NoJob}, st : {"none", "created", "removed"}]
    BY <1>1, <1>5 DEF Inv, TypeOK, AcceptedInv, RegistryInv, GivenUp
  <2> QED
    BY <1>1, <1>4, <1>5, <1>6, <1>7, <1>9, <2>3, <2>4, ThreadStep
<1> QED
  BY <1>6, <1>8, <1>9

\* The table of a cleanup that finds the effect of its kind, or has it, is gone.
LEMMA EffectMeans ==
  ASSUME Inv, NEW w \in Workers, ~OpAt(w, "none"), OpKind(w) \in SQL, OpGoesOn(w),
         scenario' = scenario, job' = job, registry' = Effect(w),
         \A v \in Workers : op'[v].pc # "commit"
  PROVE  Receipted(op[w].job)'
<1>1. op[w].job \in Jobs /\ JobOK(op[w].job) /\ job[op[w].job].st # "absent"
  BY ThreadFacts DEF Inv
<1>2. OpKind(w) = "cleanup" => job[Parent[op[w].job]].result
  BY <1>1 DEF JobOK, Sound, ParentVerified, OpKind
<1> QED
  BY <1>1, <1>2 DEF Receipted, Effect, OpKind, SQL, OpGoesOn, Gone, OpAt

LEMMA ReconcileStep ==
  ASSUME Inv, NEW w \in Workers, Reconcile(w)
  PROVE  Inv'
<1>1. /\ OpAt(w, "reconcile") /\ txn = NoWorker
      /\ OpEnds(w, "error") \/ (registry = Effect(w) /\ OpEnds(w, "receipt"))
      /\ UNCHANGED <<storeVars, host, world>> /\ left' \in 0 .. MaxFaults
  BY SpendType DEF Reconcile, Inv, Spend
<1>2. ~OpAt(w, "none") /\ OpKind(w) \in SQL
  <2>1. OpOK(w)
    BY DEF Inv
  <2> QED
    BY <1>1, <2>1 DEF OpAt, OpOK
<1>3. /\ OpGoesOn(w) /\ op'[w].pc = "done"
      /\ op'[w].res = "receipt" => registry = Effect(w)
  BY <1>1, <1>2, OpEndsMoves DEF Inv, OpGoesOn
<1>4. \A v \in Workers : op'[v].pc # "commit"
  BY <1>1, <1>3, JobAssumption DEF OpGoesOn, Inv, TxnInv, OpAt
<1>5. ASSUME Onward, job' = job, registry' = registry
      PROVE  OpOK(w)'
  <2>1. op'[w].res = "receipt" => Receipted(op[w].job)'
    BY <1>2, <1>3, <1>4, <1>5, EffectMeans DEF Onward
  <2> QED
    BY <1>3, <1>5, <2>1, ThreadEnds
<1>6. txn' = txn
  BY <1>1 DEF world
<1> QED
  BY <1>1, <1>3, <1>5, <1>6, JobAssumption, LocalThreadStep DEF world

LEMMA CommitStep ==
  ASSUME Inv, NEW w \in Workers, Commit(w)
  PROVE  Inv'
<1>1. /\ OpAt(w, "commit") /\ txn' = NoWorker
      /\ \/ registry' = Effect(w) /\ OpEnds(w, "receipt")
         \/ registry' \in {registry, Effect(w)} /\ OpGoto(w, "reconcile")
      /\ UNCHANGED <<storeVars, host, scenario, accepted>> /\ left' \in 0 .. MaxFaults
  BY SpendType DEF Commit, Inv, Spend
<1>2. ~OpAt(w, "none") /\ ~OpAt(w, "done") /\ op[w].res # "receipt"
  BY <1>1, ThreadFacts DEF OpAt
<1>3. OpKind(w) \in SQL /\ ~Foreign(w) /\ op[w].job \in Jobs
      /\ job[op[w].job].st # "absent" /\ JobOK(op[w].job)
  <2>1. OpOK(w)
    BY DEF Inv
  <2> QED
    BY <1>1, <1>2, <2>1, ThreadFacts DEF OpOK, OpAt, Inv
<1>4. txn = w
  BY <1>1 DEF Inv, TxnInv
<1>5. job' = job /\ passed' = passed /\ scenario' = scenario /\ accepted' = accepted
  BY <1>1 DEF storeVars
<1>6. /\ OpGoesOn(w) /\ registry' \in {registry, Effect(w)}
      /\ \/ op'[w].pc = "done" /\ registry' = Effect(w)
         \/ op'[w].pc = "reconcile" /\ op'[w].res # "receipt"
  BY <1>1, <1>2, OpGotoMoves, OpEndsMoves DEF Inv, OpPcs, OpGoesOn
<1>7. \A v \in Workers : op'[v].pc # "commit"
  BY <1>4, <1>6, JobAssumption DEF OpGoesOn, Inv, TxnInv, OpAt
<1>8. Onward
  <2>1. ASSUME NEW j \in Jobs, GivenUp(j)
        PROVE  GivenUp(j)'
    BY <1>5, <2>1 DEF GivenUp
  <2>2. ASSUME NEW j \in Jobs, registry.owner = j, registry' = Effect(w)
        PROVE  registry'.owner = j \/ GivenUp(j)
    <3>1. NoJob \notin Jobs
      BY WorkerAssumption
    <3>2. CASE OpKind(w) = "provision"
      BY <1>3, <2>2, <3>1, <3>2 DEF Foreign, Effect, Inv, TypeOK, RegistryInv
    <3>3. CASE OpKind(w) = "cleanup"
      BY <1>3, <2>2, <3>3 DEF Foreign, Effect
    <3> QED
      BY <1>3, <3>2, <3>3 DEF SQL
  <2>3. ASSUME NEW j \in Jobs, Gone(j), Kind[j] = "cleanup"
        PROVE  Gone(j)'
    <3>1. op[w].job # Parent[j]
      BY <1>1, <2>3 DEF Gone
    <3>2. registry' # [owner |-> Parent[j], st |-> "created"]
      BY <1>6, <2>3, <3>1 DEF Gone, Effect
    <3> QED
      BY <1>5, <1>7, <2>3, <3>2 DEF Gone, OpAt
  <2>4. ASSUME NEW j \in Jobs, Receipted(j)
        PROVE  Receipted(j)'
    <3>1. Kind[j] = "provision" => (registry.owner = j \/ GivenUp(j))'
      BY <1>6, <2>1, <2>2, <2>4 DEF Receipted
    <3> QED
      BY <1>5, <2>3, <2>4, <3>1 DEF Receipted
  <2> QED
    BY <1>5, <2>4, StoreRests DEF Onward, storeVars
<1>9. OpOK(w)'
  <2>1. CASE op'[w].pc = "done" /\ registry' = Effect(w)
    BY <1>2, <1>3, <1>5, <1>6, <1>7, <1>8, <2>1, EffectMeans, ThreadEnds
  <2>2. CASE op'[w].pc = "reconcile" /\ op'[w].res # "receipt"
    BY <1>2, <1>3, <1>5, <1>6, <2>2, ThreadKnows
  <2> QED
    BY <1>6, <2>1, <2>2
<1>10. Effect(w) \in [owner : Jobs \cup {NoJob}, st : {"none", "created", "removed"}]
  BY <1>3, JobAssumption DEF Effect, OpKind, SQL
<1>11. RegistryInv'
  <2>1. OpKind(w) = "cleanup" => GivenUp(Parent[op[w].job])
    BY <1>3 DEF OpKind, GivenUp
  <2>2. RegistryInv
    BY DEF Inv
  <2> QED
    <3>1. CASE registry' = registry
      BY <1>5, <2>2, <3>1 DEF RegistryInv, GivenUp
    <3>2. CASE registry' = Effect(w)
      <4>1. registry'.st # "none"
        BY <3>2 DEF Effect
      <4>2. registry'.st = "removed" => OpKind(w) = "cleanup" /\ registry'.owner = Parent[op[w].job]
        BY <1>3, <3>2 DEF Effect, SQL
      <4>3. \A j : GivenUp(j) => GivenUp(j)'
        BY <1>5 DEF GivenUp
      <4> QED
        BY <2>1, <4>1, <4>2, <4>3 DEF RegistryInv, GivenUp
    <3> QED
      BY <1>6, <3>1, <3>2
<1>12. /\ accepted' \subseteq Jobs /\ AcceptedInv'
       /\ registry' \in [owner : Jobs \cup {NoJob}, st : {"none", "created", "removed"}]
  BY <1>5, <1>6, <1>10 DEF Inv, TypeOK, AcceptedInv
<1> QED
  BY <1>1, <1>4, <1>6, <1>8, <1>9, <1>11, <1>12, JobAssumption, ThreadStep

(***************************************************************************)
(* The calls of the store.                                                 *)
(***************************************************************************)
\* What every call leaves in the record of a job.
Proper(j) ==
  /\ job[j].tok <= job'[j].tok
  /\ job[j].st # "absent" => job'[j].st # "absent"
  /\ job[j].phase = "accepting" => job'[j].phase = "accepting"
  /\ job[j].result /\ Kind[j] # "preview" => job'[j].result /\ job'[j].st = job[j].st
  /\ job[j].st = "absent" /\ job'[j].st # "absent" => ParentVerified(j)
  /\ Sound(j, job'[j])
  /\ scenario.covers /\ Kind[j] \in SQL /\ job'[j].st = "running" /\ ~job'[j].live =>
       job'[j].deadline \in passed[j]

LEMMA ProperKeeps ==
  ASSUME Inv, job' \in [Jobs -> JobRecord], UNCHANGED <<passed, scenario>>,
         \A j \in Jobs : Proper(j)
  PROVE  /\ \A j \in Jobs : JobGrows(j) /\ JobOK(j)'
         /\ LeaseInv'
<1>1. ASSUME NEW j \in Jobs
      PROVE  JobGrows(j)
  BY DEF JobRecord, JobGrows, Proper
<1>2. ASSUME NEW j \in Jobs
      PROVE  JobOK(j)'
  <2>1. ASSUME Kind[j] = "cleanup", job'[j].st # "absent"
        PROVE  /\ job'[Parent[j]].st \in {"succeeded", "timed_out", "cancelled"}
               /\ job'[Parent[j]].result
    <3> DEFINE p == Parent[j]
    <3>1. p \in Jobs /\ Kind[p] = "provision"
      BY <2>1, JobAssumption
    <3>2. job[p].st \in {"succeeded", "timed_out", "cancelled"} /\ job[p].result
      BY <2>1 DEF Proper, Inv, JobOK, ParentVerified
    <3> QED
      BY <3>1, <3>2 DEF Proper
  <2> QED
    BY <2>1 DEF Proper, JobOK, Sound, ParentVerified
<1>3. LeaseInv'
  BY DEF LeaseInv, Proper, Overdue, Past
<1> QED
  BY <1>1, <1>2, <1>3

LEMMA RecordTyped ==
  ASSUME Inv, NEW j \in Jobs
  PROVE  /\ job[j] \in JobRecord /\ Sound(j, job[j])
         /\ job[j].st # "absent" => ParentVerified(j)
BY DEF Inv, TypeOK, JobOK

\* A record at rest is proper.
LEMMA RestIsProper ==
  ASSUME Inv, NEW j \in Jobs, job'[j] = job[j]
  PROVE  Proper(j) /\ Stays(j)
BY RecordTyped DEF Proper, Stays, Inv, LeaseInv, Overdue, Past, JobRecord

LEMMA UpdateMeans ==
  ASSUME Inv, NEW j \in Jobs, NEW r \in JobRecord, Update(j, r)
  PROVE  /\ job' \in [Jobs -> JobRecord] /\ job'[j] = r
         /\ \A k \in Jobs \ {j} : job'[k] = job[k]
BY DEF Inv, TypeOK, Update

\* A call that no worker makes, or that changes nothing a worker knows.
LEMMA StoreStep ==
  ASSUME Inv, UNCHANGED <<passed, host, op, world>>, left' \in 0 .. MaxFaults,
         job' \in [Jobs -> JobRecord],
         \A j \in Jobs : /\ Proper(j) /\ (Kind[j] \in SQL => Stays(j))
                         /\ job'[j].result => job[j].result
  PROVE  Inv'
<1>1. /\ \A j \in Jobs : JobGrows(j) /\ JobOK(j)'
      /\ LeaseInv' /\ host' = host /\ op' = op
      /\ registry' = registry /\ txn' = txn /\ accepted' = accepted /\ scenario' = scenario
  BY ProperKeeps DEF world
<1>2. Onward
  BY <1>1, ReceiptsStand
<1>3. TypeOK'
  BY <1>1 DEF Inv, TypeOK, At, OpAt
<1>4. RegistryInv'
  <2>1. \A j \in Jobs : GivenUp(j) => GivenUp(j)'
    BY <1>1 DEF GivenUp, JobGrows
  <2>2. registry.st = "removed" => registry.owner \in Jobs
    BY JobAssumption DEF Inv, RegistryInv, GivenUp
  <2> QED
    BY <1>1, <2>1, <2>2 DEF Inv, RegistryInv
<1>5. TxnInv' /\ AcceptedInv'
  BY <1>1 DEF Inv, TypeOK, TxnInv, AcceptedInv, OpAt, JobGrows
<1> DEFINE W == {}
<1>6. /\ W \in SUBSET Workers
      /\ \A v \in W : HostOK(v)' /\ OpOK(v)'
      /\ \A v \in Workers \ W : host'[v] = host[v] /\ op'[v] = op[v]
  BY <1>1
<1> HIDE DEF W
<1> QED
  BY <1>1, <1>2, <1>3, <1>4, <1>5, <1>6, StepKeepsInv

\* One record changes.
LEMMA OneRecordStep ==
  ASSUME Inv, UNCHANGED <<passed, host, op, world>>, left' \in 0 .. MaxFaults,
         NEW j \in Jobs, NEW r \in JobRecord, Update(j, r), Proper(j),
         Kind[j] \in SQL => Stays(j), r.result => job[j].result
  PROVE  Inv'
<1>1. /\ job' \in [Jobs -> JobRecord] /\ job'[j] = r
      /\ \A k \in Jobs \ {j} : job'[k] = job[k]
  BY UpdateMeans
<1>2. ASSUME NEW k \in Jobs
      PROVE  Proper(k) /\ (Kind[k] \in SQL => Stays(k)) /\ (job'[k].result => job[k].result)
  BY <1>1, RestIsProper
<1> QED
  BY <1>1, <1>2, StoreStep

LEMMA AcceptActionStep ==
  ASSUME Inv, UNCHANGED <<host, op, world, left>>, NEW j \in Jobs, accept_action_job(j)
  PROVE  Inv'
<1>1. /\ job[j] \in JobRecord /\ Sound(j, job[j])
      /\ ParentVerified(j) /\ UNCHANGED passed
  BY RecordTyped DEF accept_action_job
<1>2. left' \in 0 .. MaxFaults
  BY DEF Inv, TypeOK
<1>3. CASE job[j].st = "absent" /\ Update(j, [job[j] EXCEPT !.st = "queued"])
  <2> DEFINE r == [job[j] EXCEPT !.st = "queued"]
  <2>1. /\ r \in JobRecord /\ r.st = "queued" /\ r.tok = job[j].tok /\ r.phase = job[j].phase
        /\ r.result = job[j].result
    BY <1>1 DEF JobRecord, Open
  <2>2. Update(j, r)
    BY <1>3
  <2> HIDE DEF r
  <2>3. ~job[j].result /\ job[j].phase # "accepting" /\ job[j].tok \in Nat
    BY <1>1, <1>3 DEF Sound, Terminal, JobRecord
  <2>4. Proper(j) /\ Stays(j)
    BY <1>1, <1>3, <2>1, <2>2, <2>3, UpdateMeans DEF Proper, Stays, Sound
  <2> QED
    BY <1>1, <1>2, <2>1, <2>2, <2>4, OneRecordStep
<1>4. CASE /\ Renewable(j)
           /\ Update(j, [job[j] EXCEPT !.st = "queued", !.phase = "queued", !.err = "none",
                                       !.deadline = @ + 1])
  <2> DEFINE d == job[j].deadline + 1
             r == [job[j] EXCEPT !.st = "queued", !.phase = "queued", !.err = "none",
                                 !.deadline = d]
  <2>1. d \in Nat
    BY <1>1 DEF JobRecord
  <2>2. Update(j, r)
    BY <1>4
  <2> HIDE DEF d
  <2>3. /\ r \in JobRecord /\ r.st = "queued" /\ r.tok = job[j].tok /\ r.phase = "queued"
        /\ r.result = job[j].result
    BY <1>1, <2>1 DEF JobRecord, Open, Phases, ErrorCodes
  <2> HIDE DEF r
  <2>4. /\ ~job[j].result /\ job[j].phase # "accepting" /\ job[j].tok \in Nat
        /\ job[j].st \in {"timed_out", "failed"}
    BY <1>1, <1>4 DEF Sound, JobRecord, Renewable
  <2>5. Proper(j) /\ Stays(j)
    BY <1>1, <2>2, <2>3, <2>4, UpdateMeans DEF Proper, Stays, Sound
  <2> QED
    BY <1>1, <1>2, <2>2, <2>3, <2>5, OneRecordStep
<1> QED
  BY <1>3, <1>4 DEF accept_action_job

LEMMA CancelActionStep ==
  ASSUME Inv, UNCHANGED <<host, op, world, left>>, NEW j \in Jobs, cancel_action_job(j)
  PROVE  Inv'
<1>1. /\ job[j] \in JobRecord /\ Sound(j, job[j])
      /\ Kind[j] = "prepare" /\ Kind[j] \notin SQL /\ UNCHANGED passed
      /\ left' \in 0 .. MaxFaults
  BY RecordTyped DEF cancel_action_job, Inv, TypeOK, SQL
<1>2. CASE /\ job[j].st = "queued"
           /\ Update(j, [job[j] EXCEPT !.st = "cancelled", !.phase = "cancelled"])
  <2> DEFINE r == [job[j] EXCEPT !.st = "cancelled", !.phase = "cancelled"]
  <2>1. /\ r \in JobRecord /\ r.st = "cancelled" /\ r.tok = job[j].tok
        /\ r.phase = "cancelled" /\ r.result = job[j].result
    BY <1>1 DEF JobRecord, Terminal, Phases
  <2>2. Update(j, r)
    BY <1>2
  <2> HIDE DEF r
  <2>3. ~job[j].result /\ job[j].phase # "accepting" /\ job[j].tok \in Nat
    BY <1>1, <1>2 DEF Sound, Terminal, JobRecord
  <2>4. Proper(j)
    BY <1>1, <1>2, <2>1, <2>2, <2>3, UpdateMeans DEF Proper, Sound
  <2> QED
    BY <1>1, <2>1, <2>2, <2>4, OneRecordStep
<1>3. CASE /\ job[j].st = "running" /\ job[j].phase # "accepting"
           /\ Update(j, [job[j] EXCEPT !.st = "cancel_requested"])
  <2> DEFINE r == [job[j] EXCEPT !.st = "cancel_requested"]
  <2>1. /\ r \in JobRecord /\ r.st = "cancel_requested" /\ r.tok = job[j].tok
        /\ r.phase = job[j].phase /\ r.result = job[j].result
    BY <1>1 DEF JobRecord, Open
  <2>2. Update(j, r)
    BY <1>3
  <2> HIDE DEF r
  <2>3. ~job[j].result /\ job[j].tok \in Nat
    BY <1>1, <1>3 DEF Sound, Terminal, JobRecord
  <2>4. Proper(j)
    BY <1>1, <1>3, <2>1, <2>2, <2>3, UpdateMeans DEF Proper, Sound
  <2> QED
    BY <1>1, <2>1, <2>2, <2>4, OneRecordStep
<1> QED
  BY <1>2, <1>3 DEF cancel_action_job

LEMMA ExpireStep ==
  ASSUME Inv, NEW j \in Jobs, Expire(j), left' \in 0 .. MaxFaults
  PROVE  Inv'
<1> DEFINE r == [job[j] EXCEPT !.live = FALSE]
<1>1. /\ job[j] \in JobRecord /\ Sound(j, job[j])
      /\ UNCHANGED <<passed, host, op, world>> /\ Update(j, r)
      /\ scenario.covers => job[j].deadline \in passed[j]
  BY RecordTyped DEF Expire, Overdue, Past
<1>2. /\ r \in JobRecord /\ r.st = job[j].st /\ r.tok = job[j].tok /\ r.phase = job[j].phase
      /\ r.result = job[j].result /\ r.err = job[j].err /\ r.deadline = job[j].deadline
      /\ r.worker = job[j].worker /\ job[j].tok \in Nat
  BY <1>1 DEF JobRecord
<1> HIDE DEF r
<1>3. Proper(j) /\ Stays(j)
  BY <1>1, <1>2, UpdateMeans DEF Proper, Stays, Sound
<1> QED
  BY <1>1, <1>2, <1>3, OneRecordStep

LEMMA ClearExpiredStep ==
  ASSUME Inv, NEW w \in Workers, ClearExpired(w)
  PROVE  Inv'
<1>1. PICK j \in Jobs : cleanup_expired_action_results(j)
  BY DEF ClearExpired
<1> DEFINE r == [job[j] EXCEPT !.result = FALSE]
<1>2. /\ job[j] \in JobRecord /\ Sound(j, job[j])
      /\ Kind[j] = "preview" /\ Kind[j] \notin SQL \cup Effectful
      /\ UNCHANGED <<passed, host, op, world>> /\ Update(j, r) /\ left' \in 0 .. MaxFaults
  BY <1>1, RecordTyped
  DEF cleanup_expired_action_results, ClearExpired, Inv, TypeOK, SQL, Effectful
<1>3. /\ r \in JobRecord /\ r.st = job[j].st /\ r.tok = job[j].tok /\ r.phase = job[j].phase
      /\ ~r.result /\ r.err = job[j].err /\ job[j].tok \in Nat
  BY <1>2 DEF JobRecord
<1> HIDE DEF r
<1>4. Proper(j)
  BY <1>2, <1>3, UpdateMeans DEF Proper, Sound
<1> QED
  BY <1>2, <1>3, <1>4, OneRecordStep

LEMMA DeadlinePassesStep ==
  ASSUME Inv, NEW j \in Jobs, DeadlinePasses(j)
  PROVE  Inv'
<1>1. PICK d \in (1 .. job[j].deadline) \ passed[j] :
        passed' = [passed EXCEPT ![j] = @ \cup {d}]
  BY DEF DeadlinePasses
<1>2. UNCHANGED <<job, host, op, world, left>>
  BY DEF DeadlinePasses
<1>3. passed' \in [Jobs -> SUBSET Nat] /\ \A k \in Jobs : passed[k] \subseteq passed'[k]
  <2>1. passed \in [Jobs -> SUBSET Nat] /\ d \in Nat
    BY DEF Inv, TypeOK, JobRecord
  <2> QED
    BY <1>1, <2>1
<1>4. /\ job' = job /\ host' = host /\ op' = op /\ registry' = registry /\ txn' = txn
      /\ accepted' = accepted /\ scenario' = scenario
  BY <1>2 DEF world
<1>5. ASSUME NEW k \in Jobs
      PROVE  JobGrows(k) /\ Stays(k) /\ JobOK(k)'
  <2>1. job[k].tok \in Nat /\ JobOK(k)
    BY DEF Inv, TypeOK, JobRecord
  <2> QED
    BY <1>3, <1>4, <2>1 DEF JobGrows, Stays, JobOK, ParentVerified
<1>6. LeaseInv'
  BY <1>3, <1>4 DEF Inv, LeaseInv, Overdue, Past
<1>7. Onward
  BY <1>4, <1>5, ReceiptsStand
<1>8. TypeOK'
  BY <1>2, <1>3, <1>4 DEF Inv, TypeOK, At, OpAt
<1>9. RegistryInv' /\ TxnInv' /\ AcceptedInv'
  BY <1>4 DEF Inv, RegistryInv, TxnInv, AcceptedInv, OpAt, GivenUp
<1> DEFINE W == {}
<1>10. /\ W \in SUBSET Workers
       /\ \A v \in W : HostOK(v)' /\ OpOK(v)'
       /\ \A v \in Workers \ W : host'[v] = host[v] /\ op'[v] = op[v]
  BY <1>4
<1> HIDE DEF W
<1> QED
  BY <1>4, <1>5, <1>6, <1>7, <1>8, <1>9, <1>10, StepKeepsInv

\* A call that the worker w makes: it may take the fence of its own job away.
LEMMA WorkerStoreStep ==
  ASSUME Inv, NEW w \in Workers, UNCHANGED <<passed, world>>, left' \in 0 .. MaxFaults,
         job' \in [Jobs -> JobRecord], \A j \in Jobs : Proper(j),
         \A j \in Jobs : scenario.covers /\ Kind[j] \in SQL /\ job[j].worker # w => Stays(j),
         host' \in [Workers -> HostLocals], op' \in [Workers -> OpLocals],
         host'[w].pc # "idle" => host'[w].job \in Jobs,
         op'[w].pc # "none" => op'[w].job \in Jobs,
         \A v \in Workers \ {w} : host'[v] = host[v] /\ op'[v] = op[v],
         op'[w].pc \in {"recheck", "commit"} <=> op[w].pc \in {"recheck", "commit"},
         op'[w].pc = "commit" => op[w].pc = "commit" /\ op'[w].job = op[w].job,
         Onward => /\ HostOK(w)' /\ OpOK(w)'
                   /\ \A j \in Jobs : job'[j].result /\ ~job[j].result => Receipted(j)'
  PROVE  Inv'
<1>1. /\ \A j \in Jobs : JobGrows(j) /\ JobOK(j)'
      /\ LeaseInv'
      /\ registry' = registry /\ txn' = txn /\ accepted' = accepted /\ scenario' = scenario
  BY ProperKeeps DEF world
<1>2. \A v \in Workers :
        op'[v].pc = "commit" => op[v].pc = "commit" /\ op'[v].job = op[v].job
  OBVIOUS
<1>3. Onward
  BY <1>1, <1>2, ReceiptsStand
<1>4. TypeOK'
  <2>1. \A v \in Workers : (host'[v].pc # "idle" => host'[v].job \in Jobs)
                        /\ (op'[v].pc # "none" => op'[v].job \in Jobs)
    BY DEF Inv, TypeOK, At, OpAt
  <2> QED
    BY <1>1, <2>1 DEF Inv, TypeOK, At, OpAt
<1>5. RegistryInv'
  <2>1. \A j \in Jobs : GivenUp(j) => GivenUp(j)'
    BY <1>1 DEF GivenUp, JobGrows
  <2>2. registry.st = "removed" => registry.owner \in Jobs
    BY JobAssumption DEF Inv, RegistryInv, GivenUp
  <2> QED
    BY <1>1, <2>1, <2>2 DEF Inv, RegistryInv
<1>6. AcceptedInv'
  BY <1>1 DEF Inv, TypeOK, AcceptedInv, JobGrows
<1>7. TxnInv'
  <2>1. \A v \in Workers : op'[v].pc \in {"recheck", "commit"} <=> op[v].pc \in {"recheck", "commit"}
    OBVIOUS
  <2> QED
    BY <1>1, <2>1 DEF Inv, TxnInv, OpAt
<1> DEFINE W == {w}
<1>8. /\ W \in SUBSET Workers
      /\ \A v \in W : HostOK(v)' /\ OpOK(v)'
      /\ \A v \in Workers \ W : host'[v] = host[v] /\ op'[v] = op[v]
      /\ \A v \in Workers \ W, j \in Jobs :
           scenario.covers /\ Kind[j] \in SQL /\ job[j].worker = v => Stays(j)
  BY <1>3
<1> HIDE DEF W
<1> QED
  BY <1>1, <1>3, <1>4, <1>5, <1>6, <1>7, <1>8, StepKeepsInv

\* What a claim does with the jobs it does not take.
LEMMA SweptIsProper ==
  ASSUME Inv, NEW j \in Jobs, job'[j] = Swept(j), UNCHANGED passed
  PROVE  /\ job'[j] \in JobRecord /\ Proper(j) /\ (Kind[j] \in SQL => Stays(j))
         /\ job'[j].result = job[j].result
<1>1. /\ job[j] \in JobRecord /\ Sound(j, job[j]) /\ job[j].tok \in Nat
      /\ (job[j].st # "absent" => ParentVerified(j)) /\ NoWorker \in Workers \cup {NoWorker}
  BY RecordTyped DEF JobRecord
<1>2. CASE job[j].st = "cancel_requested" /\ ~job[j].live
  <2> DEFINE r == [job[j] EXCEPT !.worker = NoWorker, !.live = FALSE, !.st = "cancelled",
                                 !.phase = "cancelled"]
  <2>1. job'[j] = r
    BY <1>2 DEF Swept, Released
  <2>2. /\ r \in JobRecord /\ r.st = "cancelled" /\ r.tok = job[j].tok
        /\ r.phase = "cancelled" /\ r.result = job[j].result
    BY <1>1 DEF JobRecord, Terminal, Phases
  <2> HIDE DEF r
  <2>3. ~job[j].result /\ job[j].phase # "accepting" /\ Kind[j] \notin SQL
    BY <1>1, <1>2 DEF Sound, Terminal
  <2> QED
    BY <1>1, <1>2, <2>1, <2>2, <2>3 DEF Proper, Sound
<1>3. CASE ~(job[j].st = "cancel_requested" /\ ~job[j].live) /\ job[j].st \in Open /\ Overdue(j)
  <2> DEFINE r == [job[j] EXCEPT !.worker = NoWorker, !.live = FALSE, !.st = "timed_out",
                                 !.err = "deadline_exceeded"]
  <2>1. job'[j] = r
    BY <1>3 DEF Swept, Released
  <2>2. /\ r \in JobRecord /\ r.st = "timed_out" /\ r.tok = job[j].tok
        /\ r.phase = job[j].phase /\ r.result = job[j].result /\ r.err = "deadline_exceeded"
    BY <1>1 DEF JobRecord, Terminal, ErrorCodes
  <2> HIDE DEF r
  <2>3. ~job[j].result /\ job[j].st # "absent" /\ job[j].deadline \in passed'[j]
    BY <1>1, <1>3 DEF Sound, Terminal, Open, Overdue, Past
  <2> QED
    BY <1>1, <1>3, <2>1, <2>2, <2>3 DEF Proper, Sound, Stays
<1>4. CASE job'[j] = job[j]
  BY <1>1, <1>4, RestIsProper
<1> QED
  BY <1>2, <1>3, <1>4 DEF Swept

LEMMA ClaimStep ==
  ASSUME Inv, NEW w \in Workers, Claim(w)
  PROVE  Inv'
<1>1. UNCHANGED <<passed, op, world, left>> /\ left' \in 0 .. MaxFaults
  BY DEF Claim, claim_action_job, ClaimNothing, Inv, TypeOK
<1>2. CASE ClaimNothing /\ UNCHANGED host
  <2>1. \A j \in Jobs : job'[j] = Swept(j)
    BY <1>2 DEF ClaimNothing
  <2>2. \A j \in Jobs : /\ job'[j] \in JobRecord /\ Proper(j) /\ (Kind[j] \in SQL => Stays(j))
                        /\ job'[j].result = job[j].result
    BY <1>1, <2>1, SweptIsProper
  <2>3. job' \in [Jobs -> JobRecord]
    BY <1>2, <2>2 DEF ClaimNothing
  <2> QED
    BY <1>1, <1>2, <2>2, <2>3, StoreStep
<1>3. ASSUME NEW j \in Jobs, claim_action_job(j, w),
             host' = [host EXCEPT ![w] = [Idle EXCEPT !.pc = "check", !.job = j,
                                          !.tok = job[j].tok + 1, !.deadline = job[j].deadline]]
      PROVE  Inv'
  <2> DEFINE t == job[j].tok + 1
             h == [Idle EXCEPT !.pc = "check", !.job = j, !.tok = t,
                               !.deadline = job[j].deadline]
             p == IF job[j].phase = "queued" THEN "preparing" ELSE job[j].phase
             r == [job[j] EXCEPT !.st = "running", !.tok = t, !.worker = w, !.live = TRUE,
                                 !.phase = p]
  <2>1. /\ job[j] \in JobRecord /\ Sound(j, job[j]) /\ job[j].deadline \in Nat
        /\ job[j].tok \in Nat /\ job[j].tok <= t /\ t \in Nat /\ job[j].tok < t
        /\ (job[j].st # "absent" => ParentVerified(j))
    BY RecordTyped DEF JobRecord
  <2>2. Claimable(j) /\ (job[j].st = "queued" \/ (job[j].st = "running" /\ ~job[j].live))
    BY <1>3 DEF claim_action_job, Claimable
  <2>3. job'[j] = r /\ host' = [host EXCEPT ![w] = h]
        /\ \A k \in Jobs \ {j} : job'[k] = Swept(k)
    BY <1>3 DEF claim_action_job, Claimed
  <2>4. p \in Phases /\ (p = "accepting" <=> job[j].phase = "accepting")
    BY <2>1 DEF JobRecord, Phases
  <2> HIDE DEF t, p
  <2>5. /\ r \in JobRecord /\ r.st = "running" /\ r.tok = t /\ r.worker = w /\ r.live
        /\ r.phase = p /\ r.result = job[j].result /\ r.deadline = job[j].deadline
    BY <2>1, <2>4 DEF JobRecord, Open
  <2>6. /\ h \in HostLocals /\ h.pc = "check" /\ h.job = j /\ h.tok = t
        /\ h.deadline = job[j].deadline /\ ~h.late /\ h.st = "none"
    BY <2>1 DEF HostLocals, Idle, ErrorCodes
  <2> HIDE DEF h, r
  <2>7. Proper(j)
    <3>1. ~job[j].result /\ job[j].st # "absent"
      BY <2>1, <2>2 DEF Sound, Terminal
    <3> QED
      BY <2>1, <2>2, <2>3, <2>4, <2>5, <3>1 DEF Proper, Sound
  <2>8. scenario.covers /\ Kind[j] \in SQL => Stays(j)
    BY <2>2 DEF Inv, LeaseInv, Claimable, Stays
  <2>9. ASSUME NEW k \in Jobs
        PROVE  /\ job'[k] \in JobRecord /\ Proper(k) /\ job'[k].result = job[k].result
               /\ scenario.covers /\ Kind[k] \in SQL => Stays(k)
    <3>1. CASE k = j
      BY <2>3, <2>5, <2>7, <2>8, <3>1
    <3>2. CASE k # j
      BY <1>1, <2>3, <3>2, SweptIsProper
    <3> QED
      BY <3>1, <3>2
  <2>10. job' \in [Jobs -> JobRecord]
    BY <1>3, <2>9 DEF claim_action_job
  <2>11. /\ host' \in [Workers -> HostLocals] /\ host'[w] = h
         /\ \A v \in Workers \ {w} : host'[v] = host[v]
    BY <2>3, <2>6, HostChanges DEF Inv
  <2>12. ASSUME Onward
         PROVE  HostOK(w)' /\ OpOK(w)'
    <3>1. OpOK(w)'
      BY <1>1, <2>9, <2>12, OpStands DEF world, Inv, TypeOK, OpAt, OpKind
    <3>2. OwnThreadOver(w)'
      <4>1. ~OpAt(w, "none") /\ op[w].job = j => op[w].tok <= job[j].tok /\ op[w].tok \in Nat
        BY ThreadFacts DEF OpLocals
      <4> QED
        BY <1>1, <2>1, <2>6, <2>11, <4>1 DEF OwnThreadOver, OpAt
    <3>3. /\ job'[j].st = "running" /\ job'[j].worker = w /\ job'[j].tok = t
          /\ job'[j].deadline = job[j].deadline
      BY <2>3, <2>5
    <3> QED
      BY <2>1, <2>6, <2>11, <3>1, <3>2, <3>3 DEF HostOK, At, Fenced, Current
  <2> QED
    <3>1. /\ op' \in [Workers -> OpLocals] /\ op' = op
          /\ op'[w].pc # "none" => op'[w].job \in Jobs
      BY <1>1 DEF Inv, TypeOK, OpAt
    <3>2. UNCHANGED <<passed, world>>
      BY <1>1
    <3> QED
      BY <1>1, <2>6, <2>9, <2>10, <2>11, <2>12, <3>1, <3>2, WorkerStoreStep
<1> QED
  BY <1>2, <1>3 DEF Claim

Reported == ErrorCodes \cup {"preparation_failed"}

\* What an outcome leaves in the record of its job.
LEMMA FinishIsProper ==
  ASSUME Inv, NEW j \in Jobs, NEW w \in Workers, NEW tok, NEW st \in Outcomes,
         NEW err \in Reported, st = "failed" => err \notin {"none", "deadline_exceeded"},
         CanFinish(j, w, tok, st), finish_action_job(j, st, err), UNCHANGED passed
  PROVE  /\ job' \in [Jobs -> JobRecord] /\ \A k \in Jobs : Proper(k)
         /\ \A k \in Jobs \ {j} : job'[k] = job[k]
         /\ \/ Kind[j] \notin SQL \/ Stays(j)
            \/ job[j].worker = w /\ job[j].tok = tok /\ st # "timed_out"
         /\ job'[j].result => job[j].result \/ st = "succeeded"
<1> DEFINE r == Finished(j, st, err)
<1>1. /\ job[j] \in JobRecord /\ Sound(j, job[j]) /\ job[j].tok \in Nat
      /\ (job[j].st # "absent" => ParentVerified(j)) /\ NoWorker \in Workers \cup {NoWorker}
  BY RecordTyped DEF JobRecord
<1>2. Retains(j, st) \in BOOLEAN /\ (st = "succeeded") \in BOOLEAN
  BY DEF Retains
<1>3. StoredCode(err) \in ErrorCodes
      /\ (st = "failed" => StoredCode(err) \in {"action_failed", "authorization_denied"})
  BY DEF StoredCode, Reported, ErrorCodes
<1>4. Update(j, r)
  BY DEF finish_action_job
<1>5. CASE job[j].st \in Terminal
  <2> DEFINE q == [job[j] EXCEPT !.result = TRUE]
  <2>1. r = q
    BY <1>5 DEF Finished
  <2>2. LateReceipt(j, tok, st)
    BY <1>5 DEF CanFinish, Holds, Terminal
  <2>3. /\ q \in JobRecord /\ q.st = job[j].st /\ q.tok = job[j].tok /\ q.phase = job[j].phase
        /\ q.result /\ q.err = job[j].err
    BY <1>1 DEF JobRecord
  <2>4. st = "succeeded" /\ job[j].st \in {"timed_out", "cancelled"}
    BY <2>2 DEF LateReceipt, Retains
  <2> HIDE DEF q, r
  <2>5. /\ job' \in [Jobs -> JobRecord] /\ job'[j] = q
        /\ \A k \in Jobs \ {j} : job'[k] = job[k]
    BY <1>4, <2>1, <2>3, UpdateMeans
  <2>6. Proper(j) /\ Stays(j)
    BY <1>1, <1>5, <2>3, <2>4, <2>5 DEF Proper, Sound, Stays
  <2> QED
    BY <2>4, <2>5, <2>6, RestIsProper
<1>6. CASE job[j].st \notin Terminal /\ job[j].st = "cancel_requested"
  <2> DEFINE kept == Retains(j, st)
             q == [job[j] EXCEPT !.worker = NoWorker, !.live = FALSE, !.st = "cancelled",
                                 !.phase = "cancelled", !.result = kept]
  <2>1. r = q
    BY <1>6 DEF Finished, Released
  <2> HIDE DEF kept
  <2>2. /\ q \in JobRecord /\ q.st = "cancelled" /\ q.tok = job[j].tok /\ q.phase = "cancelled"
        /\ q.result = kept
    BY <1>1, <1>2 DEF JobRecord, Terminal, Phases, kept
  <2>3. /\ kept => st = "succeeded"
        /\ ~job[j].result /\ job[j].phase # "accepting" /\ Kind[j] \notin SQL
    BY <1>1, <1>6 DEF kept, Retains, Sound, Terminal
  <2> HIDE DEF q, r
  <2>4. /\ job' \in [Jobs -> JobRecord] /\ job'[j] = q
        /\ \A k \in Jobs \ {j} : job'[k] = job[k]
    BY <1>4, <2>1, <2>2, UpdateMeans
  <2>5. Proper(j)
    BY <1>1, <1>6, <2>2, <2>3, <2>4 DEF Proper, Sound, Terminal
  <2> QED
    BY <2>2, <2>3, <2>4, <2>5, RestIsProper
<1>7. CASE /\ job[j].st \notin Terminal /\ job[j].st # "cancel_requested"
           /\ st = "timed_out" \/ Overdue(j)
  <2> DEFINE kept == Retains(j, st)
             q == [job[j] EXCEPT !.worker = NoWorker, !.live = FALSE, !.st = "timed_out",
                                 !.err = "deadline_exceeded", !.result = kept]
  <2>1. r = q
    BY <1>7 DEF Finished, Released
  <2>2. Holds(j, w, tok) /\ Overdue(j)
    BY <1>7 DEF CanFinish, LateReceipt, Terminal
  <2> HIDE DEF kept
  <2>3. /\ q \in JobRecord /\ q.st = "timed_out" /\ q.tok = job[j].tok
        /\ q.phase = job[j].phase /\ q.result = kept /\ q.err = "deadline_exceeded"
    BY <1>1, <1>2 DEF JobRecord, Terminal, ErrorCodes, kept
  <2>4. /\ kept => st = "succeeded"
        /\ ~job[j].result /\ job[j].st = "running"
        /\ job[j].deadline \in passed'[j]
    BY <1>1, <1>7, <2>2 DEF kept, Retains, Sound, Terminal, Holds, Overdue, Past
  <2> HIDE DEF q, r
  <2>5. /\ job' \in [Jobs -> JobRecord] /\ job'[j] = q
        /\ \A k \in Jobs \ {j} : job'[k] = job[k]
    BY <1>4, <2>1, <2>3, UpdateMeans
  <2>6. Proper(j) /\ Stays(j)
    BY <1>1, <2>3, <2>4, <2>5 DEF Proper, Sound, Terminal, Stays
  <2> QED
    BY <2>3, <2>4, <2>5, <2>6, RestIsProper
<1>8. CASE /\ job[j].st \notin Terminal /\ job[j].st # "cancel_requested"
           /\ ~(st = "timed_out" \/ Overdue(j))
  <2> DEFINE done == st = "succeeded"
             code == StoredCode(err)
             q == [job[j] EXCEPT !.worker = NoWorker, !.live = FALSE, !.st = st,
                                 !.result = done, !.err = code]
  <2>1. r = q
    BY <1>8 DEF Finished, Released
  <2>2. Holds(j, w, tok) /\ st \in {"succeeded", "failed"}
    BY <1>8 DEF CanFinish, LateReceipt, Terminal, Outcomes
  <2>3. done \in BOOLEAN /\ (done <=> st = "succeeded") /\ code \in ErrorCodes
        /\ (st = "failed" => code \in {"action_failed", "authorization_denied"})
    BY <1>2, <1>3
  <2> HIDE DEF done, code
  <2>4. /\ q \in JobRecord /\ q.st = st /\ q.tok = job[j].tok
        /\ q.phase = job[j].phase /\ q.result = done /\ q.err = code
    BY <1>1, <2>2, <2>3 DEF JobRecord, Terminal
  <2>5. /\ ~job[j].result /\ job[j].st = "running"
        /\ job[j].worker = w /\ job[j].tok = tok
    BY <1>1, <1>8, <2>2 DEF Sound, Terminal, Holds
  <2> HIDE DEF q, r
  <2>6. /\ job' \in [Jobs -> JobRecord] /\ job'[j] = q
        /\ \A k \in Jobs \ {j} : job'[k] = job[k]
    BY <1>4, <2>1, <2>4, UpdateMeans
  <2>7. Sound(j, q)
    <3>1. Kind[j] \in Effectful /\ q.st = "succeeded" => q.result
      BY <2>3, <2>4
    <3> QED
      BY <1>1, <2>2, <2>3, <2>4, <2>5, <3>1 DEF Sound, Terminal
  <2>8. Proper(j)
    BY <1>1, <2>2, <2>4, <2>5, <2>6, <2>7 DEF Proper
  <2> QED
    BY <2>2, <2>3, <2>4, <2>5, <2>6, <2>8, RestIsProper
<1> QED
  BY <1>5, <1>6, <1>7, <1>8

\* retain_effect, whether it is refused or not.
LEMMA RetainIsProper ==
  ASSUME Inv, NEW j \in Jobs, NEW w \in Workers, NEW tok, Retain(w, j, tok), UNCHANGED passed
  PROVE  /\ job' \in [Jobs -> JobRecord] /\ \A k \in Jobs : Proper(k)
         /\ \A k \in Jobs \ {j} : job'[k] = job[k] /\ Stays(k)
         /\ Kind[j] \notin SQL \/ Stays(j) \/ (job[j].worker = w /\ job[j].tok = tok)
<1>1. CASE CanFinish(j, w, tok, "succeeded") /\ finish_action_job(j, "succeeded", "none")
  BY <1>1, FinishIsProper, RestIsProper DEF Outcomes, Reported, ErrorCodes
<1>2. CASE UNCHANGED job
  BY <1>2, RestIsProper DEF Inv, TypeOK
<1> QED
  BY <1>1, <1>2 DEF Retain

LEMMA OpRetainsStep ==
  ASSUME Inv, NEW w \in Workers, OpRetains(w)
  PROVE  Inv'
<1> DEFINE j == op[w].job
<1>1. /\ OpAt(w, "done") /\ op[w].cancelled /\ OpKind(w) # "prepare"
      /\ \/ op[w].res = "receipt" /\ OpKind(w) \in SQL /\ Retain(w, j, op[w].tok)
         \/ UNCHANGED job
      /\ op' = [op EXCEPT ![w] = NoOp] /\ UNCHANGED <<passed, host, world, left>>
  BY DEF OpRetains
<1>2. ~OpAt(w, "none") /\ op[w].job \in Jobs /\ op[w].tok \in Nat
      /\ (op[w].res = "receipt" => Receipted(op[w].job))
  <2>1. ~OpAt(w, "none")
    BY <1>1 DEF OpAt
  <2> QED
    BY <2>1, ThreadFacts DEF Inv, OpOK, OpLocals
<1>3. /\ op' \in [Workers -> OpLocals] /\ op'[w] = NoOp /\ NoOp.pc = "none"
      /\ \A v \in Workers \ {w} : op'[v] = op[v]
  <2>1. NoOp.pc = "none"
    BY DEF NoOp
  <2> QED
    BY <1>1, <2>1, OpClears DEF Inv
<1>4. /\ job' \in [Jobs -> JobRecord] /\ \A k \in Jobs : Proper(k)
      /\ \A k \in Jobs \ {j} : job'[k] = job[k] /\ Stays(k)
      /\ \/ Kind[j] \notin SQL \/ Stays(j)
         \/ job[j].worker = w /\ job[j].tok = op[w].tok
      /\ job'[j].result /\ ~job[j].result => op[w].res = "receipt"
  <2>1. CASE op[w].res = "receipt" /\ Retain(w, j, op[w].tok)
    BY <1>1, <1>2, <2>1, RetainIsProper
  <2>2. CASE UNCHANGED job
    BY <1>2, <2>2, RestIsProper DEF Inv, TypeOK
  <2> QED
    BY <1>1, <2>1, <2>2
<1>5. ASSUME Onward
      PROVE  HostOK(w)'
  <2>1. HostOK(w) /\ host'[w] = host[w]
    BY <1>1 DEF Inv
  <2>2. ~At(w, "await")
    BY <1>1, AwaitFacts DEF OpKind, HostKind
  <2>3. OwnThreadOver(w)'
    BY <1>3 DEF OwnThreadOver, OpAt
  <2>4. At(w, "check") \/ At(w, "invoke") => OwnThreadOver(w) /\ host[w].job \in Jobs
        /\ host[w].tok \in Nat
    BY <2>1 DEF HostOK, Inv, TypeOK, At, HostLocals
  <2>5. (At(w, "check") \/ At(w, "invoke")) /\ HostKind(w) \in SQL
          /\ Current(host[w].job, w, host[w].tok, host[w].deadline) => Stays(host[w].job)
    BY <1>2, <1>4, <2>4 DEF OwnThreadOver, Current, HostKind
  <2> QED
    BY <1>3, <1>5, <2>1, <2>2, <2>3, <2>5, HostBeside
<1>6. OpOK(w)'
  BY <1>3 DEF OpOK, OpAt
<1>7. ASSUME Onward, NEW k \in Jobs, job'[k].result, ~job[k].result
      PROVE  Receipted(k)'
  BY <1>2, <1>4, <1>7 DEF Onward
<1>8. /\ left' \in 0 .. MaxFaults /\ host' \in [Workers -> HostLocals] /\ host' = host
      /\ host'[w].pc # "idle" => host'[w].job \in Jobs
      /\ UNCHANGED <<passed, world>>
  BY <1>1 DEF Inv, TypeOK, At
<1>9. ASSUME NEW k \in Jobs, scenario.covers, Kind[k] \in SQL, job[k].worker # w
      PROVE  Stays(k)
  BY <1>4, <1>9
<1> QED
  BY <1>1, <1>3, <1>4, <1>5, <1>6, <1>7, <1>8, <1>9, WorkerStoreStep DEF OpAt

\* What the store keeps of a job that a worker settles, after which the worker
\* is in order.
LEMMA FinishSettles ==
  ASSUME Inv, NEW w \in Workers, NEW j \in Jobs, NEW tok \in Nat, NEW st,
         UNCHANGED <<passed, op, world>>, left' \in 0 .. MaxFaults,
         j = host[w].job, tok = host[w].tok,
         st # "timed_out" => OwnThreadOver(w), st = "succeeded" => Receipted(j),
         job' \in [Jobs -> JobRecord], \A k \in Jobs : Proper(k),
         \A k \in Jobs \ {j} : job'[k] = job[k] /\ Stays(k),
         \/ Kind[j] \notin SQL \/ Stays(j)
         \/ job[j].worker = w /\ job[j].tok = tok /\ st # "timed_out",
         job'[j].result => job[j].result \/ st = "succeeded",
         host' \in [Workers -> HostLocals],
         \A v \in Workers \ {w} : host'[v] = host[v],
         host'[w].pc # "idle" => host'[w].job \in Jobs,
         Onward => HostOK(w)'
  PROVE  Inv'
<1>1. ASSUME Onward
      PROVE  OpOK(w)'
  <2>1. ~OpAt(w, "none") => op[w].job \in Jobs /\ op[w].tok \in Nat
    BY ThreadFacts DEF OpLocals
  <2>2. ~OpAt(w, "none") /\ OpKind(w) \in SQL
          /\ Current(op[w].job, w, op[w].tok, op[w].deadline) => Stays(op[w].job)
    BY <2>1 DEF OwnThreadOver, Current, OpKind
  <2>3. registry' = registry /\ op'[w] = op[w]
    BY DEF world
  <2> QED
    BY <1>1, <2>2, <2>3, OpStands
<1>2. ASSUME Onward, NEW k \in Jobs, job'[k].result, ~job[k].result
      PROVE  Receipted(k)'
  BY <1>2 DEF Onward
<1>3. /\ op' \in [Workers -> OpLocals] /\ op' = op
      /\ op'[w].pc # "none" => op'[w].job \in Jobs
      /\ UNCHANGED <<passed, world>>
  BY DEF Inv, TypeOK, OpAt
<1>4. ASSUME NEW k \in Jobs, scenario.covers, Kind[k] \in SQL, job[k].worker # w
      PROVE  Stays(k)
  BY <1>4
<1> QED
  BY <1>1, <1>2, <1>3, <1>4, WorkerStoreStep

\* A worker that goes on to report what the store would not take.
LEMMA FinishReports ==
  ASSUME Inv, Onward, NEW w \in Workers, At(w, "finish"), op' = op,
         host'[w].job = host[w].job, host'[w].tok = host[w].tok, host'[w].late = host[w].late,
         \/ host'[w].pc = "retain" /\ host'[w].st = host[w].st /\ host[w].late
         \/ /\ host'[w].pc = "finish" /\ host'[w].st = "failed"
            /\ host'[w].err = "preparation_failed" /\ host[w].st = "succeeded"
  PROVE  HostOK(w)'
<1>1. /\ host[w].job \in Jobs /\ HostOK(w) /\ host[w].tok \in Nat
      /\ JobGrows(host[w].job) /\ job[host[w].job].tok \in Nat
  BY DEF Inv, TypeOK, Onward, HostLocals, At, JobRecord
<1>2. job'[host[w].job].st # "absent" /\ host[w].tok <= job'[host[w].job].tok
  <2>1. job[host[w].job].st # "absent" /\ host[w].tok <= job[host[w].job].tok
    BY <1>1 DEF HostOK, At
  <2> QED
    BY <1>1, <2>1 DEF JobGrows
<1>3. host[w].late => Receipted(host[w].job)'
  <2>1. PICK j \in Jobs : j = host[w].job
    BY <1>1
  <2>2. host[w].late => Receipted(j)'
    BY <1>1, <2>1 DEF HostOK, Onward
  <2> QED
    BY <2>1, <2>2 DEF Receipted, GivenUp, Gone, OpAt
<1>4. /\ host[w].late => host[w].st = "timed_out" /\ op[w].pc = "none"
      /\ host[w].st # "timed_out" => OwnThreadOver(w)
  BY <1>1 DEF HostOK, OpAt
<1> QED
  BY <1>2, <1>3, <1>4 DEF HostOK, At, OpAt, OwnThreadOver

LEMMA FinishStep ==
  ASSUME Inv, NEW w \in Workers, Finish(w)
  PROVE  Inv'
<1> DEFINE j == host[w].job
           st == host[w].st
           err == host[w].err
           can == CanFinish(j, w, host[w].tok, st)
<1>1. /\ At(w, "finish") /\ UNCHANGED <<passed, op, world>> /\ left' \in 0 .. MaxFaults
      /\ (can /\ finish_action_job(j, st, err)) \/ job' = job
      /\ FollowUp(w) \/ Raises(w)
  BY SpendType DEF Finish, Inv, Spend
<1>2. /\ j \in Jobs /\ HostOK(w) /\ st \in Outcomes /\ err \in Reported
      /\ host[w] \in HostLocals /\ host[w].tok \in Nat
      /\ st = "failed" => err \notin {"none", "deadline_exceeded"}
      /\ st # "timed_out" => OwnThreadOver(w)
      /\ host[w].late => st = "timed_out"
      /\ st = "succeeded" => Receipted(j)
      /\ job[j].st # "absent" /\ host[w].tok <= job[j].tok
  BY <1>1, LocalsTyped DEF Inv, TypeOK, HostOK, At, HostLocals, Outcomes, Reported
<1>3. /\ job' \in [Jobs -> JobRecord] /\ \A k \in Jobs : Proper(k)
      /\ \A k \in Jobs \ {j} : job'[k] = job[k] /\ Stays(k)
      /\ \/ Kind[j] \notin SQL \/ Stays(j)
         \/ job[j].worker = w /\ job[j].tok = host[w].tok /\ st # "timed_out"
      /\ job'[j].result => job[j].result \/ st = "succeeded"
  <2> HIDE DEF j, st, err
  <2>1. CASE can /\ finish_action_job(j, st, err)
    BY <1>1, <1>2, <2>1, FinishIsProper, RestIsProper
  <2>2. CASE job' = job
    BY <1>2, <2>2, RestIsProper DEF Inv, TypeOK
  <2> QED
    BY <1>1, <2>1, <2>2
<1>4. CASE Return(w)
  <2>1. /\ host' \in [Workers -> HostLocals] /\ host'[w] = Idle /\ Idle.pc = "idle"
        /\ \A v \in Workers \ {w} : host'[v] = host[v]
    <3>1. Idle.pc = "idle"
      BY DEF Idle
    <3> QED
      BY <1>4, <3>1, Returns DEF Inv
  <2> QED
    BY <1>1, <1>2, <1>3, <2>1, IdleKnows, FinishSettles
<1>5. CASE host[w].late /\ Goto(w, "retain")
  <2>1. /\ host' \in [Workers -> HostLocals]
        /\ \A v \in Workers \ {w} : host'[v] = host[v]
        /\ host'[w].pc = "retain" /\ host'[w].job = host[w].job
        /\ host'[w].tok = host[w].tok /\ host'[w].st = host[w].st
        /\ host'[w].late = host[w].late
    BY <1>5, GotoMoves DEF Inv, HostPcs
  <2>2. ASSUME Onward
        PROVE  HostOK(w)'
    BY <1>1, <1>2, <1>5, <2>1, <2>2, FinishReports
  <2> QED
    BY <1>1, <1>2, <1>3, <2>1, <2>2, FinishSettles
<1>6. CASE st = "succeeded" /\ Conclude(w, "failed", "preparation_failed")
  <2>1. /\ host' \in [Workers -> HostLocals]
        /\ \A v \in Workers \ {w} : host'[v] = host[v]
        /\ host'[w].pc = "finish" /\ host'[w].job = host[w].job
        /\ host'[w].tok = host[w].tok /\ host'[w].st = "failed"
        /\ host'[w].err = "preparation_failed" /\ host'[w].late = host[w].late
    BY <1>6, Concludes DEF Inv, Outcomes
  <2>2. ASSUME Onward
        PROVE  HostOK(w)'
    BY <1>1, <1>2, <1>6, <2>1, <2>2, FinishReports
  <2> QED
    BY <1>1, <1>2, <1>3, <2>1, <2>2, FinishSettles
<1> QED
  BY <1>1, <1>4, <1>5, <1>6 DEF FollowUp, Raises

LEMMA RetainLateStep ==
  ASSUME Inv, NEW w \in Workers, RetainLate(w)
  PROVE  Inv'
<1> DEFINE j == host[w].job
<1>1. /\ At(w, "retain") /\ Retain(w, j, host[w].tok) /\ Return(w)
      /\ UNCHANGED <<passed, op, world, left>>
  BY DEF RetainLate
<1>2. /\ j \in Jobs /\ HostOK(w) /\ host[w].tok \in Nat /\ left' \in 0 .. MaxFaults
      /\ Receipted(j) /\ OwnThreadOver(w)
  BY <1>1, LocalsTyped DEF Inv, TypeOK, HostOK, At, HostLocals, OwnThreadOver
<1>3. /\ job' \in [Jobs -> JobRecord] /\ \A k \in Jobs : Proper(k)
      /\ \A k \in Jobs \ {j} : job'[k] = job[k] /\ Stays(k)
      /\ \/ Kind[j] \notin SQL \/ Stays(j)
         \/ job[j].worker = w /\ job[j].tok = host[w].tok
  <2> HIDE DEF j
  <2> QED
    BY <1>1, <1>2, RetainIsProper
<1>4. /\ host' \in [Workers -> HostLocals] /\ host'[w] = Idle /\ Idle.pc = "idle"
      /\ \A v \in Workers \ {w} : host'[v] = host[v]
  <2>1. Idle.pc = "idle"
    BY DEF Idle
  <2> QED
    BY <1>1, <2>1, Returns DEF Inv
<1>5. HostOK(w)'
  BY <1>4, IdleKnows
<1>6. UNCHANGED <<passed, op, world>>
  BY <1>1
<1> DEFINE st == "succeeded"
<1>7. st = "succeeded" /\ st # "timed_out"
  OBVIOUS
<1> HIDE DEF st, j
<1>8. host[w].job = j
  BY DEF j
<1> QED
  BY <1>2, <1>3, <1>4, <1>5, <1>6, <1>7, <1>8, FinishSettles

LEMMA BeginAcceptanceStep ==
  ASSUME Inv, NEW w \in Workers, BeginAcceptance(w)
  PROVE  Inv'
<1> DEFINE j == op[w].job
           mark == CanMarkAccepting(j, w, op[w].tok) /\ mark_action_job_accepting(j)
<1>1. /\ OpAt(w, "begin") /\ UNCHANGED <<passed, host, world>> /\ left' \in 0 .. MaxFaults
      /\ \/ mark /\ OpGoto(w, "accept")
         \/ (mark \/ UNCHANGED job) /\ OpEnds(w, "error")
  BY SpendType DEF BeginAcceptance, Inv, Spend
<1>2. j \in Jobs /\ OpKind(w) = "prepare" /\ ~OpAt(w, "none") /\ ~OpAt(w, "done")
      /\ op[w].res # "receipt"
  <2>1. OpOK(w) /\ ~OpAt(w, "none") /\ ~OpAt(w, "done")
    BY <1>1 DEF Inv, OpAt
  <2> QED
    BY <1>1, <2>1, ThreadFacts DEF OpOK, OpAt
<1>3. /\ OpGoesOn(w) /\ op'[w].res # "receipt"
      /\ op'[w].pc = "done" \/ (mark /\ op'[w].pc = "accept")
  BY <1>1, <1>2, OpGotoMoves, OpEndsMoves DEF Inv, OpPcs, OpGoesOn
<1>4. /\ job' \in [Jobs -> JobRecord]
      /\ \A k \in Jobs : Proper(k) /\ Stays(k) /\ (job'[k].result => job[k].result)
      /\ mark => job'[j].phase = "accepting"
  <2>1. CASE mark
    <3> DEFINE r == [job[j] EXCEPT !.phase = "accepting"]
    <3>1. /\ job[j] \in JobRecord /\ Sound(j, job[j]) /\ Update(j, r)
          /\ job[j].st = "running" /\ Kind[j] = "prepare" /\ Kind[j] \notin SQL
      BY <1>2, <2>1, RecordTyped DEF CanMarkAccepting, mark_action_job_accepting, SQL
    <3>2. /\ r \in JobRecord /\ r.st = job[j].st /\ r.tok = job[j].tok
          /\ r.phase = "accepting" /\ r.result = job[j].result /\ r.err = job[j].err
          /\ r.worker = job[j].worker /\ r.deadline = job[j].deadline /\ job[j].tok \in Nat
      BY <3>1 DEF JobRecord, Phases
    <3> HIDE DEF r, j
    <3>3. /\ job' \in [Jobs -> JobRecord] /\ job'[j] = r
          /\ \A k \in Jobs \ {j} : job'[k] = job[k]
      BY <1>2, <3>1, <3>2, UpdateMeans
    <3>4. Proper(j) /\ Stays(j)
      BY <3>1, <3>2, <3>3 DEF Proper, Sound, Stays
    <3> QED
      BY <1>2, <3>2, <3>3, <3>4, RestIsProper
  <2>2. CASE UNCHANGED job /\ ~mark
    BY <2>2, RestIsProper DEF Inv, TypeOK
  <2> QED
    BY <1>1, <2>1, <2>2
<1> HIDE DEF mark
<1>5. ASSUME Onward
      PROVE  HostOK(w)'
  <2>1. host'[w] = host[w] /\ HostOK(w)
    BY <1>1 DEF Inv
  <2>2. (OwnThreadOver(w) => OwnThreadOver(w)') /\ ~host[w].late
    BY <1>2, <1>3, <2>1 DEF OwnThreadOver, OpGoesOn, OpAt, HostOK
  <2>3. (At(w, "check") \/ At(w, "invoke")) => Stays(host[w].job)
    BY <1>4 DEF Inv, TypeOK, At
  <2> QED
    BY <1>3, <1>5, <2>1, <2>2, <2>3, HostBeside DEF OpGoesOn
<1>6. ASSUME Onward
      PROVE  OpOK(w)'
  <2>1. /\ op[w].tok \in Nat /\ job[j].st # "absent" /\ op[w].tok <= job[j].tok
        /\ JobGrows(j) /\ job[j].tok \in Nat
    BY <1>2, <1>6, ThreadFacts DEF OpLocals, Onward, Inv, TypeOK, JobRecord
  <2>2. job'[j].st # "absent" /\ op[w].tok <= job'[j].tok
    BY <2>1 DEF JobGrows
  <2>3. Kind[j] = "prepare" /\ Kind[j] \notin SQL
    BY <1>2 DEF OpKind, SQL
  <2> QED
    BY <1>3, <1>4, <2>2, <2>3 DEF OpOK, OpAt, OpKind, OpGoesOn, Fenced
<1>7. /\ host' \in [Workers -> HostLocals] /\ host' = host
      /\ host'[w].pc # "idle" => host'[w].job \in Jobs
      /\ UNCHANGED <<passed, world>>
  BY <1>1 DEF Inv, TypeOK, At
<1> QED
  BY <1>1, <1>2, <1>3, <1>4, <1>5, <1>6, <1>7, WorkerStoreStep DEF OpAt, OpGoesOn

-----------------------------------------------------------------------------
LEMMA InitInv == Init => Inv
<1> SUFFICES ASSUME Init
             PROVE  Inv
  OBVIOUS
<1>1. NoRecord \in JobRecord
  BY DEF NoRecord, JobRecord, Phases, ErrorCodes
<1>2. Idle \in HostLocals /\ NoOp \in OpLocals
  BY DEF Idle, NoOp, HostLocals, OpLocals, ErrorCodes
<1>3. TypeOK
  <2>1. job \in [Jobs -> JobRecord] /\ passed \in [Jobs -> SUBSET Nat]
    BY <1>1 DEF Init, InitStore
  <2>2. host \in [Workers -> HostLocals] /\ op \in [Workers -> OpLocals]
    BY <1>2 DEF Init
  <2>3. \A w \in Workers : At(w, "idle") /\ OpAt(w, "none")
    BY DEF Init, Idle, NoOp, At, OpAt
  <2>4. registry \in [owner : Jobs \cup {NoJob}, st : {"none", "created", "removed"}]
    BY DEF Init
  <2> QED
    BY <2>1, <2>2, <2>3, <2>4, WorkerAssumption DEF Init, TypeOK
<1>4. ASSUME NEW j \in Jobs
      PROVE  JobOK(j) /\ ~job[j].result
  BY DEF Init, InitStore, NoRecord, JobOK, Sound
<1>5. ASSUME NEW w \in Workers
      PROVE  HostOK(w) /\ OpOK(w)
  BY DEF Init, Idle, NoOp, HostOK, OpOK, At, OpAt
<1>6. LeaseInv /\ RegistryInv /\ AcceptedInv /\ ResultInv
  BY <1>4 DEF Init, InitStore, NoRecord, LeaseInv, RegistryInv, AcceptedInv, ResultInv
<1>7. TxnInv
  BY JobAssumption DEF Init, TxnInv, NoOp, OpAt
<1> QED
  BY <1>3, <1>4, <1>5, <1>6, <1>7 DEF Inv

LEMMA StutterKeepsInv ==
  ASSUME Inv, UNCHANGED vars
  PROVE  Inv'
BY DEF Inv, vars, storeVars, TypeOK, JobOK, Sound, ParentVerified, HostOK, OpOK, LeaseInv, TxnInv,
  RegistryInv, AcceptedInv, ResultInv, Receipted, GivenUp, Gone, Fenced, Past, Current, Overdue,
  OwnThreadOver, Foreign, HostKind, OpKind, At, OpAt

LEMMA NextKeepsInv ==
  ASSUME Inv, [Next]_vars
  PROVE  Inv'
<1>1. ASSUME NEW w \in Workers, HostStep(w)
      PROVE  Inv'
  BY <1>1, ClaimStep, CheckJobStep, StartHandlerStep, SlotTimeoutStep, DeadlineHitsStep,
     UnwindStep, HandlerReturnsStep, FinishStep, RetainLateStep DEF HostStep
<1>2. ASSUME NEW w \in Workers, OpStep(w)
      PROVE  Inv'
  BY <1>2, OpStartStep, ExecuteStep, RecheckStep, CommitStep, ReconcileStep, OpRetainsStep,
     PreviewStep, PrepareStartStep, BeginAcceptanceStep, AcceptRunStep DEF OpStep
<1>3. ASSUME NEW w \in Workers,
             ClearExpired(w) \/ SeesCancel(w) \/ HeartbeatFails(w) \/ Crash(w)
      PROVE  Inv'
  BY <1>3, ClearExpiredStep, SeesCancelStep, HeartbeatFailsStep, CrashStep
<1>4. ASSUME NEW j \in Jobs, Stall(j)
      PROVE  Inv'
  BY <1>4, SpendType, ExpireStep DEF Stall, Spend, Inv
<1>5. ASSUME Clock
      PROVE  Inv'
  <2>1. PICK j \in Jobs : DeadlinePasses(j) \/ ExpireAbandoned(j)
    BY <1>5 DEF Clock
  <2>2. CASE ExpireAbandoned(j)
    <3>1. left' \in 0 .. MaxFaults /\ Expire(j)
      BY <2>2 DEF ExpireAbandoned, Inv, TypeOK
    <3> QED
      BY <3>1, ExpireStep
  <2> QED
    BY <2>1, <2>2, DeadlinePassesStep
<1>6. ASSUME Client
      PROVE  Inv'
  <2>1. UNCHANGED <<host, op, world, left>>
    BY <1>6 DEF Client
  <2>2. PICK j \in scenario.jobs : accept_action_job(j) \/ cancel_action_job(j)
    BY <1>6 DEF Client
  <2>3. j \in Jobs
    BY WorkerAssumption DEF Inv, TypeOK
  <2> QED
    BY <2>1, <2>2, <2>3, AcceptActionStep, CancelActionStep
<1> QED
  BY <1>1, <1>2, <1>3, <1>4, <1>5, <1>6, StutterKeepsInv DEF Next

-----------------------------------------------------------------------------
LEMMA SpecInv == Spec => []Inv
<1>1. Inv /\ [Next]_vars => Inv'
  BY NextKeepsInv
<1> QED
  BY InitInv, <1>1, PTL DEF Spec

\* The records of the jobs, the locals of the workers and the registry keep
\* their types, and a worker or a thread that is busy has a job.
THEOREM ActionTypeCorrect == Spec => []TypeOK
<1>1. Inv => TypeOK
  BY DEF Inv
<1> QED
  BY SpecInv, <1>1, PTL

\* No run is accepted for a preparation that was cancelled, whatever worker
\* prepares it and whenever its lease or its deadline runs out
\* (cancel_action_job, mark_action_job_accepting, claim_action_job).
THEOREM CancellationHolds == Spec => []CancelledNeverAccepted
BY SpecInv, InvImplies, PTL

\* A receipt is only stored of what was committed, also one that a thread
\* reports after its worker gave it up or that follows a lost acknowledgement
\* (_committed_effect, retain_effect, finish_action_job).
THEOREM ReceiptsHold == Spec => []ReceiptsAreTrue
BY SpecInv, InvImplies, PTL

\* A table that a cleanup reported gone is never created again by its own
\* provision, where leases outlast deadlines (_execute, accept_action_job).
THEOREM CleanupIsFinal == Spec => []CleanedIsGone
BY SpecInv, InvImplies, PTL

\* An action that had its effect and has no receipt can still get one
\* (accept_action_job, claim_action_job, finish_action_job).
THEOREM EffectsAreRecoverable == Spec => []UnrecordedIsRecoverable
BY SpecInv, InvImplies, PTL
=============================================================================
