------------------------ MODULE RouteDispatchProofs ------------------------
(***************************************************************************)
(* The managed Prefect route, for any dispatchers, operators, bounds and   *)
(* faults.  The invariant has four groups of parts: what a dispatcher      *)
(* remembers of its claim and of the run it is about to link, what was     *)
(* executed, what the store keeps when the route leaves "active", and what *)
(* an operator may rely on of the lifecycle it read.                       *)
(***************************************************************************)
EXTENDS RouteDispatch, SequenceTheorems, FiniteSetTheorems, TLAPS

LinkStatuses == {"dispatched", "reconciliation_required"}

\* The linked run is one of the runs, and of the record's generation.
LinkedInv ==
  /\ dispatch.run \in 0 .. Len(runs)
  /\ dispatch.st \in LinkStatuses =>
       dispatch.run \in RunIds /\ runs[dispatch.run].gen = dispatch.gen

\* No dispatcher is ahead of the record; who holds the lease of the record is
\* up to date with its generation, and a claim has a token.
ClaimInv ==
  /\ dispatch.st = "leased" => dispatch.token > 0
  /\ \A d \in Dispatchers :
       /\ proc[d].tok <= dispatch.token
       /\ HoldsDispatch(d, proc[d].tok) => proc[d].gen = dispatch.gen

\* The run a dispatcher is about to link was created for its claim.
TargetInv ==
  \A d \in Dispatchers :
    /\ proc[d].pc \in {"link", "relink", "stop", "observe"} => proc[d].run \in RunIds
    /\ proc[d].pc \in {"link", "relink"} => runs[proc[d].run].gen = proc[d].gen

\* A worker only runs in an attempt; the execution lease is of open work.
ExecutionInv ==
  /\ \A r \in RunIds : runs[r].worker = "run" => attempt # "none"
  /\ lease.live => sub \in Open /\ lease.run \in RunIds

\* The linked run has ended on the server.
LinkedEnded == dispatch.st = "dispatched" => runs[dispatch.run].st \notin Active

Unsubmitted == {"cleanup_pending", "cleaned"}

\* What the store and the server keep while the route is not active.
RouteInv ==
  /\ route.st \in {"retired"} \cup Unsubmitted => Drained /\ ~held /\ LinkedEnded
  /\ route.st \in Unsubmitted => sub = "absent"
  /\ deployment = "deleted" => route.st \in Unsubmitted

\* The statuses an operator can have read at each step.
ReadAt(pc) ==
  CASE pc = "drain" -> {"active"}
    [] pc \in {"pause", "confirm", "retire"} -> {"draining"}
    [] pc \in {"repause", "fence"} -> {"retired"}
    [] pc \in {"resume", "resumed"} -> {"active", "draining", "retired"}
    [] pc = "reopen" -> {"draining", "retired"}
    [] pc = "unused" -> {"retired", "cleanup_pending"}
    [] pc \in {"delete", "clean"} -> {"cleanup_pending"}
    [] OTHER -> RouteStatuses \cup {"none"}

\* An operator whose revision is still the route's knows the route's status and
\* that the work it saw drained stays drained.  Cleanup is never undone.
Knows(x) ==
  /\ x.rev <= route.rev
  /\ x.st \in ReadAt(x.pc)
  /\ x.pc # "idle" /\ x.rev = route.rev => x.st = route.st
  /\ x.pc \in {"pause", "confirm", "retire"} /\ x.rev = route.rev => Drained /\ ~held
  /\ x.pc \in {"confirm", "retire"} /\ x.rev = route.rev => LinkedEnded
  /\ x.pc # "idle" /\ x.st = "cleanup_pending" => route.st \in Unsubmitted

OperatorInv == \A o \in Operators : Knows(op[o])

Inv ==
  /\ TypeOK
  /\ LinkedInv
  /\ ClaimInv
  /\ TargetInv
  /\ ExecutionInv
  /\ RouteInv
  /\ OperatorInv

---------------------------------------------------------------------------
(* The flow runs.                                                          *)

\* No run disappears, changes its generation or comes back to life.
RunsGrow ==
  /\ runs' \in Seq(FlowRun)
  /\ Len(runs) <= Len(runs')
  /\ \A r \in RunIds :
       /\ runs'[r].gen = runs[r].gen
       /\ runs[r].st \notin Active => runs'[r].st \notin Active

\* No worker begins to execute.
NobodyBegins ==
  \A r \in RunIds' : runs'[r].worker = "run" => r \in RunIds /\ runs[r].worker = "run"

\* The server or a worker moves one run on.
LEMMA RunChanged ==
  ASSUME runs \in Seq(FlowRun), NEW r \in RunIds, NEW x \in FlowRun,
         runs' = [runs EXCEPT ![r] = x],
         x.gen = runs[r].gen, runs[r].st \notin Active => x.st \notin Active
  PROVE  /\ RunsGrow
         /\ Len(runs') = Len(runs)
         /\ (x.worker = "run" => runs[r].worker = "run") => NobodyBegins
<1>1. /\ [runs EXCEPT ![r] = x] \in Seq(FlowRun)
      /\ Len([runs EXCEPT ![r] = x]) = Len(runs)
      /\ \A q \in 1 .. Len(runs) : [runs EXCEPT ![r] = x][q] = IF q = r THEN x ELSE runs[q]
  BY ExceptSeq DEF RunIds
<1>2. Len(runs) \in Nat
  OBVIOUS
<1> QED
  BY <1>1, <1>2 DEF RunsGrow, NobodyBegins, RunIds

\* The server creates a run.
LEMMA RunAdded ==
  ASSUME runs \in Seq(FlowRun), NEW g \in Nat, runs' = Append(runs, NewRun(g))
  PROVE  /\ RunsGrow
         /\ NobodyBegins
         /\ Len(runs') = Len(runs) + 1
         /\ runs'[Len(runs) + 1].gen = g
<1>1. NewRun(g) \in FlowRun
  BY DEF NewRun, FlowRun, Active
<1>2. /\ Append(runs, NewRun(g)) \in Seq(FlowRun)
      /\ Len(Append(runs, NewRun(g))) = Len(runs) + 1
      /\ Len(runs) \in Nat
      /\ \A q \in 1 .. Len(runs) : Append(runs, NewRun(g))[q] = runs[q]
      /\ Append(runs, NewRun(g))[Len(runs) + 1] = NewRun(g)
  BY <1>1
<1> QED
  BY <1>2 DEF RunsGrow, NobodyBegins, RunIds, NewRun

LEMMA RunsKept ==
  ASSUME runs \in Seq(FlowRun), UNCHANGED runs
  PROVE  RunsGrow /\ NobodyBegins /\ Len(runs') = Len(runs)
<1>1. Len(runs) \in Nat
  OBVIOUS
<1> QED
  BY <1>1 DEF RunsGrow, NobodyBegins, RunIds

\* A create makes or finds a run of the generation it was asked for.
LEMMA Created ==
  ASSUME runs \in Seq(FlowRun), NEW g \in Nat, CreateAtServer(g)
  PROVE  /\ RunsGrow /\ NobodyBegins
         /\ CreatedRun(g) \in RunIds'
         /\ runs'[CreatedRun(g)].gen = g
<1>1. CASE Known(g) # {}
  <2>1. CreatedRun(g) \in Known(g)
    BY <1>1 DEF CreatedRun
  <2>2. UNCHANGED runs
    BY <1>1 DEF CreateAtServer
  <2> QED
    BY <2>1, <2>2, RunsKept DEF Known, RunIds
<1>2. CASE Known(g) = {}
  <2>1. CreatedRun(g) = Len(runs) + 1 /\ runs' = Append(runs, NewRun(g))
    BY <1>2 DEF CreatedRun, CreateAtServer
  <2>2. Len(runs) \in Nat
    OBVIOUS
  <2> QED
    BY <2>1, <2>2, RunAdded DEF RunIds
<1> QED
  BY <1>1, <1>2

---------------------------------------------------------------------------
(* Calm steps: nobody claims, links or rearms, no worker begins outside of *)
(* an attempt, and the route and its operators stay where they are.        *)

Targeting == {"link", "relink", "stop", "observe"}

\* A dispatcher keeps its claim or forgets it, and has a run to act on.
DispatcherCalm(d) ==
  /\ \/ proc'[d].tok = proc[d].tok /\ proc'[d].gen = proc[d].gen
     \/ proc'[d].tok = 0
  /\ proc'[d].pc \in Targeting => proc'[d].run \in RunIds'
  /\ proc'[d].pc \in {"link", "relink"} => runs'[proc'[d].run].gen = proc'[d].gen

ProcCalm ==
  /\ proc' \in [Dispatchers -> DispatcherLocals]
  /\ \A d \in Dispatchers : DispatcherCalm(d)

\* The record is settled, at most.
DispatchCalm ==
  /\ dispatch' \in DispatchRecord
  /\ dispatch'.owner # NoOwner <=> dispatch'.st = "leased"
  /\ dispatch'.gen = dispatch.gen /\ dispatch'.token = dispatch.token
  /\ dispatch'.run = dispatch.run
  /\ dispatch'.st \in {"leased"} \cup LinkStatuses =>
       dispatch'.st = dispatch.st /\ dispatch'.owner = dispatch.owner
  /\ Drained => dispatch'.st \in {"none", "dispatched", "cancelled"}

\* What a route that is not active has drained stays drained.
WorkCalm ==
  /\ held' \in BOOLEAN
  /\ sub' \in {"absent"} \cup Open \cup Closed
  /\ outbox' \in BOOLEAN
  /\ lease' \in [run : Nat, live : BOOLEAN]
  /\ attempt' \in {"none", "running", "over"}
  /\ attempt # "none" => attempt' # "none"
  /\ lease'.live => sub' \in Open /\ lease'.run \in RunIds'
  /\ route.st # "active" =>
       /\ sub \notin Open => sub' = sub
       /\ sub \notin Open /\ attempt # "running" => attempt' # "running"
       /\ ~outbox => ~outbox'
       /\ ~held => ~held'

LEMMA CalmKeepsInv ==
  ASSUME Inv, RunsGrow, NobodyBegins \/ attempt' # "none", ProcCalm, DispatchCalm, WorkCalm,
         left' \in Nat, UNCHANGED <<route, op, deployment>>
  PROVE  Inv'
<1> USE DEF Inv
<1>1. TypeOK'
  BY DEF TypeOK, RunsGrow, ProcCalm, DispatchCalm, WorkCalm
<1>2. /\ Len(runs) \in Nat /\ Len(runs') \in Nat /\ Len(runs) <= Len(runs')
      /\ dispatch \in DispatchRecord /\ dispatch' \in DispatchRecord
  BY <1>1 DEF TypeOK, RunsGrow
<1>3. LinkedInv'
  BY <1>2 DEF LinkedInv, RunsGrow, DispatchCalm, RunIds, LinkStatuses
<1>4. ClaimInv'
  <2>1. \A d \in Dispatchers : proc[d] \in DispatcherLocals /\ proc'[d] \in DispatcherLocals
    BY <1>1 DEF TypeOK
  <2>2. \A d \in Dispatchers : proc[d].tok \in Nat /\ proc'[d].tok \in Nat
    BY <2>1 DEF DispatcherLocals
  <2>3. dispatch.token \in Nat
    BY <1>2 DEF DispatchRecord
  <2>4. dispatch'.st = "leased" => dispatch'.token > 0
    BY DEF DispatchCalm, ClaimInv, LinkStatuses
  <2>5. ASSUME NEW d \in Dispatchers
        PROVE  proc'[d].tok <= dispatch'.token
    BY <2>2, <2>3 DEF ProcCalm, DispatcherCalm, DispatchCalm, ClaimInv
  <2>6. ASSUME NEW d \in Dispatchers, HoldsDispatch(d, proc[d].tok)'
        PROVE  proc'[d].gen = dispatch'.gen
    <3>1. proc'[d].tok # 0
      BY <2>3, <2>4, <2>6 DEF HoldsDispatch
    <3>2. proc'[d].tok = proc[d].tok /\ proc'[d].gen = proc[d].gen
      BY <3>1 DEF ProcCalm, DispatcherCalm
    <3>3. HoldsDispatch(d, proc[d].tok)
      BY <2>6, <3>2 DEF HoldsDispatch, DispatchCalm
    <3> QED
      BY <3>2, <3>3 DEF ClaimInv, DispatchCalm
  <2> QED
    BY <2>4, <2>5, <2>6 DEF ClaimInv
<1>5. TargetInv'
  BY DEF TargetInv, ProcCalm, DispatcherCalm, Targeting
<1>6. ExecutionInv'
  BY DEF ExecutionInv, NobodyBegins, WorkCalm
<1>7. route.st # "active" /\ Drained => Drained'
  BY DEF Drained, WorkCalm, DispatchCalm
<1>8. LinkedEnded => LinkedEnded'
  BY <1>2 DEF LinkedEnded, DispatchCalm, RunsGrow, LinkedInv, LinkStatuses
<1>9. RouteInv'
  BY <1>7, <1>8 DEF RouteInv, WorkCalm, Unsubmitted, Open
<1>10. OperatorInv'
  <2>1. route.st # "active" /\ ~held => ~held'
    BY DEF WorkCalm
  <2>2. ASSUME NEW o \in Operators
        PROVE  Knows(op[o])'
    <3>1. Knows(op[o])
      BY DEF OperatorInv
    <3>2. op[o].pc \in {"pause", "confirm", "retire"} /\ op[o].rev = route.rev =>
            route.st # "active"
      BY <3>1 DEF Knows, ReadAt
    <3> QED
      BY <1>7, <1>8, <2>1, <3>1, <3>2 DEF Knows
  <2> QED
    BY <2>2 DEF OperatorInv
<1> QED
  BY <1>1, <1>3, <1>4, <1>5, <1>6, <1>9, <1>10

---------------------------------------------------------------------------
(* The control of a dispatcher.                                            *)

PlainSteps ==
  {"idle", "rearm", "scan", "prepare", "claim", "check", "create", "resolve", "sweep", "release"}

\* One dispatcher moves, the others keep what they know of the runs.
LEMMA OneMoves ==
  ASSUME Inv, RunsGrow, NEW d \in Dispatchers, NEW x \in DispatcherLocals,
         proc' = [proc EXCEPT ![d] = x],
         (x.tok = proc[d].tok /\ x.gen = proc[d].gen) \/ x.tok = 0,
         x.pc \in Targeting => x.run \in RunIds',
         x.pc \in {"link", "relink"} => runs'[x.run].gen = x.gen
  PROVE  ProcCalm
<1>1. proc \in [Dispatchers -> DispatcherLocals] /\ Len(runs) \in Nat
  BY DEF Inv, TypeOK
<1>2. /\ proc' \in [Dispatchers -> DispatcherLocals]
      /\ proc'[d] = x
      /\ \A e \in Dispatchers \ {d} : proc'[e] = proc[e]
  BY <1>1
<1>3. ASSUME NEW e \in Dispatchers \ {d}
      PROVE  DispatcherCalm(e)
  BY <1>1, <1>2 DEF DispatcherCalm, Inv, TargetInv, RunsGrow, RunIds, Targeting
<1>4. DispatcherCalm(d)
  BY <1>2 DEF DispatcherCalm
<1> QED
  BY <1>2, <1>3, <1>4 DEF ProcCalm

LEMMA NobodyMoves ==
  ASSUME Inv, RunsGrow, UNCHANGED proc
  PROVE  ProcCalm
<1>1. proc \in [Dispatchers -> DispatcherLocals] /\ Len(runs) \in Nat
  BY DEF Inv, TypeOK
<1>2. ASSUME NEW e \in Dispatchers
      PROVE  DispatcherCalm(e)
  BY <1>1 DEF DispatcherCalm, Inv, TargetInv, RunsGrow, RunIds, Targeting
<1> QED
  BY <1>1, <1>2 DEF ProcCalm

LEMMA GoesOn ==
  ASSUME Inv, RunsGrow, NEW d \in Dispatchers, NEW pc \in PlainSteps, Goto(d, pc)
  PROVE  ProcCalm
<1> DEFINE x == [proc[d] EXCEPT !.pc = pc]
<1>1. proc[d] \in DispatcherLocals
  BY DEF Inv, TypeOK
<1>2. x \in DispatcherLocals /\ x.pc = pc /\ x.tok = proc[d].tok /\ x.gen = proc[d].gen
  BY <1>1 DEF DispatcherLocals, PlainSteps
<1>3. proc' = [proc EXCEPT ![d] = x]
  BY DEF Goto
<1> HIDE DEF x
<1> QED
  BY <1>2, <1>3, OneMoves DEF PlainSteps, Targeting

LEMMA Raises ==
  ASSUME Inv, RunsGrow, NEW d \in Dispatchers,
         NEW status \in {"pending", "uncertain", "cancelled"}, Raise(d, status)
  PROVE  ProcCalm
<1> DEFINE x == [proc[d] EXCEPT !.pc = "release", !.rel = status]
<1>1. proc[d] \in DispatcherLocals
  BY DEF Inv, TypeOK
<1>2. x \in DispatcherLocals /\ x.pc = "release" /\ x.tok = proc[d].tok /\ x.gen = proc[d].gen
  BY <1>1 DEF DispatcherLocals
<1>3. proc' = [proc EXCEPT ![d] = x]
  BY DEF Raise
<1> HIDE DEF x
<1> QED
  BY <1>2, <1>3, OneMoves DEF Targeting

LEMMA Returns ==
  ASSUME Inv, RunsGrow, NEW d \in Dispatchers, Return(d)
  PROVE  ProcCalm
<1>1. Idle \in DispatcherLocals /\ Idle.tok = 0 /\ Idle.pc = "idle"
  BY DEF Idle, DispatcherLocals, DispatchStatuses, NoRun
<1>2. proc' = [proc EXCEPT ![d] = Idle]
  BY DEF Return
<1> QED
  BY <1>1, <1>2, OneMoves DEF Targeting

---------------------------------------------------------------------------
(* The store at rest.                                                      *)

LEMMA RestOfStore ==
  ASSUME Inv, RunsGrow, UNCHANGED <<held, sub, outbox, lease, attempt>>
  PROVE  WorkCalm
<1>1. Len(runs) \in Nat /\ Len(runs') \in Nat /\ Len(runs) <= Len(runs')
  BY DEF Inv, TypeOK, RunsGrow
<1> QED
  BY <1>1 DEF WorkCalm, Inv, TypeOK, ExecutionInv, RunIds

LEMMA RecordKept ==
  ASSUME Inv, UNCHANGED dispatch
  PROVE  DispatchCalm
BY DEF DispatchCalm, Inv, TypeOK, Drained

LEMMA ServerKept ==
  ASSUME Inv, UNCHANGED runs
  PROVE  RunsGrow /\ NobodyBegins
BY RunsKept DEF Inv, TypeOK

---------------------------------------------------------------------------
(* The dispatchers.                                                        *)

\* A tick that looks at the linked run knows which one it is.
LEMMA TickStep ==
  ASSUME Inv, NEW d \in Dispatchers, tick(d)
  PROVE  Inv'
<1> DEFINE x == [proc[d] EXCEPT !.pc = IF LinkedForReconciliation THEN "observe" ELSE "scan",
                                !.run = dispatch.run]
<1>1. proc[d] \in DispatcherLocals /\ dispatch.run \in Nat
  BY DEF Inv, TypeOK, DispatchRecord
<1>2. /\ x \in DispatcherLocals /\ x.tok = proc[d].tok /\ x.gen = proc[d].gen
      /\ x.run = dispatch.run
      /\ x.pc = IF LinkedForReconciliation THEN "observe" ELSE "scan"
  BY <1>1 DEF DispatcherLocals
<1>3. proc' = [proc EXCEPT ![d] = x]
  BY DEF tick
<1>4. UNCHANGED <<storeVars, deployment, runs, op, left>>
  BY DEF tick, remoteVars
<1> HIDE DEF x
<1>5. RunsGrow /\ NobodyBegins /\ runs' = runs
  BY <1>4, ServerKept
<1>6. x.pc \in Targeting => x.run \in RunIds'
  BY <1>2, <1>5 DEF Targeting, LinkedForReconciliation, Inv, LinkedInv, LinkStatuses, RunIds
<1>7. ProcCalm
  BY <1>2, <1>3, <1>5, <1>6, OneMoves
<1>8. left' \in Nat
  BY <1>4 DEF Inv, TypeOK
<1> QED
  BY <1>4, <1>5, <1>7, <1>8, RestOfStore, RecordKept, CalmKeepsInv DEF storeVars

LEMMA ObserveRunStep ==
  ASSUME Inv, NEW d \in Dispatchers, ObserveRun(d)
  PROVE  Inv'
<1> DEFINE st == runs[proc[d].run].st
           x == [proc[d] EXCEPT !.obs = st,
                                !.pc = IF st \in {"failed", "deleted"} THEN "rearm" ELSE "scan"]
<1>1. proc[d] \in DispatcherLocals /\ runs \in Seq(FlowRun) /\ proc[d].run \in RunIds
  BY DEF Inv, TypeOK, TargetInv, ObserveRun, At
<1>2. st \in {"scheduled", "running", "completed", "failed", "cancelled", "deleted"}
  <2>1. runs[proc[d].run] \in FlowRun
    BY <1>1 DEF RunIds
  <2> QED
    BY <2>1 DEF FlowRun, Active
<1> HIDE DEF st
<1>3. /\ x \in DispatcherLocals /\ x.tok = proc[d].tok /\ x.gen = proc[d].gen
      /\ x.pc \in {"rearm", "scan"}
  BY <1>1, <1>2 DEF DispatcherLocals
<1>4. proc' = [proc EXCEPT ![d] = x]
  BY DEF ObserveRun, st
<1>5. UNCHANGED <<storeVars, deployment, runs, op, left>>
  BY DEF ObserveRun, remoteVars
<1> HIDE DEF x
<1>6. RunsGrow /\ NobodyBegins
  BY <1>5, ServerKept
<1>7. ProcCalm
  BY <1>3, <1>4, <1>6, OneMoves DEF Targeting
<1>8. left' \in Nat
  BY <1>5 DEF Inv, TypeOK
<1> QED
  BY <1>5, <1>6, <1>7, <1>8, RestOfStore, RecordKept, CalmKeepsInv DEF storeVars

LEMMA ScanStep ==
  ASSUME Inv, NEW d \in Dispatchers, Scan(d)
  PROVE  Inv'
<1>1. UNCHANGED <<storeVars, deployment, runs, op, left>>
  BY DEF Scan, remoteVars
<1>2. RunsGrow /\ NobodyBegins
  BY <1>1, ServerKept
<1>3. ProcCalm
  BY <1>2, GoesOn, Returns DEF Scan, PlainSteps
<1>4. left' \in Nat
  BY <1>1 DEF Inv, TypeOK
<1> QED
  BY <1>1, <1>2, <1>3, <1>4, RestOfStore, RecordKept, CalmKeepsInv DEF storeVars

\* prepare_dispatch makes a record for work that is open, and a cancelled one
\* for work that is not.
LEMMA PrepareStep ==
  ASSUME Inv, NEW d \in Dispatchers, Prepare(d)
  PROVE  Inv'
<1>1. UNCHANGED <<route, held, sub, outbox, lease, attempt, deployment, runs, op, left>>
  BY DEF Prepare, remoteVars, OnlyDispatch
<1>2. RunsGrow /\ NobodyBegins
  BY <1>1, ServerKept
<1>3. DispatchCalm
  <2>1. CASE dispatch.st # "none"
    BY <2>1, RecordKept DEF Prepare, prepare_dispatch
  <2>2. CASE dispatch.st = "none"
    <3>1. dispatch' = [dispatch EXCEPT !.st = IF sub = "accepted" THEN "pending" ELSE "cancelled"]
      BY <2>2 DEF Prepare, prepare_dispatch
    <3>2. dispatch \in DispatchRecord /\ (dispatch.owner # NoOwner <=> dispatch.st = "leased")
      BY DEF Inv, TypeOK
    <3> QED
      BY <2>2, <3>1, <3>2 DEF DispatchCalm, DispatchRecord, DispatchStatuses, LinkStatuses, Drained, Open
  <2> QED
    BY <2>1, <2>2
<1>4. ProcCalm
  <2>1. CASE dispatch'.st \in {"dispatched", "cancelled"}
    BY <1>2, <2>1, Returns DEF Prepare
  <2>2. CASE dispatch'.st \notin {"dispatched", "cancelled"}
    <3> DEFINE x == [proc[d] EXCEPT !.pc = "claim", !.seen = dispatch'.st]
    <3>1. proc[d] \in DispatcherLocals /\ dispatch'.st \in DispatchStatuses
      BY <1>3 DEF Inv, TypeOK, DispatchCalm, DispatchRecord
    <3>2. x \in DispatcherLocals /\ x.tok = proc[d].tok /\ x.gen = proc[d].gen /\ x.pc = "claim"
      BY <3>1 DEF DispatcherLocals
    <3>3. proc' = [proc EXCEPT ![d] = x]
      BY <2>2 DEF Prepare
    <3> HIDE DEF x
    <3> QED
      BY <1>2, <3>2, <3>3, OneMoves DEF Targeting
  <2> QED
    BY <2>1, <2>2
<1>5. left' \in Nat
  BY <1>1 DEF Inv, TypeOK
<1> QED
  BY <1>1, <1>2, <1>3, <1>4, <1>5, RestOfStore, CalmKeepsInv

\* The submission is only read.
LEMMA CheckSubmissionStep ==
  ASSUME Inv, NEW d \in Dispatchers, CheckSubmission(d)
  PROVE  Inv'
<1>1. UNCHANGED <<storeVars, deployment, runs, op>>
  BY DEF CheckSubmission, remoteVars
<1>2. RunsGrow /\ NobodyBegins
  BY <1>1, ServerKept
<1>3. ProcCalm
  BY <1>2, GoesOn, Raises DEF CheckSubmission, PlainSteps
<1>4. left' \in Nat
  BY DEF CheckSubmission, Spend, Inv, TypeOK
<1> QED
  BY <1>1, <1>2, <1>3, <1>4, RestOfStore, RecordKept, CalmKeepsInv DEF storeVars

\* The dispatcher goes on with a run of the generation it claimed.
LEMMA CreateStep ==
  ASSUME Inv, NEW d \in Dispatchers, Create(d)
  PROVE  Inv'
<1> DEFINE g == proc[d].gen
           x == [proc[d] EXCEPT !.pc = "link", !.run = CreatedRun(g)]
<1>1. proc[d] \in DispatcherLocals /\ g \in Nat /\ runs \in Seq(FlowRun)
  BY DEF Inv, TypeOK, DispatcherLocals
<1>2. UNCHANGED <<storeVars, deployment, op>>
  BY DEF Create
<1>3. RunsGrow /\ NobodyBegins
  BY <1>1, Created, RunsKept DEF Create
<1>4. ProcCalm
  <2>1. CASE Raise(d, "uncertain")
    BY <1>3, <2>1, Raises
  <2>2. CASE CreateAtServer(g) /\ proc' = [proc EXCEPT ![d].pc = "link", ![d].run = CreatedRun(g)]
    <3>1. CreatedRun(g) \in RunIds' /\ runs'[CreatedRun(g)].gen = g
      BY <1>1, <2>2, Created
    <3>2. CreatedRun(g) \in Nat
      BY <3>1 DEF RunIds
    <3>3. /\ x \in DispatcherLocals /\ x.tok = proc[d].tok /\ x.gen = g
          /\ x.pc = "link" /\ x.run = CreatedRun(g)
      BY <1>1, <3>2 DEF DispatcherLocals
    <3>4. proc' = [proc EXCEPT ![d] = x]
      BY <2>2
    <3> HIDE DEF x, g
    <3> QED
      BY <1>3, <3>1, <3>3, <3>4, OneMoves DEF g
  <2> QED
    BY <2>1, <2>2 DEF Create
<1>5. left' \in Nat
  BY DEF Create, Spend, Inv, TypeOK
<1> QED
  BY <1>2, <1>3, <1>4, <1>5, RestOfStore, RecordKept, CalmKeepsInv DEF storeVars

\* A holder gives the lease back; anybody else changes nothing.
LEMMA ReleaseStep ==
  ASSUME Inv, NEW d \in Dispatchers, Release(d)
  PROVE  Inv'
<1>1. UNCHANGED <<route, held, sub, outbox, lease, attempt, deployment, runs, op, left>>
  BY DEF Release, remoteVars, OnlyDispatch
<1>2. RunsGrow /\ NobodyBegins
  BY <1>1, ServerKept
<1>3. DispatchCalm
  <2> DEFINE rel == proc[d].rel
  <2>1. rel \in {"none", "pending", "uncertain", "cancelled"}
    <3>1. proc[d] \in DispatcherLocals
      BY DEF Inv, TypeOK
    <3> QED
      BY <3>1 DEF DispatcherLocals
  <2>2. CASE ~HoldsDispatch(d, proc[d].tok)
    BY <2>2, RecordKept DEF Release, release_dispatch
  <2>3. CASE HoldsDispatch(d, proc[d].tok)
    <3>1. dispatch' = [dispatch EXCEPT !.st = rel, !.owner = NoOwner, !.live = FALSE,
                                       !.waiting = rel # "cancelled"]
      BY <2>3 DEF Release, release_dispatch
    <3>2. dispatch \in DispatchRecord /\ dispatch.st = "leased"
      BY <2>3 DEF Inv, TypeOK, HoldsDispatch
    <3> HIDE DEF rel
    <3> QED
      BY <2>1, <3>1, <3>2 DEF DispatchCalm, DispatchRecord, DispatchStatuses, LinkStatuses, Drained
  <2> QED
    BY <2>2, <2>3
<1>4. ProcCalm
  BY <1>2, Returns DEF Release
<1>5. left' \in Nat
  BY <1>1 DEF Inv, TypeOK
<1> QED
  BY <1>1, <1>2, <1>3, <1>4, <1>5, RestOfStore, CalmKeepsInv

\* The one run the server knows under the key is of the claimed generation.
LEMMA ResolveStep ==
  ASSUME Inv, NEW d \in Dispatchers, Resolve(d)
  PROVE  Inv'
<1> DEFINE g == proc[d].gen
           x == [proc[d] EXCEPT !.pc = "relink", !.run = CreatedRun(g)]
<1>1. proc[d] \in DispatcherLocals /\ runs \in Seq(FlowRun)
  BY DEF Inv, TypeOK
<1>2. UNCHANGED <<storeVars, deployment, runs, op>>
  BY DEF Resolve, remoteVars
<1>3. RunsGrow /\ NobodyBegins
  BY <1>2, ServerKept
<1>4. ProcCalm
  <2>1. CASE Raise(d, "uncertain")
    BY <1>3, <2>1, Raises
  <2>2. CASE /\ Cardinality(Known(g)) = 1
             /\ proc' = [proc EXCEPT ![d].pc = "relink", ![d].run = CreatedRun(g)]
    <3>1. Known(g) # {}
      <4>1. Cardinality({}) = 0
        BY FS_EmptySet
      <4> QED
        BY <2>2, <4>1
    <3>2. CreatedRun(g) \in Known(g)
      BY <3>1 DEF CreatedRun
    <3>3. CreatedRun(g) \in RunIds /\ runs[CreatedRun(g)].gen = g /\ CreatedRun(g) \in Nat
      BY <3>2 DEF Known, RunIds
    <3>4. /\ x \in DispatcherLocals /\ x.tok = proc[d].tok /\ x.gen = g
          /\ x.pc = "relink" /\ x.run = CreatedRun(g)
      BY <1>1, <3>3 DEF DispatcherLocals
    <3>5. proc' = [proc EXCEPT ![d] = x]
      BY <2>2
    <3>6. RunIds' = RunIds /\ runs' = runs
      BY <1>2 DEF RunIds
    <3> HIDE DEF x, g
    <3> QED
      BY <1>3, <3>3, <3>4, <3>5, <3>6, OneMoves DEF g
  <2> QED
    BY <2>1, <2>2 DEF Resolve
<1>5. left' \in Nat
  BY DEF Resolve, Spend, Inv, TypeOK
<1> QED
  BY <1>2, <1>3, <1>4, <1>5, RestOfStore, RecordKept, CalmKeepsInv DEF storeVars

\* A run that is told to stop is cancelled or goes on.
LEMMA ServerCancels ==
  ASSUME runs \in Seq(FlowRun), NEW r \in RunIds, CancelAtServer(r)
  PROVE  RunsGrow /\ NobodyBegins
<1> DEFINE st == IF runs[r].st = "scheduled" THEN "cancelled" ELSE runs[r].st
           x == [runs[r] EXCEPT !.st = st]
<1>1. runs[r] \in FlowRun
  BY DEF RunIds
<1>2. x \in FlowRun /\ x.gen = runs[r].gen /\ x.worker = runs[r].worker
      /\ (runs[r].st \notin Active => x.st \notin Active)
  BY <1>1 DEF FlowRun, Active
<1>3. runs' = [runs EXCEPT ![r] = x]
  BY DEF CancelAtServer
<1> HIDE DEF x
<1> QED
  BY <1>2, <1>3, RunChanged

LEMMA StopRunStep ==
  ASSUME Inv, NEW d \in Dispatchers, StopRun(d)
  PROVE  Inv'
<1>1. UNCHANGED <<storeVars, deployment, op>>
  BY DEF StopRun
<1>2. RunsGrow /\ NobodyBegins
  <2>1. proc[d].run \in RunIds /\ runs \in Seq(FlowRun)
    BY DEF StopRun, At, Inv, TargetInv, TypeOK
  <2> QED
    BY <2>1, ServerCancels, RunsKept DEF StopRun
<1>3. ProcCalm
  BY <1>2, GoesOn, Raises DEF StopRun, PlainSteps
<1>4. left' \in Nat
  BY DEF StopRun, Spend, Inv, TypeOK
<1> QED
  BY <1>1, <1>2, <1>3, <1>4, RestOfStore, RecordKept, CalmKeepsInv DEF storeVars

\* A sweep closes cancelled work, which is not drained before.
LEMMA SweepIsCalm ==
  ASSUME Inv, RunsGrow, NEW acknowledge \in BOOLEAN, CanFinalizeCancel,
         reconcile_cancelled_submissions(acknowledge)
  PROVE  WorkCalm /\ DispatchCalm
<1> USE DEF Inv, CanFinalizeCancel, reconcile_cancelled_submissions
<1>1. dispatch \in DispatchRecord /\ (dispatch.owner # NoOwner <=> dispatch.st = "leased")
  BY DEF TypeOK
<1>2. ~Drained
  BY DEF Drained, Open
<1>3. CASE dispatch.st \in {"pending", "reconciliation_required"}
  <2>1. dispatch' = [dispatch EXCEPT !.st = "cancelled", !.waiting = FALSE]
    BY <1>3
  <2> QED
    BY <1>1, <1>2, <1>3, <2>1 DEF DispatchCalm, DispatchRecord, DispatchStatuses, LinkStatuses,
       WorkCalm, TypeOK, Open, Closed
<1>4. CASE dispatch.st \notin {"pending", "reconciliation_required"}
  <2>1. DispatchCalm
    BY <1>4, RecordKept
  <2> QED
    BY <2>1 DEF WorkCalm, TypeOK, Open, Closed
<1> QED
  BY <1>3, <1>4

LEMMA FinalizeCancelStep ==
  ASSUME Inv, NEW d \in Dispatchers, FinalizeCancel(d)
  PROVE  Inv'
<1>1. UNCHANGED <<route, deployment, runs, op, left>>
  BY DEF FinalizeCancel, remoteVars, reconcile_cancelled_submissions, storeVars
<1>2. RunsGrow /\ NobodyBegins
  BY <1>1, ServerKept
<1>3. WorkCalm /\ DispatchCalm
  BY <1>2, SweepIsCalm, RestOfStore, RecordKept DEF FinalizeCancel, storeVars
<1>4. ProcCalm
  BY <1>2, Returns DEF FinalizeCancel
<1>5. left' \in Nat
  BY <1>1 DEF Inv, TypeOK
<1> QED
  BY <1>1, <1>2, <1>3, <1>4, <1>5, CalmKeepsInv

---------------------------------------------------------------------------
(* The steps that change what the record stands for: a rearm, a claim and  *)
(* a link.  The work under a route that has drained is closed, so none of  *)
(* them happens there.                                                     *)

\* The record changes while its work is not drained.
LEMMA RecordChanges ==
  ASSUME Inv, ~Drained, proc' \in [Dispatchers -> DispatcherLocals],
         dispatch' \in DispatchRecord,
         dispatch'.owner # NoOwner <=> dispatch'.st = "leased",
         UNCHANGED <<route, held, sub, outbox, lease, attempt, deployment, runs, op, left>>
  PROVE  TypeOK' /\ ExecutionInv' /\ RouteInv' /\ OperatorInv'
<1> USE DEF Inv
<1>1. TypeOK'
  BY DEF TypeOK
<1>2. ExecutionInv'
  BY DEF ExecutionInv, RunIds
<1>3. route.st \notin {"retired"} \cup Unsubmitted
  BY DEF RouteInv
<1>4. RouteInv'
  BY <1>3 DEF RouteInv
<1>5. OperatorInv'
  BY <1>3 DEF OperatorInv, Knows
<1> QED
  BY <1>1, <1>2, <1>4, <1>5

\* A claim that is not of the record any more says nothing of its generation.
LEMMA UnleasedKeepsClaims ==
  ASSUME Inv, ProcCalm, dispatch'.st # "leased", dispatch'.token = dispatch.token
  PROVE  ClaimInv'
<1>1. \A d \in Dispatchers : proc[d] \in DispatcherLocals /\ proc'[d] \in DispatcherLocals
  BY DEF Inv, TypeOK, ProcCalm
<1>2. \A d \in Dispatchers : proc[d].tok \in Nat /\ proc'[d].tok \in Nat
  BY <1>1 DEF DispatcherLocals
<1>3. dispatch.token \in Nat
  BY DEF Inv, TypeOK, DispatchRecord
<1> QED
  BY <1>2, <1>3 DEF ClaimInv, Inv, ProcCalm, DispatcherCalm, HoldsDispatch

LEMMA TargetsKept ==
  ASSUME ProcCalm
  PROVE  TargetInv'
BY DEF TargetInv, ProcCalm, DispatcherCalm, Targeting

\* What a rearm makes of a linked or exhausted record.
LEMMA NextGenerationTyped ==
  ASSUME Inv, dispatch.st # "leased", dispatch.gen <= MaxGenerations, dispatch' = NextGeneration
  PROVE  /\ dispatch' \in DispatchRecord
         /\ (dispatch'.owner # NoOwner <=> dispatch'.st = "leased")
         /\ dispatch'.st = "pending" /\ dispatch'.run = NoRun /\ dispatch'.token = dispatch.token
         /\ LinkedInv'
<1>1. dispatch \in DispatchRecord /\ (dispatch.owner # NoOwner <=> dispatch.st = "leased")
  BY DEF Inv, TypeOK
<1>2. dispatch.gen + 1 \in 1 .. MaxGenerations + 1
  BY <1>1, DispatchAssumption DEF DispatchRecord
<1>3. /\ dispatch' \in DispatchRecord /\ dispatch'.owner = dispatch.owner
      /\ dispatch'.st = "pending" /\ dispatch'.run = NoRun /\ dispatch'.token = dispatch.token
  BY <1>1, <1>2 DEF NextGeneration, DispatchRecord, DispatchStatuses, NoRun
<1> QED
  BY <1>1, <1>3 DEF LinkedInv, LinkStatuses, NoRun

LEMMA RearmStep ==
  ASSUME Inv, NEW d \in Dispatchers, Rearm(d)
  PROVE  Inv'
<1>1. UNCHANGED <<route, held, sub, outbox, lease, attempt, deployment, runs, op, left>>
  BY DEF Rearm, remoteVars, OnlyDispatch
<1>2. RunsGrow /\ NobodyBegins
  BY <1>1, ServerKept
<1>3. ProcCalm
  BY <1>2, GoesOn DEF Rearm, PlainSteps
<1>4. left' \in Nat
  BY <1>1 DEF Inv, TypeOK
<1>5. CASE UNCHANGED dispatch
  BY <1>1, <1>2, <1>3, <1>4, <1>5, RestOfStore, RecordKept, CalmKeepsInv
<1>6. CASE CanRearm(proc[d].run) /\ rearm_dispatch
  <2>1. /\ dispatch \in DispatchRecord /\ (dispatch.owner # NoOwner <=> dispatch.st = "leased")
        /\ dispatch.st = "dispatched" /\ dispatch.gen \in Nat
        /\ ~Drained
    BY <1>6, DispatchAssumption DEF CanRearm, Drained, Open, Inv, TypeOK, DispatchRecord
  <2>2. CASE dispatch.gen >= MaxGenerations
    <3>1. dispatch' = [dispatch EXCEPT !.st = "reconciliation_required", !.waiting = FALSE]
      BY <1>6, <2>2 DEF rearm_dispatch
    <3>2. dispatch' \in DispatchRecord /\ (dispatch'.owner # NoOwner <=> dispatch'.st = "leased")
      BY <2>1, <3>1 DEF DispatchRecord, DispatchStatuses
    <3>3. dispatch'.st = "reconciliation_required" /\ dispatch'.token = dispatch.token
          /\ dispatch'.run = dispatch.run /\ dispatch'.gen = dispatch.gen
      BY <2>1, <3>1 DEF DispatchRecord
    <3>4. LinkedInv'
      BY <1>1, <2>1, <3>3 DEF LinkedInv, LinkStatuses, RunIds, Inv
    <3>5. ClaimInv' /\ TargetInv'
      BY <1>3, <3>3, UnleasedKeepsClaims, TargetsKept
    <3> QED
      BY <1>1, <1>3, <2>1, <3>2, <3>4, <3>5, RecordChanges DEF Inv, ProcCalm
  <2>3. CASE ~(dispatch.gen >= MaxGenerations)
    <3>1. dispatch' = NextGeneration
      BY <1>6, <2>3 DEF rearm_dispatch
    <3>2. dispatch.gen <= MaxGenerations
      BY <2>1, <2>3, DispatchAssumption
    <3>3. ClaimInv' /\ TargetInv'
      BY <1>3, <2>1, <3>1, <3>2, NextGenerationTyped, UnleasedKeepsClaims, TargetsKept
    <3> QED
      BY <1>1, <1>3, <2>1, <3>1, <3>2, <3>3, NextGenerationTyped, RecordChanges DEF Inv, ProcCalm
  <2> QED
    BY <2>2, <2>3
<1> QED
  BY <1>5, <1>6 DEF Rearm

\* The claimant is the only holder, and knows the generation it claimed.
LEMMA ClaimStep ==
  ASSUME Inv, NEW d \in Dispatchers, Claim(d)
  PROVE  Inv'
<1> DEFINE t == dispatch.token + 1
           g == dispatch.gen
           x == [proc[d] EXCEPT !.pc = "check", !.tok = t, !.gen = g]
<1>1. UNCHANGED <<route, held, sub, outbox, lease, attempt, deployment, runs, op, left>>
  BY DEF Claim, remoteVars, OnlyDispatch
<1>2. RunsGrow /\ NobodyBegins /\ RunIds' = RunIds
  BY <1>1, ServerKept DEF RunIds
<1>3. left' \in Nat
  BY <1>1 DEF Inv, TypeOK
<1>4. CASE Return(d) /\ UNCHANGED dispatch
  BY <1>1, <1>2, <1>3, <1>4, RestOfStore, RecordKept, Returns, CalmKeepsInv
<1>5. CASE CanClaim /\ claim_dispatch(d) /\ proc' = [proc EXCEPT ![d].pc = "check",
             ![d].tok = t, ![d].gen = g]
  <2>1. /\ dispatch \in DispatchRecord /\ (dispatch.owner # NoOwner <=> dispatch.st = "leased")
        /\ dispatch.token \in Nat /\ t \in Nat /\ g \in Nat
        /\ proc \in [Dispatchers -> DispatcherLocals] /\ d # NoOwner
    BY DispatchAssumption DEF Inv, TypeOK, DispatchRecord
  <2>2. ~Drained
    BY <1>5 DEF CanClaim, Drained
  <2>0. dispatch' = [dispatch EXCEPT !.st = "leased", !.owner = d, !.token = t, !.live = TRUE]
    BY <1>5 DEF claim_dispatch
  <2> HIDE DEF t, g
  <2>3. /\ dispatch' \in DispatchRecord
        /\ dispatch'.st = "leased" /\ dispatch'.owner = d
        /\ dispatch'.token = t
        /\ dispatch'.gen = dispatch.gen /\ dispatch'.run = dispatch.run
    BY <2>1, <2>0 DEF DispatchRecord, DispatchStatuses
  <2>4. proc[d] \in DispatcherLocals
    BY <2>1
  <2>5. /\ x \in DispatcherLocals /\ x.pc = "check" /\ x.tok = t
        /\ x.gen = g
    BY <2>1, <2>4 DEF DispatcherLocals
  <2>6. proc' = [proc EXCEPT ![d] = x]
    BY <1>5
  <2> HIDE DEF x
  <2>7. /\ proc' \in [Dispatchers -> DispatcherLocals]
        /\ proc'[d] = x
        /\ \A e \in Dispatchers \ {d} : proc'[e] = proc[e]
    BY <2>1, <2>5, <2>6
  <2>8. \A e \in Dispatchers : proc[e].tok \in Nat /\ proc[e].tok <= dispatch.token
    <3>1. \A e \in Dispatchers : proc[e] \in DispatcherLocals
      BY <2>1
    <3> QED
      BY <3>1 DEF DispatcherLocals, Inv, ClaimInv
  <2>9. ClaimInv'
    BY <2>1, <2>3, <2>5, <2>7, <2>8 DEF ClaimInv, HoldsDispatch, t, g
  <2>10. TargetInv'
    BY <1>1, <1>2, <2>5, <2>7 DEF TargetInv, Inv
  <2>11. LinkedInv'
    BY <1>1, <1>2, <2>3 DEF LinkedInv, Inv, LinkStatuses
  <2> QED
    BY <1>1, <2>1, <2>2, <2>3, <2>7, <2>9, <2>10, <2>11, RecordChanges DEF Inv
<1> QED
  BY <1>4, <1>5 DEF Claim

\* A holder links a run of its own generation, which is the record's.
LEMMA LinkKeepsInv ==
  ASSUME Inv, NEW d \in Dispatchers, CanLink(d, proc[d].tok), proc[d].pc \in {"link", "relink"},
         link_dispatch(proc[d].run), ProcCalm,
         UNCHANGED <<route, held, sub, outbox, lease, attempt, deployment, runs, op, left>>
  PROVE  Inv'
<1>1. /\ dispatch \in DispatchRecord /\ dispatch.st = "leased" /\ HoldsDispatch(d, proc[d].tok)
      /\ ~Drained
  BY DEF Inv, TypeOK, CanLink, HoldsDispatch, Drained
<1>2. proc[d].run \in RunIds /\ runs[proc[d].run].gen = proc[d].gen /\ proc[d].gen = dispatch.gen
  BY <1>1 DEF Inv, TargetInv, ClaimInv
<1>3. /\ dispatch' \in DispatchRecord /\ dispatch'.owner = NoOwner
      /\ dispatch'.st = "dispatched" /\ dispatch'.run = proc[d].run
      /\ dispatch'.gen = dispatch.gen /\ dispatch'.token = dispatch.token
  <2> DEFINE r == proc[d].run
  <2>1. r \in Nat
    BY <1>2 DEF RunIds
  <2>2. dispatch' = [dispatch EXCEPT !.st = "dispatched", !.run = r, !.owner = NoOwner,
                                     !.live = FALSE, !.waiting = FALSE, !.aged = FALSE]
    BY DEF link_dispatch
  <2> HIDE DEF r
  <2>3. /\ dispatch' \in DispatchRecord /\ dispatch'.owner = NoOwner
        /\ dispatch'.st = "dispatched" /\ dispatch'.run = r
        /\ dispatch'.gen = dispatch.gen /\ dispatch'.token = dispatch.token
    BY <1>1, <2>1, <2>2 DEF DispatchRecord, DispatchStatuses
  <2> QED
    BY <2>3 DEF r
<1>4. LinkedInv'
  BY <1>2, <1>3 DEF LinkedInv, RunIds
<1>5. ClaimInv' /\ TargetInv'
  BY <1>3, UnleasedKeepsClaims, TargetsKept
<1> QED
  BY <1>1, <1>3, <1>4, <1>5, RecordChanges DEF Inv, ProcCalm

LEMMA LinkStep ==
  ASSUME Inv, NEW d \in Dispatchers, Link(d)
  PROVE  Inv'
<1>1. UNCHANGED <<route, held, sub, outbox, lease, attempt, deployment, runs, op, left>>
  BY DEF Link, remoteVars, OnlyDispatch
<1>2. RunsGrow /\ NobodyBegins
  BY <1>1, ServerKept
<1>3. ProcCalm
  BY <1>2, Returns, Raises DEF Link
<1>4. left' \in Nat
  BY <1>1 DEF Inv, TypeOK
<1>5. CASE UNCHANGED dispatch
  BY <1>1, <1>2, <1>3, <1>4, <1>5, RestOfStore, RecordKept, CalmKeepsInv
<1> QED
  BY <1>1, <1>3, <1>5, LinkKeepsInv DEF Link, At

LEMMA LinkResolvedStep ==
  ASSUME Inv, NEW d \in Dispatchers, LinkResolved(d)
  PROVE  Inv'
<1> DEFINE x == [proc[d] EXCEPT !.pc = "stop"]
<1>1. UNCHANGED <<route, held, sub, outbox, lease, attempt, deployment, runs, op, left>>
  BY DEF LinkResolved, remoteVars, OnlyDispatch
<1>2. RunsGrow /\ NobodyBegins /\ RunIds' = RunIds
  BY <1>1, ServerKept DEF RunIds
<1>3. ProcCalm
  <2>1. CASE Raise(d, "uncertain")
    BY <1>2, <2>1, Raises
  <2>2. CASE Goto(d, "stop")
    <3>1. proc[d] \in DispatcherLocals /\ proc[d].run \in RunIds
      BY DEF Inv, TypeOK, TargetInv, LinkResolved, At
    <3>2. /\ x \in DispatcherLocals /\ x.pc = "stop" /\ x.run = proc[d].run
          /\ x.tok = proc[d].tok /\ x.gen = proc[d].gen
      BY <3>1 DEF DispatcherLocals
    <3>3. proc' = [proc EXCEPT ![d] = x]
      BY <2>2 DEF Goto
    <3> HIDE DEF x
    <3> QED
      BY <1>2, <3>1, <3>2, <3>3, OneMoves
  <2> QED
    BY <2>1, <2>2 DEF LinkResolved
<1>4. left' \in Nat
  BY <1>1 DEF Inv, TypeOK
<1>5. CASE UNCHANGED dispatch
  BY <1>1, <1>2, <1>3, <1>4, <1>5, RestOfStore, RecordKept, CalmKeepsInv
<1> QED
  BY <1>1, <1>3, <1>5, LinkKeepsInv DEF LinkResolved, At

\* One tick of a dispatcher, whatever it is at.
LEMMA DispatcherKeepsInv ==
  ASSUME Inv, NEW d \in Dispatchers, DispatcherStep(d)
  PROVE  Inv'
BY TickStep, ObserveRunStep, RearmStep, ScanStep, PrepareStep, ClaimStep, CheckSubmissionStep,
   CreateStep, LinkStep, ReleaseStep, ResolveStep, LinkResolvedStep, StopRunStep,
   FinalizeCancelStep DEF DispatcherStep

---------------------------------------------------------------------------
(* The flow runs and their workers.                                        *)

Workers == {"none", "verify", "check", "execute", "start", "run", "gone"}

LEMMA WorkerMoves ==
  ASSUME runs \in Seq(FlowRun), NEW r \in RunIds, NEW w \in Workers,
         runs' = [runs EXCEPT ![r].worker = w]
  PROVE  RunsGrow /\ (w # "run" => NobodyBegins)
<1> DEFINE x == [runs[r] EXCEPT !.worker = w]
<1>1. runs[r] \in FlowRun
  BY DEF RunIds
<1>2. x \in FlowRun /\ x.gen = runs[r].gen /\ x.st = runs[r].st /\ x.worker = w
  BY <1>1 DEF FlowRun, Workers
<1>3. runs' = [runs EXCEPT ![r] = x]
  OBVIOUS
<1> HIDE DEF x
<1> QED
  BY <1>2, <1>3, RunChanged

LEMMA WorkerIsGone ==
  ASSUME runs \in Seq(FlowRun), NEW r \in RunIds, NEW st \in {"completed", "failed"},
         WorkerEnds(r, st)
  PROVE  RunsGrow /\ NobodyBegins
<1> DEFINE s == IF runs[r].st = "deleted" THEN "deleted" ELSE st
           x == [runs[r] EXCEPT !.worker = "gone", !.st = s]
<1>1. runs[r] \in FlowRun
  BY DEF RunIds
<1>2. s \in {"completed", "failed", "deleted"}
  OBVIOUS
<1>3. runs' = [runs EXCEPT ![r] = x]
  BY <1>1 DEF WorkerEnds, FlowRun
<1> HIDE DEF s
<1>4. x \in FlowRun /\ x.gen = runs[r].gen /\ x.st \notin Active /\ x.worker = "gone"
  BY <1>1, <1>2 DEF FlowRun, Active
<1> HIDE DEF x
<1> QED
  BY <1>3, <1>4, RunChanged

\* The server gives a run another status.
LEMMA ServerMoves ==
  ASSUME runs \in Seq(FlowRun), NEW r \in RunIds, NEW st \in {"failed", "deleted"},
         runs' = [runs EXCEPT ![r].st = st]
  PROVE  RunsGrow /\ NobodyBegins
<1> DEFINE x == [runs[r] EXCEPT !.st = st]
<1>1. runs[r] \in FlowRun
  BY DEF RunIds
<1>2. x \in FlowRun /\ x.gen = runs[r].gen /\ x.st \notin Active /\ x.worker = runs[r].worker
  BY <1>1 DEF FlowRun, Active
<1>3. runs' = [runs EXCEPT ![r] = x]
  OBVIOUS
<1> HIDE DEF x
<1> QED
  BY <1>2, <1>3, RunChanged

LEMMA ServerStarts ==
  ASSUME runs \in Seq(FlowRun), NEW r \in RunIds, RunStarts(r)
  PROVE  RunsGrow /\ NobodyBegins
<1> DEFINE x == [runs[r] EXCEPT !.st = "running", !.worker = "verify"]
<1>1. runs[r] \in FlowRun /\ runs[r].st \in Active
  BY DEF RunIds, RunStarts, Active
<1>2. x \in FlowRun /\ x.gen = runs[r].gen /\ x.worker = "verify"
  BY <1>1 DEF FlowRun, Active
<1>3. runs' = [runs EXCEPT ![r] = x]
  BY DEF RunStarts
<1> HIDE DEF x
<1> QED
  BY <1>1, <1>2, <1>3, RunChanged

\* A step of the server or of a worker that leaves the store alone.
LEMMA ServerStep ==
  ASSUME Inv, RunsGrow, NobodyBegins, left' \in Nat,
         UNCHANGED <<storeVars, deployment, proc, op>>
  PROVE  Inv'
BY NobodyMoves, RestOfStore, RecordKept, CalmKeepsInv DEF storeVars

\* The host takes the lease of open work; later it ends what it took.
LEMMA FlowAcquireStep ==
  ASSUME Inv, NEW r \in RunIds, FlowAcquire(r)
  PROVE  Inv'
<1>1. runs \in Seq(FlowRun) /\ Len(runs) \in Nat /\ r \in Nat
  BY DEF Inv, TypeOK, RunIds
<1>2. RunsGrow /\ NobodyBegins
  BY <1>1, WorkerMoves, WorkerIsGone DEF FlowAcquire, Workers
<1>3. UNCHANGED <<route, held, sub, outbox, attempt, dispatch, deployment, proc, op, left>>
  BY DEF FlowAcquire
<1>4. WorkCalm
  <2>1. CASE UNCHANGED lease
    BY <1>2, <1>3, <2>1, RestOfStore
  <2>2. CASE sub = "accepted" /\ lease' = [run |-> r, live |-> TRUE]
    <3>1. r \in RunIds'
      BY <1>1, <1>2 DEF RunsGrow, RunIds
    <3> QED
      BY <1>1, <1>3, <2>2, <3>1 DEF WorkCalm, Inv, TypeOK, Open
  <2> QED
    BY <2>1, <2>2 DEF FlowAcquire
<1> QED
  BY <1>2, <1>3, <1>4, NobodyMoves, RecordKept, CalmKeepsInv DEF Inv, TypeOK

LEMMA FlowStartStep ==
  ASSUME Inv, NEW r \in RunIds, FlowStart(r)
  PROVE  Inv'
<1>1. runs \in Seq(FlowRun)
  BY DEF Inv, TypeOK
<1>2. UNCHANGED <<route, held, sub, outbox, lease, dispatch, deployment, proc, op, left>>
  BY DEF FlowStart
<1>3. CASE /\ HoldsLease(r) /\ sub = "accepted"
           /\ attempt' = "running" /\ runs' = [runs EXCEPT ![r].worker = "run"]
  <2>1. RunsGrow
    BY <1>1, <1>3, WorkerMoves DEF Workers
  <2>2. RunIds \subseteq RunIds'
    BY <1>1, <2>1 DEF RunsGrow, RunIds
  <2>3. WorkCalm
    BY <1>2, <1>3, <2>2 DEF WorkCalm, Inv, TypeOK, ExecutionInv, Open
  <2> QED
    BY <1>2, <1>3, <2>1, <2>3, NobodyMoves, RecordKept, CalmKeepsInv DEF Inv, TypeOK
<1>4. CASE WorkerEnds(r, "failed") /\ UNCHANGED attempt
  BY <1>1, <1>2, <1>4, WorkerIsGone, ServerStep DEF storeVars, Inv, TypeOK
<1> QED
  BY <1>3, <1>4 DEF FlowStart

LEMMA FlowEndsStep ==
  ASSUME Inv, NEW r \in RunIds, FlowEnds(r)
  PROVE  Inv'
<1>1. runs \in Seq(FlowRun)
  BY DEF Inv, TypeOK
<1>2. UNCHANGED <<route, held, dispatch, deployment, proc, op, left>>
  BY DEF FlowEnds
<1>3. RunsGrow /\ NobodyBegins
  <2>1. WorkerEnds(r, "completed") \/ WorkerEnds(r, "failed")
    BY DEF FlowEnds
  <2> QED
    BY <1>1, <2>1, WorkerIsGone
<1>4. WorkCalm
  <2>1. CASE UNCHANGED <<sub, outbox, lease, attempt>>
    BY <1>2, <1>3, <2>1, RestOfStore
  <2>2. CASE /\ sub \in Open
             /\ sub' \in Closed /\ attempt' = "over" /\ outbox' = FALSE
             /\ lease' = [lease EXCEPT !.live = FALSE]
    BY <1>2, <2>2 DEF WorkCalm, Inv, TypeOK
  <2> QED
    BY <2>1, <2>2 DEF FlowEnds, Closed
<1> QED
  BY <1>2, <1>3, <1>4, NobodyMoves, RecordKept, CalmKeepsInv DEF Inv, TypeOK

LEMMA FlowKeepsInv ==
  ASSUME Inv, NEW r \in RunIds,
         FlowStep(r) \/ WorkerDies(r) \/ RunCrashes(r) \/ DeleteRun(r)
  PROVE  Inv'
<1>1. runs \in Seq(FlowRun) /\ left \in Nat
  BY DEF Inv, TypeOK
<1>2. CASE RunStarts(r)
  BY <1>1, <1>2, ServerStarts, ServerStep DEF RunStarts
<1>3. CASE FlowVerify(r)
  BY <1>1, <1>3, WorkerMoves, WorkerIsGone, ServerStep DEF FlowVerify, Workers
<1>4. CASE FlowCheck(r)
  BY <1>1, <1>4, WorkerMoves, WorkerIsGone, ServerStep DEF FlowCheck, Workers
<1>5. CASE WorkerDies(r)
  <2>1. left' \in Nat
    BY <1>1, <1>5 DEF WorkerDies, Spend
  <2>2. RunsGrow /\ NobodyBegins
    BY <1>1, <1>5, WorkerMoves DEF WorkerDies, Workers
  <2> QED
    BY <1>5, <2>1, <2>2, ServerStep DEF WorkerDies
<1>6. CASE RunCrashes(r)
  BY <1>1, <1>6, ServerMoves, ServerStep DEF RunCrashes
<1>7. CASE DeleteRun(r)
  <2>1. left' \in Nat
    BY <1>1, <1>7 DEF DeleteRun, Spend
  <2>2. RunsGrow /\ NobodyBegins
    BY <1>1, <1>7, ServerMoves DEF DeleteRun
  <2> QED
    BY <1>7, <2>1, <2>2, ServerStep DEF DeleteRun
<1> QED
  BY <1>2, <1>3, <1>4, <1>5, <1>6, <1>7, FlowAcquireStep, FlowStartStep, FlowEndsStep DEF FlowStep

---------------------------------------------------------------------------
(* Clients, hosts, time and faults.                                        *)

\* Every call of a client needs an active route, or open work.
LEMMA ClientStep ==
  ASSUME Inv, Client
  PROVE  Inv'
<1>1. UNCHANGED <<route, attempt, dispatch, deployment, runs, proc, op, left>>
  BY DEF Client, remoteVars, accept, cancel_submission, reserve_execution_route_reference,
         release_execution_route_reference
<1>2. RunsGrow /\ NobodyBegins /\ RunIds' = RunIds
  BY <1>1, ServerKept DEF RunIds
<1>3. WorkCalm
  <2>1. CASE accept
    BY <1>1, <1>2, <2>1 DEF accept, WorkCalm, Inv, TypeOK, ExecutionInv, Open
  <2>2. CASE cancel_submission
    <3>1. lease'.run = lease.run /\ (lease'.live => lease.live) /\ lease' \in [run : Nat, live : BOOLEAN]
      BY <2>2 DEF cancel_submission, Inv, TypeOK
    <3> QED
      BY <1>1, <1>2, <2>2, <3>1 DEF cancel_submission, WorkCalm, Inv, TypeOK, ExecutionInv, Open
  <2>3. CASE reserve_execution_route_reference
    BY <1>1, <1>2, <2>3
    DEF reserve_execution_route_reference, WorkCalm, Inv, TypeOK, ExecutionInv
  <2>4. CASE release_execution_route_reference
    BY <1>1, <1>2, <2>4
    DEF release_execution_route_reference, WorkCalm, Inv, TypeOK, ExecutionInv
  <2> QED
    BY <2>1, <2>2, <2>3, <2>4 DEF Client
<1> QED
  BY <1>1, <1>2, <1>3, NobodyMoves, RecordKept, CalmKeepsInv DEF Inv, TypeOK

LEMMA RequestRemoteCancellationStep ==
  ASSUME Inv, RequestRemoteCancellation
  PROVE  Inv'
<1>1. dispatch.run \in RunIds /\ runs \in Seq(FlowRun) /\ left \in Nat
  BY DEF RequestRemoteCancellation, Inv, LinkedInv, LinkStatuses, TypeOK
<1> QED
  BY <1>1, ServerCancels, ServerStep DEF RequestRemoteCancellation

LEMMA HostSweepStep ==
  ASSUME Inv, HostSweep
  PROVE  Inv'
<1>1. UNCHANGED <<route, held, lease, deployment, runs, proc, op, left>>
  BY DEF HostSweep, remoteVars, reconcile_cancelled_submissions, AcknowledgeClosed
<1>2. RunsGrow /\ NobodyBegins /\ RunIds' = RunIds
  BY <1>1, ServerKept DEF RunIds
<1>3. WorkCalm /\ DispatchCalm
  <2>1. CASE CanFinalizeCancel /\ reconcile_cancelled_submissions(FALSE)
    BY <1>2, <2>1, SweepIsCalm
  <2>2. CASE AcknowledgeClosed
    <3>1. DispatchCalm
      BY <2>2, RecordKept DEF AcknowledgeClosed
    <3>2. UNCHANGED <<route, held, sub, lease, attempt>> /\ outbox' = FALSE
      BY <2>2 DEF AcknowledgeClosed
    <3>3. WorkCalm
      BY <1>2, <3>2 DEF WorkCalm, Inv, TypeOK, ExecutionInv
    <3> QED
      BY <3>1, <3>3
  <2> QED
    BY <2>1, <2>2 DEF HostSweep
<1> QED
  BY <1>1, <1>2, <1>3, NobodyMoves, CalmKeepsInv DEF Inv, TypeOK

\* Time changes nothing but deadlines.
LEMMA DeadlinesPass ==
  ASSUME Inv, NEW live \in BOOLEAN, NEW waiting \in BOOLEAN, NEW aged \in BOOLEAN,
         dispatch' = [dispatch EXCEPT !.live = live, !.waiting = waiting, !.aged = aged],
         UNCHANGED <<route, held, sub, outbox, lease, attempt, deployment, runs, proc, op>>,
         left' \in Nat
  PROVE  Inv'
<1>1. RunsGrow /\ NobodyBegins
  BY ServerKept
<1>2. dispatch \in DispatchRecord /\ (dispatch.owner # NoOwner <=> dispatch.st = "leased")
  BY DEF Inv, TypeOK
<1>3. DispatchCalm
  BY <1>2 DEF DispatchCalm, DispatchRecord, Drained
<1> QED
  BY <1>1, <1>3, NobodyMoves, RestOfStore, CalmKeepsInv

LEMMA TimeStep ==
  ASSUME Inv, ExpireAbandoned \/ ExpireUnderWork \/ TimePasses
  PROVE  Inv'
<1>1. UNCHANGED <<route, held, sub, outbox, lease, attempt, deployment, runs, proc, op>>
  BY DEF ExpireAbandoned, ExpireUnderWork, TimePasses, LeaseRunsOut, OnlyDispatch, remoteVars
<1>2. left' \in Nat
  BY DEF ExpireAbandoned, ExpireUnderWork, TimePasses, Spend, Inv, TypeOK
<1>3. dispatch \in DispatchRecord /\ dispatch.live \in BOOLEAN
      /\ dispatch.waiting \in BOOLEAN /\ dispatch.aged \in BOOLEAN
  BY DEF Inv, TypeOK, DispatchRecord
<1>4. CASE LeaseRunsOut
  <2>1. dispatch' = [dispatch EXCEPT !.live = FALSE, !.waiting = dispatch.waiting,
                                     !.aged = dispatch.aged]
    BY <1>3, <1>4 DEF LeaseRunsOut, DispatchRecord
  <2> QED
    BY <1>1, <1>2, <1>3, <2>1, DeadlinesPass
<1>5. CASE TimePasses
  <2>1. dispatch' = [dispatch EXCEPT !.live = dispatch.live, !.waiting = FALSE,
                                     !.aged = dispatch.st = "dispatched"]
    BY <1>3, <1>5 DEF TimePasses, DispatchRecord
  <2> QED
    BY <1>1, <1>2, <1>3, <2>1, DeadlinesPass
<1> QED
  BY <1>4, <1>5 DEF ExpireAbandoned, ExpireUnderWork

LEMMA ExpireLeaseStep ==
  ASSUME Inv, ExpireLease
  PROVE  Inv'
<1>1. UNCHANGED <<route, held, sub, outbox, attempt, dispatch, deployment, runs, proc, op, left>>
  BY DEF ExpireLease, remoteVars
<1>2. RunsGrow /\ NobodyBegins
  BY <1>1, ServerKept
<1>3. WorkCalm
  <2>1. lease' \in [run : Nat, live : BOOLEAN] /\ ~lease'.live
    BY DEF ExpireLease, Inv, TypeOK
  <2> QED
    BY <1>1, <2>1 DEF WorkCalm, Inv, TypeOK
<1> QED
  BY <1>1, <1>2, <1>3, NobodyMoves, RecordKept, CalmKeepsInv DEF Inv, TypeOK

\* An operator orders a new generation for work that nobody executed.
LEMMA RearmExhaustedStep ==
  ASSUME Inv, RearmExhausted
  PROVE  Inv'
<1>1. UNCHANGED <<route, held, sub, outbox, lease, attempt, deployment, runs, proc, op, left>>
  BY DEF RearmExhausted, remoteVars, OnlyDispatch
<1>2. /\ dispatch' = NextGeneration /\ dispatch.gen <= MaxGenerations
      /\ dispatch.st = "reconciliation_required" /\ ~Drained
  BY DispatchAssumption
  DEF RearmExhausted, rearm_reconciliation_required_dispatch, Drained, Open
<1>3. ProcCalm
  BY <1>1, ServerKept, NobodyMoves
<1>4. ClaimInv' /\ TargetInv'
  BY <1>2, <1>3, NextGenerationTyped, UnleasedKeepsClaims, TargetsKept
<1> QED
  BY <1>1, <1>2, <1>3, <1>4, NextGenerationTyped, RecordChanges DEF Inv, ProcCalm

---------------------------------------------------------------------------
(* The operators.                                                          *)

\* An operator goes on, and the route stays.
LEMMA OperatorMoves ==
  ASSUME Inv, NEW o \in Operators, NEW x \in OperatorLocals, Knows(x),
         op' = [op EXCEPT ![o] = x],
         deployment' \in {"active", "paused", "deleted"},
         deployment' = "deleted" => route.st \in Unsubmitted,
         UNCHANGED <<storeVars, runs, proc>>, left' \in Nat
  PROVE  Inv'
<1> USE DEF Inv, storeVars
<1>1. op \in [Operators -> OperatorLocals]
  BY DEF TypeOK
<1>2. /\ op' \in [Operators -> OperatorLocals] /\ op'[o] = x
      /\ \A p \in Operators \ {o} : op'[p] = op[p]
  BY <1>1
<1>3. TypeOK'
  BY <1>2 DEF TypeOK
<1>4. LinkedInv' /\ ClaimInv' /\ TargetInv' /\ ExecutionInv'
  BY DEF LinkedInv, ClaimInv, TargetInv, ExecutionInv, RunIds, HoldsDispatch
<1>5. (Drained <=> Drained') /\ (LinkedEnded <=> LinkedEnded')
  BY DEF Drained, LinkedEnded
<1>6. RouteInv'
  BY <1>5 DEF RouteInv
<1>7. \A p \in Operators : Knows(op'[p])
  BY <1>2 DEF OperatorInv
<1>8. OperatorInv'
  BY <1>5, <1>7 DEF OperatorInv, Knows
<1> QED
  BY <1>3, <1>4, <1>6, <1>8

\* The route moves by an allowed transition; no other operator has the new
\* revision.
LEMMA RouteMoves ==
  ASSUME Inv, NEW o \in Operators, NEW status \in RouteStatuses, NEW pc,
         MoveRoute(o, status, pc), OnlyRoute,
         UNCHANGED <<deployment, runs, proc>>, left' \in Nat,
         status = "retired" => LinkedEnded,
         [pc |-> pc, st |-> status, rev |-> route.rev + 1] \in OperatorLocals,
         status \in ReadAt(pc),
         pc \in {"pause", "confirm", "retire"} => Drained /\ ~held,
         pc \in {"confirm", "retire"} => LinkedEnded
  PROVE  Inv'
<1> USE DEF Inv
<1> DEFINE x == [pc |-> pc, st |-> status, rev |-> route.rev + 1]
<1>1. /\ op \in [Operators -> OperatorLocals]
      /\ route \in [st : RouteStatuses, rev : Nat] /\ route.rev \in Nat
  BY DEF TypeOK
<1>2. /\ route' = [st |-> status, rev |-> route.rev + 1]
      /\ op' = [op EXCEPT ![o] = x]
      /\ CanTransition(op[o].rev, status)
  BY DEF MoveRoute, transition_execution_route_state
<1>3. /\ op' \in [Operators -> OperatorLocals] /\ op'[o] = x
      /\ \A p \in Operators \ {o} : op'[p] = op[p]
  BY <1>1, <1>2
<1>4. x.pc = pc /\ x.st = status /\ x.rev = route.rev + 1
  OBVIOUS
<1> HIDE DEF x
<1>5. route'.st = status /\ route'.rev = route.rev + 1 /\ route' \in [st : RouteStatuses, rev : Nat]
  BY <1>1, <1>2
<1>6. UNCHANGED <<held, sub, outbox, lease, attempt, dispatch>>
  BY DEF OnlyRoute
<1>7. TypeOK'
  BY <1>3, <1>5, <1>6 DEF TypeOK
<1>8. LinkedInv' /\ ClaimInv' /\ TargetInv' /\ ExecutionInv'
  BY <1>6 DEF LinkedInv, ClaimInv, TargetInv, ExecutionInv, RunIds, HoldsDispatch
<1>9. (Drained <=> Drained') /\ (LinkedEnded <=> LinkedEnded')
  BY <1>6 DEF Drained, LinkedEnded
<1>10. <<route.st, status>> \in Allowed
  BY <1>2 DEF CanTransition
<1>11. route.st \in Unsubmitted => status \in Unsubmitted
  BY <1>10 DEF Allowed, Unsubmitted
<1>12. RouteInv'
  BY <1>2, <1>5, <1>6, <1>9, <1>10, <1>11 DEF RouteInv, CanTransition, Allowed, Unsubmitted
<1>13. Knows(op[o])'
  BY <1>1, <1>3, <1>4, <1>5, <1>6, <1>9 DEF Knows, Unsubmitted
<1>14. ASSUME NEW p \in Operators \ {o}
       PROVE  Knows(op[p])'
  <2>1. op[p] \in OperatorLocals /\ op[p].rev <= route.rev /\ op'[p] = op[p]
    BY <1>1, <1>3 DEF OperatorInv, Knows
  <2>2. op[p].rev \in Nat
    BY <2>1 DEF OperatorLocals
  <2> QED
    BY <1>1, <1>5, <1>11, <2>1, <2>2 DEF OperatorInv, Knows
<1> QED
  BY <1>7, <1>8, <1>12, <1>13, <1>14 DEF OperatorInv

LEMMA OperatorReturns ==
  ASSUME Inv, NEW o \in Operators, OpReturn(o),
         deployment' \in {"active", "paused", "deleted"},
         deployment' = "deleted" => route.st \in Unsubmitted,
         UNCHANGED <<storeVars, runs, proc>>, left' \in Nat
  PROVE  Inv'
<1>1. /\ AtRest \in OperatorLocals /\ AtRest.pc = "idle" /\ AtRest.rev = 0
      /\ AtRest.st = "none"
  BY DEF AtRest, OperatorLocals
<1>2. route.rev \in Nat
  BY DEF Inv, TypeOK
<1>3. Knows(AtRest)
  BY <1>1, <1>2 DEF Knows, ReadAt
<1> QED
  BY <1>1, <1>3, OperatorMoves DEF OpReturn

Steps == {"drain", "pause", "confirm", "retire", "repause", "resume", "resumed", "reopen",
          "unused", "fence", "delete", "clean"}

\* An operator goes on with what it read.
LEMMA OperatorGoesOn ==
  ASSUME Inv, NEW o \in Operators, NEW pc \in Steps, OpGoto(o, pc), op[o].pc # "idle",
         deployment' \in {"active", "paused", "deleted"},
         deployment' = "deleted" => route.st \in Unsubmitted,
         UNCHANGED <<storeVars, runs, proc>>, left' \in Nat,
         op[o].st \in ReadAt(pc),
         pc \in {"pause", "confirm", "retire"} => op[o].pc \in {"pause", "confirm", "retire"},
         pc \in {"confirm", "retire"} /\ op[o].rev = route.rev => LinkedEnded
  PROVE  Inv'
<1> DEFINE x == [op[o] EXCEPT !.pc = pc]
<1>1. op[o] \in OperatorLocals /\ Knows(op[o])
  BY DEF Inv, TypeOK, OperatorInv
<1>2. x \in OperatorLocals /\ x.pc = pc /\ x.st = op[o].st /\ x.rev = op[o].rev
  BY <1>1 DEF OperatorLocals, Steps
<1>3. op' = [op EXCEPT ![o] = x]
  BY DEF OpGoto
<1> HIDE DEF x
<1>4. Knows(x)
  BY <1>1, <1>2 DEF Knows, Steps
<1> QED
  BY <1>2, <1>3, <1>4, OperatorMoves

\* An operator reads the lifecycle of the route.
LEMMA OperatorReads ==
  ASSUME Inv, NEW o \in Operators, NEW pc \in Steps \ {"confirm", "retire"},
         ReadLifecycle(o, pc), UNCHANGED <<storeVars, deployment, runs, proc, left>>,
         route.st \in ReadAt(pc), pc = "pause" => Drained /\ ~held
  PROVE  Inv'
<1> DEFINE x == [pc |-> pc, st |-> route.st, rev |-> route.rev]
<1>1. route.st \in RouteStatuses /\ route.rev \in Nat
  BY DEF Inv, TypeOK
<1>2. x \in OperatorLocals /\ x.pc = pc /\ x.st = route.st /\ x.rev = route.rev
  BY <1>1 DEF OperatorLocals, Steps
<1>3. op' = [op EXCEPT ![o] = x]
  BY DEF ReadLifecycle
<1> HIDE DEF x
<1>4. Knows(x)
  BY <1>1, <1>2 DEF Knows, Unsubmitted
<1> QED
  BY <1>2, <1>3, <1>4, OperatorMoves DEF Inv, TypeOK, RouteInv

\* An operator that does not get on drops what it read or reads it again.
LEMMA RetiringPlace ==
  ASSUME NEW status
  PROVE  /\ Retiring(status) \in {"drain", "pause", "repause", "idle"}
         /\ Retiring(status) = "drain" => status = "active"
         /\ Retiring(status) = "pause" => status = "draining" /\ Drained /\ ~held
         /\ Retiring(status) = "repause" => status = "retired"
BY DEF Retiring

LEMMA ReadsAndRetires ==
  ASSUME Inv, NEW o \in Operators, ReadLifecycle(o, Retiring(route.st)),
         UNCHANGED <<storeVars, deployment, runs, proc, left>>
  PROVE  Inv'
<1> DEFINE pc == Retiring(route.st)
<1>1. /\ pc \in {"drain", "pause", "repause", "idle"}
      /\ pc = "drain" => route.st = "active"
      /\ pc = "pause" => route.st = "draining" /\ Drained /\ ~held
      /\ pc = "repause" => route.st = "retired"
  BY RetiringPlace
<1>2. ReadLifecycle(o, pc)
  OBVIOUS
<1> HIDE DEF pc
<1>3. CASE pc = "idle"
  <2> DEFINE x == [pc |-> "idle", st |-> route.st, rev |-> route.rev]
  <2>1. route.st \in RouteStatuses /\ route.rev \in Nat
    BY DEF Inv, TypeOK
  <2>2. x \in OperatorLocals /\ x.pc = "idle" /\ x.st = route.st /\ x.rev = route.rev
    BY <2>1 DEF OperatorLocals
  <2>3. op' = [op EXCEPT ![o] = x]
    BY <1>2, <1>3 DEF ReadLifecycle
  <2> HIDE DEF x
  <2>4. Knows(x)
    BY <2>1, <2>2 DEF Knows, ReadAt
  <2> QED
    BY <2>2, <2>3, <2>4, OperatorMoves DEF Inv, TypeOK, RouteInv
<1>4. CASE pc # "idle"
  <2>1. pc \in Steps \ {"confirm", "retire"} /\ route.st \in ReadAt(pc)
    BY <1>1, <1>4 DEF Steps, ReadAt
  <2> QED
    BY <1>1, <1>2, <2>1, OperatorReads
<1> QED
  BY <1>3, <1>4

\* What an operator knows when it is about to move the route.
LEMMA MoverKnows ==
  ASSUME Inv, NEW o \in Operators, NEW status, NEW pc, MoveRoute(o, status, pc)
  PROVE  op[o].rev = route.rev /\ Knows(op[o])
BY DEF MoveRoute, CanTransition, Inv, OperatorInv

LEMMA MovedLocals ==
  ASSUME Inv, NEW status \in RouteStatuses, NEW pc \in Steps \cup {"idle"}
  PROVE  [pc |-> pc, st |-> status, rev |-> route.rev + 1] \in OperatorLocals
<1>1. route.rev \in Nat
  BY DEF Inv, TypeOK
<1> QED
  BY <1>1 DEF OperatorLocals, Steps

LEMMA PausedStays ==
  ASSUME Inv, Pause
  PROVE  /\ deployment' \in {"active", "paused", "deleted"}
         /\ deployment' = "deleted" => route.st \in Unsubmitted
BY DEF Pause, Inv, TypeOK, RouteInv

\* retire, step by step.
LEMMA RetirementKeepsInv ==
  ASSUME Inv, NEW o \in Operators,
         \/ retire(o) \/ DrainRoute(o) \/ PauseDeployment(o) \/ ConfirmQuiet(o)
         \/ RetireRoute(o) \/ RepauseRetired(o)
  PROVE  Inv'
<1>1. /\ left \in Nat /\ deployment \in {"active", "paused", "deleted"}
      /\ (deployment = "deleted" => route.st \in Unsubmitted)
      /\ Knows(op[o])
  BY DEF Inv, TypeOK, RouteInv, OperatorInv
<1>3. ASSUME retire(o)
      PROVE  Inv'
  BY <1>3, ReadsAndRetires DEF retire, remoteVars
<1>4. ASSUME DrainRoute(o)
      PROVE  Inv'
  <2>1. UNCHANGED <<deployment, runs, proc, left>> /\ OnlyRoute
    BY <1>4 DEF DrainRoute, remoteVars
  <2>2. CASE MoveRoute(o, "draining", Retiring("draining"))
    <3>1. /\ Retiring("draining") \in {"pause", "idle"}
          /\ Retiring("draining") = "pause" => Drained /\ ~held
      BY RetiringPlace
    <3>2. "draining" \in ReadAt(Retiring("draining"))
      BY <3>1 DEF ReadAt, RouteStatuses
    <3>3. "draining" \in RouteStatuses /\ Retiring("draining") \in Steps \cup {"idle"}
      BY <3>1 DEF Steps, RouteStatuses
    <3> QED
      BY <1>1, <2>1, <2>2, <3>1, <3>2, <3>3, MovedLocals, RouteMoves
  <2>3. CASE Refused(o, "draining")
    BY <1>1, <1>4, <2>1, <2>3, ReadsAndRetires, OperatorReturns
    DEF DrainRoute, Refused, OnlyRoute, storeVars, MoveRoute
  <2> QED
    BY <1>4, <2>2, <2>3 DEF DrainRoute
<1>5. ASSUME PauseDeployment(o)
      PROVE  Inv'
  <2>1. UNCHANGED <<storeVars, runs, proc, left>> /\ op[o].pc = "pause"
    BY <1>5 DEF PauseDeployment, OpAt
  <2>2. CASE ActiveRuns = {} /\ Pause /\ OpGoto(o, "confirm")
    <3>1. dispatch.st = "dispatched" => dispatch.run \in RunIds
      BY DEF Inv, LinkedInv, LinkStatuses
    <3>2. LinkedEnded
      BY <2>2, <3>1 DEF LinkedEnded, ActiveRuns
    <3>3. "confirm" \in Steps /\ op[o].st \in ReadAt("confirm")
      BY <1>1, <2>1 DEF Steps, Knows, ReadAt
    <3> QED
      BY <1>1, <2>1, <2>2, <3>2, <3>3, PausedStays, OperatorGoesOn
  <2>3. CASE UNCHANGED deployment /\ OpReturn(o)
    BY <1>1, <2>1, <2>3, OperatorReturns
  <2> QED
    BY <1>5, <2>2, <2>3 DEF PauseDeployment
<1>6. ASSUME ConfirmQuiet(o)
      PROVE  Inv'
  <2>1. UNCHANGED <<storeVars, deployment, runs, proc, left>> /\ op[o].pc = "confirm"
    BY <1>6 DEF ConfirmQuiet, OpAt, remoteVars
  <2>2. "retire" \in Steps /\ op[o].st \in ReadAt("retire")
        /\ (op[o].rev = route.rev => LinkedEnded)
    BY <1>1, <2>1 DEF Steps, Knows, ReadAt
  <2> QED
    BY <1>1, <1>6, <2>1, <2>2, OperatorGoesOn, OperatorReturns DEF ConfirmQuiet
<1>7. ASSUME RetireRoute(o)
      PROVE  Inv'
  <2>1. UNCHANGED <<deployment, runs, proc, left>> /\ OnlyRoute /\ op[o].pc = "retire"
    BY <1>7 DEF RetireRoute, remoteVars, OpAt
  <2>2. CASE MoveRoute(o, "retired", "idle")
    <3>1. LinkedEnded
      BY <2>1, <2>2, MoverKnows DEF Knows
    <3>2. "retired" \in RouteStatuses /\ "retired" \in ReadAt("idle")
      BY DEF RouteStatuses, ReadAt
    <3> QED
      BY <1>1, <2>1, <2>2, <3>1, <3>2, MovedLocals, RouteMoves
  <2>3. CASE UNCHANGED route /\ ReadLifecycle(o, "repause") /\ route.st = "retired"
    <3>1. "repause" \in Steps \ {"confirm", "retire"} /\ route.st \in ReadAt("repause")
      BY <2>3 DEF Steps, ReadAt
    <3> QED
      BY <2>1, <2>3, <3>1, OperatorReads DEF OnlyRoute, storeVars
  <2>4. CASE UNCHANGED route /\ OpReturn(o)
    BY <1>1, <2>1, <2>4, OperatorReturns DEF OnlyRoute, storeVars
  <2> QED
    BY <1>7, <2>2, <2>3, <2>4 DEF RetireRoute, Refused
<1>8. ASSUME RepauseRetired(o)
      PROVE  Inv'
  BY <1>1, <1>8, PausedStays, OperatorReturns DEF RepauseRetired
<1> QED
  BY <1>3, <1>4, <1>5, <1>6, <1>7, <1>8

\* reactivate, step by step.
LEMMA ReactivationKeepsInv ==
  ASSUME Inv, NEW o \in Operators,
         reactivate(o) \/ ResumeDeployment(o) \/ ConfirmResumed(o) \/ ReopenRoute(o)
  PROVE  Inv'
<1>1. /\ left \in Nat /\ deployment \in {"active", "paused", "deleted"}
      /\ (deployment = "deleted" => route.st \in Unsubmitted)
      /\ Knows(op[o])
  BY DEF Inv, TypeOK, RouteInv, OperatorInv
<1>2. ASSUME reactivate(o)
      PROVE  Inv'
  <2>1. "resume" \in Steps \ {"confirm", "retire"} /\ route.st \in ReadAt("resume")
    BY <1>2 DEF reactivate, Steps, ReadAt
  <2> QED
    BY <1>2, <2>1, OperatorReads DEF reactivate, remoteVars
<1>3. ASSUME ResumeDeployment(o)
      PROVE  Inv'
  <2>1. UNCHANGED <<storeVars, runs, proc, left>> /\ op[o].pc = "resume"
    BY <1>3 DEF ResumeDeployment, OpAt
  <2>2. "resumed" \in Steps /\ op[o].st \in ReadAt("resumed")
    BY <1>1, <2>1 DEF Steps, Knows, ReadAt
  <2> QED
    BY <1>1, <1>3, <2>1, <2>2, OperatorGoesOn, OperatorReturns DEF ResumeDeployment
<1>4. ASSUME ConfirmResumed(o)
      PROVE  Inv'
  <2>1. UNCHANGED <<storeVars, deployment, runs, proc, left>> /\ op[o].pc = "resumed"
    BY <1>4 DEF ConfirmResumed, OpAt, remoteVars
  <2>2. "reopen" \in Steps /\ (op[o].st # "active" => op[o].st \in ReadAt("reopen"))
    BY <1>1, <2>1 DEF Steps, Knows, ReadAt
  <2> QED
    BY <1>1, <1>4, <2>1, <2>2, OperatorGoesOn, OperatorReturns DEF ConfirmResumed
<1>5. ASSUME ReopenRoute(o)
      PROVE  Inv'
  <2>1. UNCHANGED <<deployment, runs, proc, left>> /\ OnlyRoute
    BY <1>5 DEF ReopenRoute, remoteVars
  <2>2. "active" \in RouteStatuses /\ "active" \in ReadAt("idle")
    BY DEF RouteStatuses, ReadAt
  <2>3. CASE MoveRoute(o, "active", "idle")
    BY <1>1, <2>1, <2>2, <2>3, MovedLocals, RouteMoves
  <2>4. CASE UNCHANGED route /\ OpReturn(o)
    BY <1>1, <2>1, <2>4, OperatorReturns DEF OnlyRoute, storeVars
  <2> QED
    BY <1>5, <2>3, <2>4 DEF ReopenRoute, Refused
<1> QED
  BY <1>2, <1>3, <1>4, <1>5

\* cleanup, step by step: the deployment goes only after the fence.
LEMMA CleanupKeepsInv ==
  ASSUME Inv, NEW o \in Operators,
         cleanup(o) \/ VerifyUnused(o) \/ FenceCleanup(o) \/ DeleteDeployment(o) \/ CleanRoute(o)
  PROVE  Inv'
<1>1. /\ left \in Nat /\ deployment \in {"active", "paused", "deleted"}
      /\ (deployment = "deleted" => route.st \in Unsubmitted)
      /\ Knows(op[o])
  BY DEF Inv, TypeOK, RouteInv, OperatorInv
<1>2. ASSUME cleanup(o)
      PROVE  Inv'
  <2>1. "unused" \in Steps \ {"confirm", "retire"} /\ route.st \in ReadAt("unused")
    BY <1>2 DEF cleanup, Steps, ReadAt
  <2> QED
    BY <1>2, <2>1, OperatorReads DEF cleanup, remoteVars
<1>3. ASSUME VerifyUnused(o)
      PROVE  Inv'
  <2>1. UNCHANGED <<storeVars, runs, proc, left>> /\ op[o].pc = "unused" /\ Pause
    BY <1>3 DEF VerifyUnused, OpAt
  <2>2. op[o].st \in {"retired", "cleanup_pending"}
    BY <1>1, <2>1 DEF Knows, ReadAt
  <2>3. CASE OpReturn(o)
    BY <1>1, <2>1, <2>3, PausedStays, OperatorReturns
  <2>4. CASE op[o].st = "retired" /\ OpGoto(o, "fence")
    <3>1. "fence" \in Steps /\ op[o].st \in ReadAt("fence")
      BY <2>4 DEF Steps, ReadAt
    <3> QED
      BY <1>1, <2>1, <2>4, <3>1, PausedStays, OperatorGoesOn
  <2>5. CASE op[o].st = "cleanup_pending" /\ OpGoto(o, "delete")
    <3>1. "delete" \in Steps /\ op[o].st \in ReadAt("delete")
      BY <2>5 DEF Steps, ReadAt
    <3> QED
      BY <1>1, <2>1, <2>5, <3>1, PausedStays, OperatorGoesOn
  <2> QED
    BY <1>3, <2>2, <2>3, <2>4, <2>5 DEF VerifyUnused
<1>4. ASSUME FenceCleanup(o)
      PROVE  Inv'
  <2>1. UNCHANGED <<deployment, runs, proc, left>> /\ OnlyRoute
    BY <1>4 DEF FenceCleanup, remoteVars
  <2>2. /\ "cleanup_pending" \in RouteStatuses /\ "cleanup_pending" \in ReadAt("unused")
        /\ "unused" \in Steps \ {"confirm", "retire"}
    BY DEF RouteStatuses, ReadAt, Steps
  <2>3. CASE MoveRoute(o, "cleanup_pending", "unused")
    BY <1>1, <2>1, <2>2, <2>3, MovedLocals, RouteMoves
  <2>4. CASE UNCHANGED route /\ ReadLifecycle(o, "unused") /\ route.st = "cleanup_pending"
    BY <2>1, <2>2, <2>4, OperatorReads DEF OnlyRoute, storeVars
  <2>5. CASE UNCHANGED route /\ OpReturn(o)
    BY <1>1, <2>1, <2>5, OperatorReturns DEF OnlyRoute, storeVars
  <2> QED
    BY <1>4, <2>3, <2>4, <2>5 DEF FenceCleanup, Refused
<1>5. ASSUME DeleteDeployment(o)
      PROVE  Inv'
  <2>1. /\ UNCHANGED <<storeVars, runs, proc, left>> /\ op[o].pc = "delete"
        /\ deployment' = "deleted" /\ OpGoto(o, "clean")
    BY <1>5 DEF DeleteDeployment, OpAt
  <2>2. op[o].st = "cleanup_pending" /\ route.st \in Unsubmitted
    BY <1>1, <2>1 DEF Knows, ReadAt
  <2>3. "clean" \in Steps /\ op[o].st \in ReadAt("clean")
    BY <2>2 DEF Steps, ReadAt
  <2> QED
    BY <1>1, <2>1, <2>2, <2>3, OperatorGoesOn
<1>6. ASSUME CleanRoute(o)
      PROVE  Inv'
  <2>1. UNCHANGED <<deployment, runs, proc, left>> /\ OnlyRoute
    BY <1>6 DEF CleanRoute, remoteVars
  <2>2. "cleaned" \in RouteStatuses /\ "cleaned" \in ReadAt("idle")
    BY DEF RouteStatuses, ReadAt
  <2>3. CASE MoveRoute(o, "cleaned", "idle")
    BY <1>1, <2>1, <2>2, <2>3, MovedLocals, RouteMoves
  <2>4. CASE UNCHANGED route /\ OpReturn(o)
    BY <1>1, <2>1, <2>4, OperatorReturns DEF OnlyRoute, storeVars
  <2> QED
    BY <1>6, <2>3, <2>4 DEF CleanRoute, Refused
<1> QED
  BY <1>2, <1>3, <1>4, <1>5, <1>6

\* A dispatcher or an operator that dies forgets what it knew.
LEMMA CrashStep ==
  ASSUME Inv, Crash
  PROVE  Inv'
<1>1. UNCHANGED <<storeVars, deployment, runs>> /\ left' \in Nat
  BY DEF Crash, remoteVars, Spend, Inv, TypeOK
<1>2. RunsGrow /\ NobodyBegins
  BY <1>1, ServerKept
<1>3. CASE \E d \in Dispatchers : Return(d) /\ UNCHANGED op
  BY <1>1, <1>2, <1>3, Returns, RestOfStore, RecordKept, CalmKeepsInv DEF storeVars
<1>4. CASE \E o \in Operators : OpReturn(o) /\ UNCHANGED proc
  BY <1>1, <1>4, OperatorReturns DEF Inv, TypeOK, RouteInv
<1> QED
  BY <1>3, <1>4 DEF Crash

---------------------------------------------------------------------------
(* The theorems.                                                           *)

LEMMA InitInv == Init => Inv
<1> SUFFICES ASSUME Init PROVE Inv
  OBVIOUS
<1> USE DEF Init, InitStore, NoDispatch, NoRun
<1>1. TypeOK
  <2>1. Idle \in DispatcherLocals /\ AtRest \in OperatorLocals
    BY DEF Idle, AtRest, DispatcherLocals, OperatorLocals, DispatchStatuses
  <2>2. NoDispatch \in DispatchRecord
    BY DispatchAssumption DEF DispatchRecord, DispatchStatuses
  <2>3. left \in Nat
    BY BoundAssumption
  <2>4. route \in [st : RouteStatuses, rev : Nat] /\ lease \in [run : Nat, live : BOOLEAN]
    BY DEF RouteStatuses
  <2>5. dispatch \in DispatchRecord /\ (dispatch.owner # NoOwner <=> dispatch.st = "leased")
    BY <2>2
  <2>6. runs \in Seq(FlowRun)
    OBVIOUS
  <2>7. proc \in [Dispatchers -> DispatcherLocals] /\ op \in [Operators -> OperatorLocals]
    BY <2>1
  <2> QED
    BY <2>3, <2>4, <2>5, <2>6, <2>7 DEF TypeOK
<1>2. LinkedInv /\ ExecutionInv
  BY DEF LinkedInv, LinkStatuses, ExecutionInv, RunIds
<1>3. ClaimInv /\ TargetInv
  BY DEF ClaimInv, TargetInv, HoldsDispatch, Idle
<1>4. RouteInv
  BY DEF RouteInv, Unsubmitted
<1>5. OperatorInv
  <2>1. Knows(AtRest)
    BY DEF Knows, AtRest, ReadAt
  <2> QED
    BY <2>1 DEF OperatorInv
<1> QED
  BY <1>1, <1>2, <1>3, <1>4, <1>5 DEF Inv

LEMMA StepKeepsInv == Inv /\ [Next]_vars => Inv'
<1> SUFFICES ASSUME Inv, [Next]_vars PROVE Inv'
  OBVIOUS
<1>1. CASE UNCHANGED vars
  <2>1. UNCHANGED <<storeVars, deployment, runs, proc, op, left>>
    BY <1>1 DEF vars
  <2> QED
    BY <2>1, ServerKept, ServerStep DEF Inv, TypeOK
<1>2. ASSUME NEW o \in Operators, OperatorStep(o)
      PROVE  Inv'
  BY <1>2, RetirementKeepsInv, ReactivationKeepsInv, CleanupKeepsInv DEF OperatorStep
<1> QED
  BY <1>1, <1>2, DispatcherKeepsInv, FlowKeepsInv, RearmExhaustedStep, ClientStep,
     RequestRemoteCancellationStep, HostSweepStep, TimeStep, ExpireLeaseStep, CrashStep DEF Next

\* The route's state is well typed, and so is what every dispatcher, operator
\* and flow run remembers (all of RouteDispatch).
THEOREM RouteTypeCorrect == Spec => []TypeOK
<1>1. Inv => TypeOK
  BY DEF Inv
<1> QED
  BY <1>1, InitInv, StepKeepsInv, PTL DEF Spec

\* A dispatch is linked to a run of its own generation, whatever dispatchers
\* crash, are overtaken or lose an answer between claim_dispatch, the create
\* and link_dispatch.
THEOREM LinkCurrency == Spec => []LinkedIsCurrent
<1>1. Inv => LinkedIsCurrent
  BY DEF Inv, LinkedInv, LinkStatuses, LinkedIsCurrent
<1> QED
  BY <1>1, InitInv, StepKeepsInv, PTL DEF Spec

\* A retired route is quiet: what retire saw of the store and of the linked run
\* still holds when transition_execution_route_state moves the route, and until
\* it is reactivated.
THEOREM RetirementQuiet == Spec => []RetiredIsQuiet
<1>1. Inv => RetiredIsQuiet
  BY DEF Inv, RouteInv, Unsubmitted, ExecutionInv, Drained, LinkedEnded, HoldsDispatch,
         RetiredIsQuiet
<1> QED
  BY <1>1, InitInv, StepKeepsInv, PTL DEF Spec

\* A deployment is deleted only behind the fence of cleanup_pending, which no
\* accept and no reactivation passes.
THEOREM DeletionSafe == Spec => []DeletedIsUnused
<1>1. Inv => DeletedIsUnused
  BY DEF Inv, RouteInv, Unsubmitted, DeletedIsUnused
<1> QED
  BY <1>1, InitInv, StepKeepsInv, PTL DEF Spec

\* Only the two rearms open a generation, and both look at the attempt.
LEMMA RearmsLook ==
  ASSUME Inv, Next, dispatch'.gen # dispatch.gen
  PROVE  attempt = "none"
<1> USE DEF Inv, OnlyDispatch, OnlyRoute, storeVars
<1>1. dispatch \in DispatchRecord
  BY DEF TypeOK
<1>2. ASSUME NEW d \in Dispatchers, DispatcherStep(d)
      PROVE  attempt = "none"
  <2>1. ASSUME tick(d) \/ ObserveRun(d) \/ Scan(d) \/ CheckSubmission(d) \/ Create(d)
               \/ Resolve(d) \/ StopRun(d)
        PROVE  FALSE
    BY <2>1 DEF tick, ObserveRun, Scan, CheckSubmission, Create, Resolve, StopRun
  <2>2. ASSUME Prepare(d) \/ Release(d)
        PROVE  FALSE
    BY <1>1, <2>2 DEF Prepare, prepare_dispatch, Release, release_dispatch, DispatchRecord
  <2>3. ASSUME Claim(d) \/ Link(d) \/ LinkResolved(d)
        PROVE  FALSE
    BY <1>1, <2>3 DEF Claim, claim_dispatch, Link, LinkResolved, link_dispatch, DispatchRecord
  <2>4. ASSUME FinalizeCancel(d)
        PROVE  FALSE
    BY <1>1, <2>4 DEF FinalizeCancel, reconcile_cancelled_submissions, DispatchRecord
  <2>5. ASSUME Rearm(d)
        PROVE  attempt = "none"
    BY <2>5 DEF Rearm, CanRearm, Unexecuted
  <2> QED
    BY <1>2, <2>1, <2>2, <2>3, <2>4, <2>5 DEF DispatcherStep
<1>3. ASSUME NEW r \in RunIds, FlowStep(r) \/ WorkerDies(r) \/ RunCrashes(r) \/ DeleteRun(r)
      PROVE  FALSE
  BY <1>3 DEF FlowStep, RunStarts, FlowVerify, FlowCheck, FlowAcquire, FlowStart, FlowEnds,
              WorkerDies, RunCrashes, DeleteRun
<1>4. ASSUME NEW o \in Operators, OperatorStep(o)
      PROVE  FALSE
  BY <1>4 DEF OperatorStep, retire, DrainRoute, PauseDeployment, ConfirmQuiet, RetireRoute,
              RepauseRetired, reactivate, ResumeDeployment, ConfirmResumed, ReopenRoute,
              cleanup, VerifyUnused, FenceCleanup, DeleteDeployment, CleanRoute
<1>5. ASSUME RearmExhausted
      PROVE  attempt = "none"
  BY <1>5 DEF RearmExhausted, rearm_reconciliation_required_dispatch, Unexecuted
<1>6. ASSUME Client \/ RequestRemoteCancellation \/ ExpireLease \/ Crash
      PROVE  FALSE
  BY <1>6 DEF Client, accept, cancel_submission, reserve_execution_route_reference,
              release_execution_route_reference, RequestRemoteCancellation, ExpireLease, Crash
<1>7. ASSUME HostSweep
      PROVE  FALSE
  BY <1>1, <1>7 DEF HostSweep, reconcile_cancelled_submissions, AcknowledgeClosed, DispatchRecord
<1>8. ASSUME ExpireAbandoned \/ ExpireUnderWork \/ TimePasses
      PROVE  FALSE
  BY <1>1, <1>8 DEF ExpireAbandoned, ExpireUnderWork, TimePasses, LeaseRunsOut, DispatchRecord
<1> QED
  BY <1>2, <1>3, <1>4, <1>5, <1>6, <1>7, <1>8 DEF Next

\* Another remote run of the same work is only asked for while no run has begun
\* to execute it (_rearm_dispatch_if_unclaimed and
\* rearm_reconciliation_required_dispatch against start_attempt).
THEOREM RearmUnexecuted == Spec => RearmedIsUnexecuted
<1>1. Inv /\ [Next]_vars =>
        [ dispatch'.gen # dispatch.gen =>
            /\ attempt = "none"
            /\ \A r \in RunIds : runs[r].worker # "run" ]_vars
  BY RearmsLook DEF Inv, ExecutionInv
<1> QED
  BY <1>1, InitInv, StepKeepsInv, PTL DEF Spec, RearmedIsUnexecuted
=============================================================================
