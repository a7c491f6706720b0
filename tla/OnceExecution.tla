--------------------------- MODULE OnceExecution ---------------------------
(***************************************************************************)
(* What the execution hosts together promise an accepted submission: its   *)
(* ETL runs at most once, it is closed at most once, and its effect        *)
(* receipt always tells whether the target may have been written.  Work    *)
(* may outlive the submission (a worker nobody can stop), but then the     *)
(* receipt already says so.                                                *)
(***************************************************************************)
CONSTANT Submission

VARIABLES
  phase,     \* submission -> absent, open, or how it was closed
  run,       \* submission -> never, begun or committed
  receipt    \* submission -> what is recorded of the effect of the run

ovars == <<phase, run, receipt>>

Closed == {"completed", "failed", "cancelled"}

OnceTypeOK ==
  /\ phase \in [Submission -> Closed \cup {"absent", "open"}]
  /\ run \in [Submission -> {"never", "begun", "committed"}]
  /\ receipt \in [Submission -> {"absent", "none", "committed", "unknown"}]

OnceInit ==
  /\ phase = [s \in Submission |-> "absent"]
  /\ run = [s \in Submission |-> "never"]
  /\ receipt = [s \in Submission |-> "absent"]

\* Everything a reader may conclude from the receipt is so.
Honest(s, newReceipt) ==
  CASE run[s] = "never"     -> newReceipt # "committed"
    [] run[s] = "begun"     -> newReceipt \in {"none", "unknown"}
    [] run[s] = "committed" -> newReceipt \in {"committed", "unknown"}

\* The run may still begin or write: the submission is open and no receipt
\* says none, or the receipt says unknown.
MayStillWrite(s) ==
  \/ phase[s] = "open" /\ receipt[s] # "none"
  \/ receipt[s] = "unknown"

Accept(s) ==
  /\ phase[s] = "absent"
  /\ phase' = [phase EXCEPT ![s] = "open"]
  /\ UNCHANGED <<run, receipt>>

Begin(s) ==
  /\ run[s] = "never" /\ MayStillWrite(s)
  /\ run' = [run EXCEPT ![s] = "begun"]
  /\ UNCHANGED <<phase, receipt>>

Commit(s) ==
  /\ run[s] = "begun" /\ MayStillWrite(s)
  /\ run' = [run EXCEPT ![s] = "committed"]
  /\ UNCHANGED <<phase, receipt>>

\* A commit that is known stays known; doubt is only settled by a commit.
Record(s, newReceipt) ==
  /\ phase[s] # "absent"
  /\ newReceipt # "absent" /\ Honest(s, newReceipt)
  /\ receipt[s] = "committed" => newReceipt = "committed"
  /\ receipt[s] = "unknown" => newReceipt \in {"committed", "unknown"}
  /\ receipt' = [receipt EXCEPT ![s] = newReceipt]
  /\ UNCHANGED <<phase, run>>

Close(s, outcome) ==
  /\ phase[s] = "open"
  /\ Honest(s, receipt[s])
  /\ outcome = "completed" => run[s] # "never"
  /\ phase' = [phase EXCEPT ![s] = outcome]
  /\ UNCHANGED <<run, receipt>>

\* Cancellations nobody acknowledged are closed in one sweep, in doubt.
Sweep(S, doubtful) ==
  /\ doubtful \subseteq S
  /\ \A s \in S : phase[s] = "open"
  /\ \A s \in doubtful : receipt[s] # "committed"
  /\ \A s \in S \ doubtful : Honest(s, receipt[s])
  /\ phase' = [s \in Submission |-> IF s \in S THEN "cancelled" ELSE phase[s]]
  /\ receipt' = [s \in Submission |-> IF s \in doubtful THEN "unknown" ELSE receipt[s]]
  /\ UNCHANGED run

OnceNext ==
  \/ \E s \in Submission :
       \/ Accept(s) \/ Begin(s) \/ Commit(s)
       \/ \E r \in {"none", "committed", "unknown"} : Record(s, r)
       \/ \E outcome \in Closed : Close(s, outcome)
  \/ \E S \in SUBSET Submission : \E doubtful \in SUBSET S : Sweep(S, doubtful)

OnceSpec == OnceInit /\ [][OnceNext]_ovars
============================================================================
