-------------------------- MODULE FencedExecution --------------------------
(***************************************************************************)
(* What the durable work store promises a submission, with nothing of how  *)
(* it keeps the promise: a fence register that only grows, at most one     *)
(* worker, working under the fence it began with and always newer than the *)
(* worker it replaced, a single outcome, and a cancellation that, once     *)
(* requested, is the only outcome left.                                    *)
(***************************************************************************)
EXTENDS Naturals

CONSTANT Submission

VARIABLES
  phase,    \* submission -> where its life stands
  fence,    \* submission -> the newest fence granted
  worker    \* submission -> fence of the worker at work, 0 when there is none

fvars == <<phase, fence, worker>>

Outcomes == {"completed", "failed", "cancelled"}

FencedTypeOK ==
  /\ phase \in [Submission -> Outcomes \cup {"absent", "open", "cancelling"}]
  /\ fence \in [Submission -> Nat]
  /\ worker \in [Submission -> Nat]

FencedInit ==
  /\ phase = [s \in Submission |-> "absent"]
  /\ fence = [s \in Submission |-> 0]
  /\ worker = [s \in Submission |-> 0]

Submit(s) ==
  /\ phase[s] = "absent"
  /\ phase' = [phase EXCEPT ![s] = "open"]
  /\ UNCHANGED <<fence, worker>>

Grant(s) ==
  /\ phase[s] = "open"
  /\ fence' = [fence EXCEPT ![s] = @ + 1]
  /\ UNCHANGED <<phase, worker>>

Begin(s) ==
  /\ phase[s] = "open"
  /\ worker[s] < fence[s]
  /\ worker' = [worker EXCEPT ![s] = fence[s]]
  /\ UNCHANGED <<phase, fence>>

RequestCancel(s) ==
  /\ phase[s] = "open"
  /\ phase' = [phase EXCEPT ![s] = "cancelling"]
  /\ UNCHANGED <<fence, worker>>

Resolve(s, outcome) ==
  /\ worker[s] > 0
  /\ \/ phase[s] = "open"
     \/ phase[s] = "cancelling" /\ outcome = "cancelled"
  /\ phase' = [phase EXCEPT ![s] = outcome]
  /\ worker' = [worker EXCEPT ![s] = 0]
  /\ UNCHANGED fence

\* Cancellations nobody acknowledged are finalized in one sweep.
Abandon(S) ==
  /\ \A s \in S : phase[s] = "cancelling"
  /\ phase' = [s \in Submission |-> IF s \in S THEN "cancelled" ELSE phase[s]]
  /\ worker' = [s \in Submission |-> IF s \in S THEN 0 ELSE worker[s]]
  /\ UNCHANGED fence

FencedNext ==
  \/ \E s \in Submission :
       \/ Submit(s) \/ Grant(s) \/ Begin(s) \/ RequestCancel(s)
       \/ \E outcome \in Outcomes : Resolve(s, outcome)
  \/ \E S \in SUBSET Submission : Abandon(S)

FencedSpec == FencedInit /\ [][FencedNext]_fvars
============================================================================
