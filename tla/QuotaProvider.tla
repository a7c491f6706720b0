--------------------------- MODULE QuotaProvider ---------------------------
(***************************************************************************)
(* The quota provider of the control plane, for one resource: usage        *)
(* counters per scope (tenant and workspace), keyed reservations that      *)
(* several submission attempts may claim, suspension and containment, and  *)
(* the weighted round robin that divides admissions under shared pressure. *)
(*                                                                         *)
(* Every operation holds one lock and is one action.  A keyed admission    *)
(* that is admitted again after its release gets a fresh reservation, so   *)
(* an admission key has a sequence of reservations, oldest first.  Callers *)
(* give back the units they were admitted for, which is what all callers   *)
(* of the library do.  A refused call changes nothing and is no step, but  *)
(* one deferred by the round robin moves the cursor.                       *)
(***************************************************************************)
EXTENDS Naturals, Sequences, FiniteSets, SequencesExt

CONSTANTS
  Scope,            \* tenant and workspace pairs
  ScopeOrder,       \* the scopes in their sort order
  Weight,           \* scope -> its share of the round robin
  Key,              \* idempotency keys of admissions
  Claim,            \* claim identities of submission attempts
  NoClaim,          \* owner of an admission made without a claim
  Units,            \* units asked for
  Limit,            \* budget of a scope
  MaxReservations   \* bound: reservations made per admission key

ASSUME QuotaAssumption ==
  /\ ScopeOrder \in Seq(Scope)
  /\ Weight \in [Scope -> Nat \ {0}]
  /\ NoClaim \notin Claim
  /\ Units \subseteq Nat \ {0}
  /\ Limit \in Nat
  /\ MaxReservations \in Nat

\* The table of reservations is a dictionary: the keys ever admitted are finitely
\* many, and the units charged for them have a sum.
ASSUME KeysAreFinite == IsFiniteSet(Key)

VARIABLES
  usage,          \* scope -> units charged
  reservations,   \* scope, key -> reservations in the order they were made
  unkeyed,        \* scope -> units admitted without a key and not yet given back
  blocked,        \* scope -> the flags raised: suspended, contained
  pressure,       \* the host marked the capacity as contended
  cursor          \* position of the round robin in its ring

vars == <<usage, reservations, unkeyed, blocked, pressure, cursor>>

Flag == {"suspended", "contained"}

Reservation == [units : Units, claims : SUBSET (Claim \cup {NoClaim}), released : BOOLEAN]

LedgerTypeOK ==
  /\ usage \in [Scope -> Nat]
  /\ reservations \in [Scope -> [Key -> Seq(Reservation)]]
  /\ unkeyed \in [Scope -> Nat]
  /\ blocked \in [Scope -> SUBSET Flag]

TypeOK ==
  /\ LedgerTypeOK
  /\ pressure \in BOOLEAN
  /\ cursor \in Nat

Init ==
  /\ usage = [s \in Scope |-> 0]
  /\ reservations = [s \in Scope |-> [k \in Key |-> <<>>]]
  /\ unkeyed = [s \in Scope |-> 0]
  /\ blocked = [s \in Scope |-> {}]
  /\ pressure = FALSE
  /\ cursor = 0

---------------------------------------------------------------------------
(* The round robin.                                                        *)

\* The competitors of s: scopes with headroom that use the resource already.
Competes(o, s, u) ==
  /\ blocked[o] = {}
  /\ IF o = s THEN usage[o] + u <= Limit ELSE usage[o] > 0 /\ usage[o] + 1 <= Limit

Eligible(s, u) == SelectSeq(ScopeOrder, LAMBDA o : Competes(o, s, u))

\* Each competitor as many times in a row as it has weight.
RoundRobin(s, u) ==
  FlattenSeq([i \in DOMAIN Eligible(s, u) |->
                [j \in 1..Weight[Eligible(s, u)[i]] |-> Eligible(s, u)[i]]])

Contended(s, u) == pressure /\ Len(Eligible(s, u)) > 1

HasTurn(s, u) ==
  Contended(s, u) => RoundRobin(s, u)[(cursor % Len(RoundRobin(s, u))) + 1] = s

\* Mutant of CursorAfter: a request that misses its turn leaves the cursor.
CursorAfterGrant(s, u) ==
  IF Contended(s, u) /\ HasTurn(s, u)
  THEN ((cursor % Len(RoundRobin(s, u))) + 1) % Len(RoundRobin(s, u))
  ELSE cursor

\* _wrr_allows moves the cursor past a turn that was taken or missed.
CursorAfter(s, u) ==
  IF Contended(s, u)
  THEN ((cursor % Len(RoundRobin(s, u))) + 1) % Len(RoundRobin(s, u))
  ELSE cursor

---------------------------------------------------------------------------
(* Admission.                                                              *)

Made(s, k) == Len(reservations[s][k])

Charged(s, k) == Made(s, k) > 0 /\ ~reservations[s][k][Made(s, k)].released

WithinBudget(s, u) == blocked[s] = {} /\ usage[s] + u <= Limit

\* Mutant of MayCharge: the budget is compared before the units are added.
MayChargeBeforeUnits(s, u) ==
  blocked[s] = {} /\ usage[s] < Limit /\ HasTurn(s, u)

MayCharge(s, u) == WithinBudget(s, u) /\ HasTurn(s, u)

\* A key keeps the units it was first admitted with, even after a release.
UnitsAgree(s, k, u) == Made(s, k) > 0 => reservations[s][k][Made(s, k)].units = u

\* An admission that is charged already gains an owner, whatever the budget.
Join(s, k, u, c) ==
  /\ Charged(s, k) /\ UnitsAgree(s, k, u)
  /\ reservations' = [reservations EXCEPT ![s][k][Made(s, k)].claims = @ \cup {c}]
  /\ UNCHANGED <<usage, unkeyed, blocked, pressure, cursor>>

Reserve(s, k, u, c) ==
  /\ ~Charged(s, k) /\ UnitsAgree(s, k, u)
  /\ Made(s, k) < MaxReservations
  /\ MayCharge(s, u)
  /\ usage' = [usage EXCEPT ![s] = @ + u]
  /\ reservations' = [reservations EXCEPT ![s][k] =
                        Append(@, [units |-> u, claims |-> {c}, released |-> FALSE])]
  /\ cursor' = CursorAfter(s, u)
  /\ UNCHANGED <<unkeyed, blocked, pressure>>

AdmitUnkeyed(s, u) ==
  /\ MayCharge(s, u)
  /\ usage' = [usage EXCEPT ![s] = @ + u]
  /\ unkeyed' = [unkeyed EXCEPT ![s] = @ + u]
  /\ cursor' = CursorAfter(s, u)
  /\ UNCHANGED <<reservations, blocked, pressure>>

\* "fairness deferred"
Defer(s, u) ==
  /\ WithinBudget(s, u) /\ ~HasTurn(s, u)
  /\ cursor' = CursorAfter(s, u)
  /\ UNCHANGED <<usage, reservations, unkeyed, blocked, pressure>>

---------------------------------------------------------------------------
(* Release.                                                                *)

Uncharge(s, u) == usage' = [usage EXCEPT ![s] = IF @ > u THEN @ - u ELSE 0]

\* Mutant of Release: a release that was recorded already is counted again.
ReleaseAgain(s, k, g) ==
  /\ Uncharge(s, reservations[s][k][g].units)
  /\ reservations' = [reservations EXCEPT ![s][k][g].claims = {},
                                          ![s][k][g].released = TRUE]
  /\ UNCHANGED <<unkeyed, blocked, pressure, cursor>>

\* Terminal release of reservation g, whoever still claims it.  A release of
\* the same reservation after that is acknowledged and changes nothing.
Release(s, k, g) ==
  /\ ~reservations[s][k][g].released
  /\ Uncharge(s, reservations[s][k][g].units)
  /\ reservations' = [reservations EXCEPT ![s][k][g].claims = {},
                                          ![s][k][g].released = TRUE]
  /\ UNCHANGED <<unkeyed, blocked, pressure, cursor>>

\* Mutant of Abandon: the last claim goes without the charge.
AbandonOnly(s, k, g, c) ==
  /\ c \in reservations[s][k][g].claims
  /\ reservations' = [reservations EXCEPT ![s][k][g].claims = @ \ {c}]
  /\ UNCHANGED <<usage, unkeyed, blocked, pressure, cursor>>

\* Compensation of one attempt: only its own claim, and the charge only with
\* the last claim.  A claim that is not there reduces nothing.
Abandon(s, k, g, c) ==
  /\ c \in reservations[s][k][g].claims
  /\ IF reservations[s][k][g].claims = {c}
     THEN Release(s, k, g)
     ELSE /\ reservations' = [reservations EXCEPT ![s][k][g].claims = @ \ {c}]
          /\ UNCHANGED <<usage, unkeyed, blocked, pressure, cursor>>

ReleaseUnkeyed(s, u) ==
  /\ unkeyed[s] >= u
  /\ Uncharge(s, u)
  /\ unkeyed' = [unkeyed EXCEPT ![s] = @ - u]
  /\ UNCHANGED <<reservations, blocked, pressure, cursor>>

---------------------------------------------------------------------------
(* What operators and hosts switch.                                        *)

SetFlag(s, f, on) ==
  /\ blocked' = [blocked EXCEPT ![s] = IF on THEN @ \cup {f} ELSE @ \ {f}]
  /\ UNCHANGED <<usage, reservations, unkeyed, pressure, cursor>>

SetPressure(on) ==
  /\ pressure' = on
  /\ UNCHANGED <<usage, reservations, unkeyed, blocked, cursor>>

---------------------------------------------------------------------------
\* One request for admission without a key, granted or deferred.
Ask(s, u) == AdmitUnkeyed(s, u) \/ Defer(s, u)

KeyNext(s, k) ==
  \/ \E u \in Units, c \in Claim \cup {NoClaim} : Join(s, k, u, c) \/ Reserve(s, k, u, c)
  \/ \E g \in 1..Made(s, k) : Release(s, k, g) \/ \E c \in Claim : Abandon(s, k, g, c)

Next ==
  \/ \E s \in Scope :
       \/ \E k \in Key : KeyNext(s, k)
       \/ \E u \in Units : Ask(s, u) \/ ReleaseUnkeyed(s, u)
       \/ \E f \in Flag, on \in BOOLEAN : SetFlag(s, f, on)
  \/ \E on \in BOOLEAN : SetPressure(on)

Spec == Init /\ [][Next]_vars

---------------------------------------------------------------------------
(* Safety.                                                                 *)

ChargedUnits(s, k) == IF Charged(s, k) THEN reservations[s][k][Made(s, k)].units ELSE 0

\* The counter a scope is judged by is what its callers really hold, whatever
\* replays, compensations, duplicate and late releases came before: nothing is
\* charged twice, given back twice, or leaked.
UsageIsHeld ==
  \A s \in Scope :
    usage[s] = unkeyed[s] + FoldFunction(+, 0, [k \in Key |-> ChargedUnits(s, k)])

Owned(rs) ==
  \A g \in 1..Len(rs) :
    /\ ~rs[g].released => g = Len(rs) /\ rs[g].claims # {}
    /\ rs[g].released => rs[g].claims = {}

\* Only the newest reservation of a key can be charged, and one that is charged
\* has an owner left: admit always registers its caller, and the last
\* compensation releases.
ChargedIsOwned == \A s \in Scope, k \in Key : Owned(reservations[s][k])

\* No admission takes a scope over its budget, also when its turn comes late or
\* its reservation is a replay.
WithinLimit == \A s \in Scope : usage[s] <= Limit

---------------------------------------------------------------------------
(* What a step may never do.                                               *)

\* A suspended or contained scope is charged nothing new, even by a replay.
BlockedIsNotCharged ==
  [][\A s \in Scope : blocked[s] # {} => usage'[s] <= usage[s]]_vars

---------------------------------------------------------------------------
(* Liveness under shared pressure.                                         *)

CanBeCharged(s) == \A u \in Units : WithinBudget(s, u)

Granted(s) == usage'[s] > usage[s]

\* Only s uses the provider.
Alone(s) == \E u \in Units : Ask(s, u) \/ ReleaseUnkeyed(s, u)

\* A competitor that no longer asks holds up nobody, whosever turn it was: a
\* requester that is left alone and has headroom is admitted again and again.
IdleOwnerStarvesNobody ==
  \A s \in Scope :
    <>[][Alone(s)]_vars /\ WF_vars(\E u \in Units : Ask(s, u)) /\ <>[]CanBeCharged(s)
      => []<><<Granted(s)>>_vars
============================================================================
