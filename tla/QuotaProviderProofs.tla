------------------------ MODULE QuotaProviderProofs ------------------------
(***************************************************************************)
(* The ledger of the quota provider, for any scopes, keys, claims, units   *)
(* and limit.  The position of the round robin plays no part in it: an     *)
(* admission is proved right whoever's turn it was.                        *)
(***************************************************************************)
EXTENDS QuotaProvider, SequenceTheorems, FiniteSetTheorems, NaturalsInduction,
        WellFoundedInduction, TLAPS

---------------------------------------------------------------------------
(* The reservations of one key.                                            *)

\* A reservation that admit adds after the last one was released is the only
\* charged one.
LEMMA AppendOwned ==
  ASSUME NEW rs \in Seq(Reservation), Owned(rs),
         Len(rs) = 0 \/ rs[Len(rs)].released,
         NEW r \in Reservation, ~r.released, r.claims # {}
  PROVE  Append(rs, r) \in Seq(Reservation) /\ Owned(Append(rs, r))
<1>1. /\ Append(rs, r) \in Seq(Reservation)
      /\ Len(Append(rs, r)) = Len(rs) + 1
      /\ Len(rs) \in Nat
  OBVIOUS
<1>2. ASSUME NEW g \in 1..Len(rs)
      PROVE  Append(rs, r)[g] = rs[g] /\ rs[g].released
  BY DEF Owned
<1>3. Append(rs, r)[Len(rs) + 1] = r
  OBVIOUS
<1>4. 1..Len(rs) + 1 = 1..Len(rs) \cup {Len(rs) + 1}
  BY <1>1
<1> QED
  BY <1>1, <1>2, <1>3, <1>4 DEF Owned

\* A reservation is changed rightly if it stays the newest one with an owner, or
\* is released with none.
LEMMA ChangeOwned ==
  ASSUME NEW rs \in Seq(Reservation), Owned(rs), NEW g \in 1..Len(rs),
         NEW r \in Reservation,
         \/ ~r.released /\ r.claims # {} /\ g = Len(rs)
         \/ r.released /\ r.claims = {}
  PROVE  [rs EXCEPT ![g] = r] \in Seq(Reservation) /\ Owned([rs EXCEPT ![g] = r])
<1>1. /\ [rs EXCEPT ![g] = r] \in Seq(Reservation)
      /\ Len([rs EXCEPT ![g] = r]) = Len(rs)
      /\ \A h \in 1..Len(rs) : [rs EXCEPT ![g] = r][h] = IF h = g THEN r ELSE rs[h]
  BY ExceptSeq
<1> QED
  BY <1>1 DEF Owned

\* The other keys keep their reservations.
LEMMA KeyChanged ==
  ASSUME LedgerTypeOK, ChargedIsOwned, NEW s \in Scope, NEW k \in Key,
         NEW rs \in Seq(Reservation), Owned(rs),
         reservations' = [reservations EXCEPT ![s][k] = rs]
  PROVE  reservations' \in [Scope -> [Key -> Seq(Reservation)]] /\ ChargedIsOwned'
<1>1. reservations \in [Scope -> [Key -> Seq(Reservation)]]
  BY DEF LedgerTypeOK
<1>2. \A t \in Scope, j \in Key :
        reservations'[t][j] = IF t = s /\ j = k THEN rs ELSE reservations[t][j]
  BY <1>1
<1>3. \A t \in Scope, j \in Key : Owned(reservations'[t][j])
  BY <1>2 DEF ChargedIsOwned
<1>4. ChargedIsOwned'
  BY <1>3 DEF ChargedIsOwned, Owned
<1> QED
  BY <1>1, <1>4

---------------------------------------------------------------------------
(* The counters.                                                           *)

\* A release gives units back to its scope and to no other.
LEMMA UnchargeLowers ==
  ASSUME LedgerTypeOK, WithinLimit, NEW s \in Scope, NEW u \in Nat, Uncharge(s, u)
  PROVE  /\ usage' \in [Scope -> Nat]
         /\ \A t \in Scope : usage'[t] <= usage[t]
         /\ WithinLimit'
<1>1. usage \in [Scope -> Nat] /\ Limit \in Nat
  BY QuotaAssumption DEF LedgerTypeOK
<1>2. usage' = [usage EXCEPT ![s] = IF usage[s] > u THEN usage[s] - u ELSE 0]
  BY DEF Uncharge
<1>3. (IF usage[s] > u THEN usage[s] - u ELSE 0) \in Nat
  BY <1>1
<1>4. usage' \in [Scope -> Nat]
  BY <1>1, <1>2, <1>3
<1>5. \A t \in Scope : usage'[t] <= usage[t]
  BY <1>1, <1>2
<1> QED
  BY <1>1, <1>4, <1>5 DEF WithinLimit

\* An admission charges a scope that has the headroom and raises no flag.
LEMMA ChargeFits ==
  ASSUME LedgerTypeOK, WithinLimit, NEW s \in Scope, NEW u \in Units,
         MayCharge(s, u), usage' = [usage EXCEPT ![s] = @ + u]
  PROVE  /\ usage' \in [Scope -> Nat]
         /\ \A t \in Scope : blocked[t] # {} => usage'[t] <= usage[t]
         /\ WithinLimit'
<1>1. usage \in [Scope -> Nat] /\ Limit \in Nat /\ u \in Nat
  BY QuotaAssumption DEF LedgerTypeOK
<1>2. blocked[s] = {} /\ usage[s] + u <= Limit
  BY DEF MayCharge, WithinBudget
<1>3. \A t \in Scope : usage'[t] = IF t = s THEN usage[s] + u ELSE usage[t]
  BY <1>1
<1>4. usage' \in [Scope -> Nat]
  BY <1>1
<1> QED
  BY <1>1, <1>2, <1>3, <1>4 DEF WithinLimit

---------------------------------------------------------------------------
(* The steps.                                                              *)

LedgerInv == LedgerTypeOK /\ ChargedIsOwned /\ WithinLimit

\* A step keeps the ledger, and charges no blocked scope.
LedgerStep ==
  LedgerInv' /\ \A t \in Scope : blocked[t] # {} => usage'[t] <= usage[t]

\* A replayed admission charges nothing and gains an owner.
LEMMA JoinStep ==
  ASSUME LedgerInv, NEW s \in Scope, NEW k \in Key, NEW u \in Units,
         NEW c \in Claim \cup {NoClaim}, Join(s, k, u, c)
  PROVE  LedgerStep
<1> DEFINE rs == reservations[s][k]
           r == [rs[Len(rs)] EXCEPT !.claims = @ \cup {c}]
<1>1. rs \in Seq(Reservation) /\ Owned(rs) /\ usage \in [Scope -> Nat]
  BY DEF LedgerInv, LedgerTypeOK, ChargedIsOwned
<1>2. Len(rs) \in 1..Len(rs) /\ ~rs[Len(rs)].released
  BY <1>1 DEF Join, Charged, Made
<1>3. rs[Len(rs)] \in Reservation
  BY <1>1, <1>2
<1>4. r \in Reservation /\ ~r.released /\ r.claims # {}
  BY <1>2, <1>3 DEF Reservation
<1> HIDE DEF r
<1>5. [rs EXCEPT ![Len(rs)] = r] \in Seq(Reservation) /\ Owned([rs EXCEPT ![Len(rs)] = r])
  BY <1>1, <1>2, <1>4, ChangeOwned
<1>6. reservations' = [reservations EXCEPT ![s][k] = [rs EXCEPT ![Len(rs)] = r]]
  BY DEF Join, Made, r
<1> HIDE DEF rs
<1>7. reservations' \in [Scope -> [Key -> Seq(Reservation)]] /\ ChargedIsOwned'
  BY <1>5, <1>6, KeyChanged DEF LedgerInv
<1>8. UNCHANGED <<usage, unkeyed, blocked>>
  BY DEF Join
<1> QED
  BY <1>1, <1>7, <1>8 DEF LedgerStep, LedgerInv, LedgerTypeOK, WithinLimit

\* A fresh reservation of a key is made when the last one was released.
LEMMA ReserveStep ==
  ASSUME LedgerInv, NEW s \in Scope, NEW k \in Key, NEW u \in Units,
         NEW c \in Claim \cup {NoClaim}, Reserve(s, k, u, c)
  PROVE  LedgerStep
<1> DEFINE rs == reservations[s][k]
           r == [units |-> u, claims |-> {c}, released |-> FALSE]
<1>1. rs \in Seq(Reservation) /\ Owned(rs)
  BY DEF LedgerInv, LedgerTypeOK, ChargedIsOwned
<1>2. r \in Reservation /\ ~r.released /\ r.claims # {}
  BY DEF Reservation
<1>3. Len(rs) = 0 \/ rs[Len(rs)].released
  BY <1>1 DEF Reserve, Charged, Made
<1>4. Append(rs, r) \in Seq(Reservation) /\ Owned(Append(rs, r))
  BY <1>1, <1>2, <1>3, AppendOwned
<1>5. reservations' = [reservations EXCEPT ![s][k] = Append(rs, r)]
  BY DEF Reserve
<1> HIDE DEF rs, r
<1>6. reservations' \in [Scope -> [Key -> Seq(Reservation)]] /\ ChargedIsOwned'
  BY <1>4, <1>5, KeyChanged DEF LedgerInv
<1>7. MayCharge(s, u) /\ usage' = [usage EXCEPT ![s] = @ + u] /\ UNCHANGED <<unkeyed, blocked>>
  BY DEF Reserve
<1>8. /\ usage' \in [Scope -> Nat]
      /\ \A t \in Scope : blocked[t] # {} => usage'[t] <= usage[t]
      /\ WithinLimit'
  BY <1>7, ChargeFits DEF LedgerInv
<1> QED
  BY <1>6, <1>7, <1>8 DEF LedgerStep, LedgerInv, LedgerTypeOK

\* A terminal release leaves no owner, whoever claimed the reservation.
LEMMA ReleaseStep ==
  ASSUME LedgerInv, NEW s \in Scope, NEW k \in Key, NEW g \in 1..Made(s, k),
         Release(s, k, g)
  PROVE  LedgerStep
<1> DEFINE rs == reservations[s][k]
           r == [rs[g] EXCEPT !.claims = {}, !.released = TRUE]
<1>1. rs \in Seq(Reservation) /\ Owned(rs) /\ g \in 1..Len(rs)
  BY DEF LedgerInv, LedgerTypeOK, ChargedIsOwned, Made
<1>2. rs[g] \in Reservation
  BY <1>1
<1>3. r \in Reservation /\ r.released /\ r.claims = {}
  BY <1>2 DEF Reservation
<1> HIDE DEF r
<1>4. [rs EXCEPT ![g] = r] \in Seq(Reservation) /\ Owned([rs EXCEPT ![g] = r])
  BY <1>1, <1>3, ChangeOwned
<1>5. reservations' = [reservations EXCEPT ![s][k] = [rs EXCEPT ![g] = r]]
  BY DEF Release, LedgerInv, LedgerTypeOK, r
<1>6. rs[g].units \in Nat
  BY <1>2, QuotaAssumption DEF Reservation
<1>7. Uncharge(s, rs[g].units) /\ UNCHANGED <<unkeyed, blocked>>
  BY DEF Release
<1> HIDE DEF rs
<1>8. reservations' \in [Scope -> [Key -> Seq(Reservation)]] /\ ChargedIsOwned'
  BY <1>4, <1>5, KeyChanged DEF LedgerInv
<1>9. usage' \in [Scope -> Nat] /\ WithinLimit' /\ \A t \in Scope : usage'[t] <= usage[t]
  BY <1>6, <1>7, UnchargeLowers DEF LedgerInv
<1> QED
  BY <1>7, <1>8, <1>9 DEF LedgerStep, LedgerInv, LedgerTypeOK

\* A compensation keeps the other owners, or is the release of the last one.
LEMMA AbandonStep ==
  ASSUME LedgerInv, NEW s \in Scope, NEW k \in Key, NEW g \in 1..Made(s, k),
         NEW c \in Claim, Abandon(s, k, g, c)
  PROVE  LedgerStep
<1> DEFINE rs == reservations[s][k]
           r == [rs[g] EXCEPT !.claims = @ \ {c}]
<1>1. CASE rs[g].claims = {c}
  <2>1. Release(s, k, g)
    BY <1>1 DEF Abandon
  <2> QED
    BY <2>1, ReleaseStep
<1>2. CASE rs[g].claims # {c}
  <2>1. rs \in Seq(Reservation) /\ Owned(rs) /\ g \in 1..Len(rs) /\ usage \in [Scope -> Nat]
    BY DEF LedgerInv, LedgerTypeOK, ChargedIsOwned, Made
  <2>2. rs[g] \in Reservation
    BY <2>1
  <2>3. c \in rs[g].claims
    BY DEF Abandon
  <2>4. ~rs[g].released /\ g = Len(rs)
    BY <2>1, <2>2, <2>3 DEF Owned, Reservation
  <2>5. r \in Reservation /\ ~r.released /\ r.claims # {}
    BY <1>2, <2>2, <2>3, <2>4 DEF Reservation
  <2> HIDE DEF r
  <2>6. [rs EXCEPT ![g] = r] \in Seq(Reservation) /\ Owned([rs EXCEPT ![g] = r])
    BY <2>1, <2>4, <2>5, ChangeOwned
  <2>7. reservations' = [reservations EXCEPT ![s][k] = [rs EXCEPT ![g] = r]]
    BY <1>2 DEF Abandon, r
  <2>8. UNCHANGED <<usage, unkeyed, blocked>>
    BY <1>2 DEF Abandon
  <2> HIDE DEF rs
  <2>9. reservations' \in [Scope -> [Key -> Seq(Reservation)]] /\ ChargedIsOwned'
    BY <2>6, <2>7, KeyChanged DEF LedgerInv
  <2> QED
    BY <2>1, <2>8, <2>9 DEF LedgerStep, LedgerInv, LedgerTypeOK, WithinLimit
<1> QED
  BY <1>1, <1>2

\* Admissions and releases without a key move the counter only.
LEMMA UnkeyedStep ==
  ASSUME LedgerInv, NEW s \in Scope, NEW u \in Units, Ask(s, u) \/ ReleaseUnkeyed(s, u)
  PROVE  LedgerStep
<1>1. /\ usage \in [Scope -> Nat] /\ unkeyed \in [Scope -> Nat] /\ u \in Nat
      /\ LedgerTypeOK /\ WithinLimit
  BY QuotaAssumption DEF LedgerInv, LedgerTypeOK
<1>2. CASE AdmitUnkeyed(s, u)
  <2>1. /\ usage' \in [Scope -> Nat]
        /\ \A t \in Scope : blocked[t] # {} => usage'[t] <= usage[t]
        /\ WithinLimit'
    BY <1>1, <1>2, ChargeFits DEF AdmitUnkeyed
  <2>2. unkeyed' \in [Scope -> Nat]
    BY <1>1, <1>2 DEF AdmitUnkeyed
  <2> QED
    BY <1>2, <2>1, <2>2
    DEF AdmitUnkeyed, LedgerStep, LedgerInv, LedgerTypeOK, ChargedIsOwned, Owned
<1>3. CASE Defer(s, u)
  BY <1>1, <1>3
  DEF Defer, LedgerStep, LedgerInv, LedgerTypeOK, ChargedIsOwned, Owned, WithinLimit
<1>4. CASE ReleaseUnkeyed(s, u)
  <2>1. usage' \in [Scope -> Nat] /\ WithinLimit' /\ \A t \in Scope : usage'[t] <= usage[t]
    BY <1>1, <1>4, UnchargeLowers DEF ReleaseUnkeyed
  <2>2. unkeyed' \in [Scope -> Nat]
    BY <1>1, <1>4 DEF ReleaseUnkeyed
  <2> QED
    BY <1>4, <2>1, <2>2
    DEF ReleaseUnkeyed, LedgerStep, LedgerInv, LedgerTypeOK, ChargedIsOwned, Owned
<1> QED
  BY <1>2, <1>3, <1>4 DEF Ask

\* Suspension, containment and pressure leave the ledger alone.
LEMMA SwitchStep ==
  ASSUME LedgerInv, NEW on \in BOOLEAN,
         \/ \E s \in Scope, f \in Flag : SetFlag(s, f, on)
         \/ SetPressure(on)
         \/ UNCHANGED vars
  PROVE  LedgerStep
<1>1. UNCHANGED <<usage, reservations, unkeyed>>
  BY DEF SetFlag, SetPressure, vars
<1>2. blocked' \in [Scope -> SUBSET Flag]
  <2>1. blocked \in [Scope -> SUBSET Flag]
    BY DEF LedgerInv, LedgerTypeOK
  <2>2. ASSUME NEW s \in Scope, NEW f \in Flag, SetFlag(s, f, on)
        PROVE  blocked' \in [Scope -> SUBSET Flag]
    BY <2>1, <2>2 DEF SetFlag
  <2> QED
    BY <2>1, <2>2 DEF SetPressure, vars
<1> QED
  BY <1>1, <1>2
  DEF LedgerStep, LedgerInv, LedgerTypeOK, ChargedIsOwned, Owned, WithinLimit

\* Every step of the provider.
LEMMA NextStep == ASSUME LedgerInv, [Next]_vars PROVE LedgerStep
<1>1. ASSUME NEW s \in Scope, NEW k \in Key, KeyNext(s, k) PROVE LedgerStep
  BY <1>1, JoinStep, ReserveStep, ReleaseStep, AbandonStep DEF KeyNext
<1>2. CASE UNCHANGED vars
  BY <1>2, SwitchStep
<1>3. CASE Next
  BY <1>1, <1>3, UnkeyedStep, SwitchStep DEF Next
<1> QED
  BY <1>2, <1>3

\* The provider starts empty.
LEMMA LedgerInit == Init => LedgerInv
<1>1. ASSUME Init PROVE LedgerTypeOK
  BY <1>1 DEF Init, LedgerTypeOK
<1>2. ASSUME Init PROVE ChargedIsOwned
  BY <1>2 DEF Init, ChargedIsOwned, Owned
<1>3. ASSUME Init PROVE WithinLimit
  BY <1>3, QuotaAssumption DEF Init, WithinLimit
<1> QED
  BY <1>1, <1>2, <1>3 DEF LedgerInv

---------------------------------------------------------------------------
(* The units charged for all keys, as a sum.  A sum over a set takes one   *)
(* element after the other out of the set; its subtotals are a function    *)
(* on the subsets.                                                         *)

Taken(t) == CHOOSE x \in t : TRUE

IsTally(g, f, S) ==
  g = [t \in SUBSET S |-> IF t = {} THEN 0 ELSE f[Taken(t)] + g[t \ {Taken(t)}]]

Tally(f, S) == CHOOSE g : IsTally(g, f, S)

\* What holds of the empty set, and of a set when it holds without the element
\* that is taken out, holds of every finite set.
LEMMA SubsetInduction ==
  ASSUME NEW S, IsFiniteSet(S), NEW Good, {} \in Good,
         \A t \in SUBSET S : t # {} /\ t \ {Taken(t)} \in Good => t \in Good
  PROVE  \A t \in SUBSET S : t \in Good
<1> DEFINE Bad == {t \in SUBSET S : t \notin Good}
           Sizes == {Cardinality(t) : t \in Bad}
           R == OpToRel(<, Nat)
<1>1. \A t \in SUBSET S : IsFiniteSet(t) /\ Cardinality(t) \in Nat
  BY FS_Subset, FS_CardinalityType
<1>2. Sizes \subseteq Nat
  BY <1>1
<1>3. SUFFICES ASSUME Bad # {} PROVE FALSE
  OBVIOUS
<1>4. IsWellFoundedOn(R, Nat)
  BY NatLessThanWellFounded
<1> HIDE DEF R, Bad
<1>5. Sizes # {}
  BY <1>3
<1> HIDE DEF Sizes
<1>6. PICK n \in Sizes : \A m \in Sizes : ~(<<m, n>> \in R)
  BY <1>2, <1>4, <1>5, WFMin
<1>7. \A m \in Sizes : ~(m < n)
  BY <1>2, <1>6 DEF R, OpToRel
<1>8. PICK t \in Bad : n = Cardinality(t)
  BY DEF Sizes
<1>9. t \in SUBSET S /\ t \notin Good /\ t # {}
  BY DEF Bad
<1>10. Taken(t) \in t
  BY <1>9 DEF Taken
<1>11. Cardinality(t \ {Taken(t)}) = n - 1
  BY <1>1, <1>8, <1>9, <1>10, FS_RemoveElement
<1>12. n - 1 \in Nat /\ n - 1 < n
  <2>1. Cardinality(t \ {Taken(t)}) \in Nat
    BY <1>1, <1>9
  <2> QED
    BY <1>2, <1>11, <2>1
<1>13. t \ {Taken(t)} \in Bad
  BY <1>9 DEF Bad
<1> QED
  BY <1>7, <1>11, <1>12, <1>13 DEF Sizes

\* The subtotals exist.
LEMMA TallyIsDefined ==
  ASSUME NEW f, NEW S, IsFiniteSet(S)
  PROVE  IsTally(Tally(f, S), f, S)
<1> DEFINE Small(n) == {t \in SUBSET S : Cardinality(t) <= n}
           Tallies(n, g) ==
             g = [t \in Small(n) |-> IF t = {} THEN 0 ELSE f[Taken(t)] + g[t \ {Taken(t)}]]
           Large == {n \in Nat : ~\E g : Tallies(n, g)}
           R == OpToRel(<, Nat)
<1>1. \A t \in SUBSET S : /\ IsFiniteSet(t) /\ Cardinality(t) \in Nat
                          /\ Cardinality(t) <= Cardinality(S)
                          /\ Cardinality(t) = 0 => t = {}
  BY FS_Subset, FS_CardinalityType, FS_EmptySet
<1>2. \A t \in SUBSET S : t # {} =>
        Taken(t) \in t /\ Cardinality(t \ {Taken(t)}) = Cardinality(t) - 1
  <2> SUFFICES ASSUME NEW t \in SUBSET S, t # {}
               PROVE  Taken(t) \in t /\ Cardinality(t \ {Taken(t)}) = Cardinality(t) - 1
    OBVIOUS
  <2>1. Taken(t) \in t
    BY DEF Taken
  <2> QED
    BY <1>1, <2>1, FS_RemoveElement
<1>3. IsWellFoundedOn(R, Nat)
  BY NatLessThanWellFounded
<1>4. Tallies(0, [t \in Small(0) |-> 0])
  <2>1. \A t \in Small(0) : t = {}
    BY <1>1
  <2> QED
    BY <2>1
<1>5. ASSUME NEW n \in Nat, NEW g, Tallies(n, g)
      PROVE  \E h : Tallies(n + 1, h)
  <2> DEFINE h == [t \in Small(n + 1) |->
                     IF t = {} THEN 0 ELSE f[Taken(t)] + g[t \ {Taken(t)}]]
  <2>1. \A t \in Small(n) : g[t] = IF t = {} THEN 0 ELSE f[Taken(t)] + g[t \ {Taken(t)}]
    BY <1>5
  <2>2. \A t \in Small(n) : t \in Small(n + 1)
    BY <1>1
  <2>3. \A t \in Small(n) : h[t] = g[t]
    BY <2>1, <2>2
  <2>4. \A t \in Small(n + 1) : t # {} => t \ {Taken(t)} \in Small(n)
    BY <1>1, <1>2
  <2>5. \A t \in Small(n + 1) : t # {} => h[t \ {Taken(t)}] = g[t \ {Taken(t)}]
    BY <2>3, <2>4
  <2>6. Tallies(n + 1, h)
    <3> HIDE DEF h, Small
    <3>1. h = [t \in Small(n + 1) |->
                 IF t = {} THEN 0 ELSE f[Taken(t)] + g[t \ {Taken(t)}]]
      BY DEF h
    <3> QED
      BY <2>5, <3>1
  <2> QED
    BY <2>6
<1> HIDE DEF Tallies
<1>6. Large = {}
  <2> SUFFICES ASSUME Large # {} PROVE FALSE
    OBVIOUS
  <2>1. Large \subseteq Nat
    OBVIOUS
  <2> HIDE DEF R
  <2>2. PICK n \in Large : \A m \in Large : ~(<<m, n>> \in R)
    BY <1>3, <2>1, WFMin
  <2>3. \A m \in Large : ~(m < n)
    BY <2>1, <2>2 DEF R, OpToRel
  <2>4. n # 0
    BY <1>4
  <2>5. n - 1 \in Nat /\ n - 1 < n
    BY <2>1, <2>4
  <2>6. \E g : Tallies(n - 1, g)
    BY <2>3, <2>5
  <2>7. \E g : Tallies((n - 1) + 1, g)
    BY <1>5, <2>5, <2>6
  <2>8. (n - 1) + 1 = n
    BY <2>1
  <2> QED
    BY <2>7, <2>8
<1>7. PICK g : Tallies(Cardinality(S), g)
  BY <1>6, FS_CardinalityType
<1>8. Small(Cardinality(S)) = SUBSET S
  BY <1>1
<1>9. IsTally(g, f, S)
  <2> HIDE DEF Small
  <2> QED
    BY <1>7, <1>8 DEF Tallies, IsTally
<1> QED
  BY <1>9 DEF Tally

\* What the model adds up is the tally.
LEMMA SumIsTally ==
  ASSUME NEW f, NEW S
  PROVE  FoldFunctionOnSet(+, 0, f, S) = Tally(f, S)[S]
BY DEF FoldFunctionOnSet, MapThenFoldSet, Tally, IsTally, Taken

\* The subtotal of a set is that of the set without one element, and the element.
LEMMA TallyOfSubset ==
  ASSUME NEW f, NEW S, IsFiniteSet(S)
  PROVE  \A t \in SUBSET S :
           Tally(f, S)[t] = IF t = {} THEN 0 ELSE f[Taken(t)] + Tally(f, S)[t \ {Taken(t)}]
<1> DEFINE g == Tally(f, S)
<1>1. IsTally(g, f, S)
  BY TallyIsDefined
<1> HIDE DEF g
<1>2. g = [t \in SUBSET S |-> IF t = {} THEN 0 ELSE f[Taken(t)] + g[t \ {Taken(t)}]]
  BY <1>1 DEF IsTally
<1>3. \A t \in SUBSET S : g[t] = IF t = {} THEN 0 ELSE f[Taken(t)] + g[t \ {Taken(t)}]
  BY <1>2
<1> QED
  BY <1>3 DEF g

\* A sum of natural numbers is one, and no smaller than any of them.
LEMMA SumIsNat ==
  ASSUME NEW S, IsFiniteSet(S), NEW f \in [S -> Nat]
  PROVE  /\ FoldFunction(+, 0, f) \in Nat
         /\ \A x \in S : f[x] <= FoldFunction(+, 0, f)
<1> DEFINE g == Tally(f, S)
           Good == {t \in SUBSET S : g[t] \in Nat /\ \A x \in t : f[x] <= g[t]}
<1>1. \A t \in SUBSET S : g[t] = IF t = {} THEN 0 ELSE f[Taken(t)] + g[t \ {Taken(t)}]
  BY TallyOfSubset
<1> HIDE DEF g
<1>2. {} \in Good
  BY <1>1
<1>3. ASSUME NEW t \in SUBSET S, t # {}, t \ {Taken(t)} \in Good
      PROVE  t \in Good
  <2>1. Taken(t) \in t /\ f[Taken(t)] \in Nat
    BY <1>3 DEF Taken
  <2>2. g[t] = f[Taken(t)] + g[t \ {Taken(t)}]
    BY <1>1, <1>3
  <2>3. g[t \ {Taken(t)}] \in Nat /\ \A x \in t \ {Taken(t)} : f[x] <= g[t \ {Taken(t)}]
    BY <1>3
  <2>4. g[t] \in Nat
    BY <2>1, <2>2, <2>3
  <2>5. ASSUME NEW x \in t PROVE f[x] <= g[t]
    <3>1. f[x] \in Nat
      OBVIOUS
    <3> QED
      BY <2>1, <2>2, <2>3, <3>1
  <2> QED
    BY <2>4, <2>5
<1> HIDE DEF Good
<1>4. S \in Good
  BY <1>2, <1>3, SubsetInduction
<1>5. FoldFunction(+, 0, f) = g[S]
  <2>1. FoldFunction(+, 0, f) = FoldFunctionOnSet(+, 0, f, S)
    BY Zenon DEF FoldFunction
  <2> QED
    BY <2>1, SumIsTally DEF g
<1> QED
  BY <1>4, <1>5 DEF Good

\* A sum changes by what its one changed term changes.
LEMMA SumChanged ==
  ASSUME NEW S, IsFiniteSet(S), NEW f \in [S -> Nat], NEW k \in S, NEW n \in Nat
  PROVE  FoldFunction(+, 0, [f EXCEPT ![k] = n]) = FoldFunction(+, 0, f) - f[k] + n
<1> DEFINE h == [f EXCEPT ![k] = n]
           a == Tally(f, S)
           b == Tally(h, S)
           Good == {t \in SUBSET S : /\ a[t] \in Nat
                                     /\ b[t] = IF k \in t THEN a[t] - f[k] + n ELSE a[t]}
<1>1. h \in [S -> Nat] /\ \A x \in S : h[x] = IF x = k THEN n ELSE f[x]
  OBVIOUS
<1>2. \A t \in SUBSET S : a[t] = IF t = {} THEN 0 ELSE f[Taken(t)] + a[t \ {Taken(t)}]
  BY TallyOfSubset
<1> HIDE DEF h, a
<1>3. \A t \in SUBSET S : b[t] = IF t = {} THEN 0 ELSE h[Taken(t)] + b[t \ {Taken(t)}]
  BY TallyOfSubset
<1> HIDE DEF b
<1>4. {} \in Good
  <2>1. {} \in SUBSET S /\ a[{}] = 0 /\ b[{}] = 0 /\ k \notin {}
    BY <1>2, <1>3
  <2> QED
    BY <2>1
<1>5. ASSUME NEW t \in SUBSET S, t # {}, t \ {Taken(t)} \in Good
      PROVE  t \in Good
  <2> DEFINE x == Taken(t)
             u == t \ {x}
  <2>1. x \in t /\ f[x] \in Nat /\ f[k] \in Nat
    BY <1>5 DEF Taken
  <2>2. a[t] = f[x] + a[u] /\ b[t] = h[x] + b[u]
    BY <1>2, <1>3, <1>5
  <2>3. a[u] \in Nat /\ b[u] = IF k \in u THEN a[u] - f[k] + n ELSE a[u]
    BY <1>5
  <2>4. h[x] = IF x = k THEN n ELSE f[x]
    BY <1>1, <2>1
  <2>5. k \in u <=> k \in t /\ k # x
    OBVIOUS
  <2> HIDE DEF x, u
  <2>6. a[t] \in Nat
    BY <2>1, <2>2, <2>3
  <2>7. b[t] = IF k \in t THEN a[t] - f[k] + n ELSE a[t]
    BY <2>1, <2>2, <2>3, <2>4, <2>5
  <2> QED
    BY <2>6, <2>7
<1> HIDE DEF Good
<1>6. S \in Good
  BY <1>4, <1>5, SubsetInduction
<1>7. FoldFunction(+, 0, f) = a[S]
  <2>1. FoldFunction(+, 0, f) = FoldFunctionOnSet(+, 0, f, S)
    BY Zenon DEF FoldFunction
  <2> QED
    BY <2>1, SumIsTally DEF a
<1>8. FoldFunction(+, 0, h) = b[S]
  <2>1. DOMAIN h = S
    BY <1>1
  <2>2. FoldFunction(+, 0, h) = FoldFunctionOnSet(+, 0, h, DOMAIN h)
    BY Zenon DEF FoldFunction
  <2>3. FoldFunctionOnSet(+, 0, h, S) = b[S]
    BY SumIsTally DEF b
  <2> QED
    BY Zenon, <2>1, <2>2, <2>3
<1> QED
  BY <1>6, <1>7, <1>8 DEF Good, h

\* A sum of nothing but zeros is zero.
LEMMA SumOfZeros ==
  ASSUME NEW S, IsFiniteSet(S)
  PROVE  FoldFunction(+, 0, [x \in S |-> 0]) = 0
<1> DEFINE f == [x \in S |-> 0]
           g == Tally(f, S)
           Good == {t \in SUBSET S : g[t] = 0}
<1>1. \A x \in S : f[x] = 0
  OBVIOUS
<1>0. DOMAIN f = S
  OBVIOUS
<1> HIDE DEF f
<1>2. \A t \in SUBSET S : g[t] = IF t = {} THEN 0 ELSE f[Taken(t)] + g[t \ {Taken(t)}]
  BY TallyOfSubset
<1> HIDE DEF g
<1>3. {} \in Good
  BY <1>2
<1>4. ASSUME NEW t \in SUBSET S, t # {}, t \ {Taken(t)} \in Good
      PROVE  t \in Good
  <2>1. Taken(t) \in S
    BY <1>4 DEF Taken
  <2> QED
    BY <1>1, <1>2, <1>4, <2>1
<1> HIDE DEF Good
<1>5. S \in Good
  BY <1>3, <1>4, SubsetInduction
<1>6. FoldFunction(+, 0, f) = g[S]
  <2>1. FoldFunction(+, 0, f) = FoldFunctionOnSet(+, 0, f, DOMAIN f)
    BY Zenon DEF FoldFunction
  <2>2. FoldFunctionOnSet(+, 0, f, S) = g[S]
    BY SumIsTally DEF g
  <2> QED
    BY Zenon, <1>0, <2>1, <2>2
<1> QED
  BY <1>5, <1>6 DEF Good, f

---------------------------------------------------------------------------
(* What is charged for the reservations of a scope.                        *)

UnitsOf(rs) == IF Len(rs) > 0 /\ ~rs[Len(rs)].released THEN rs[Len(rs)].units ELSE 0

Held(row) == FoldFunction(+, 0, [k \in Key |-> UnitsOf(row[k])])

\* UsageIsHeld, by what is held.
LEMMA UsageByHeld ==
  UsageIsHeld <=> \A s \in Scope : usage[s] = unkeyed[s] + Held(reservations[s])
BY DEF UsageIsHeld, Held, UnitsOf, ChargedUnits, Charged, Made

\* A reservation charges a natural number of units.
LEMMA UnitsOfIsNat ==
  ASSUME NEW rs \in Seq(Reservation)
  PROVE  UnitsOf(rs) \in Nat
<1>1. Len(rs) > 0 => rs[Len(rs)] \in Reservation
  OBVIOUS
<1> QED
  BY <1>1, QuotaAssumption DEF UnitsOf, Reservation

\* What a scope holds, before and after the reservations of one key changed.
LEMMA HeldChanged ==
  ASSUME NEW row \in [Key -> Seq(Reservation)], NEW k \in Key,
         NEW rs \in Seq(Reservation)
  PROVE  /\ Held(row) \in Nat
         /\ UnitsOf(row[k]) \in Nat /\ UnitsOf(row[k]) <= Held(row)
         /\ Held([row EXCEPT ![k] = rs]) = Held(row) - UnitsOf(row[k]) + UnitsOf(rs)
<1> DEFINE f == [j \in Key |-> UnitsOf(row[j])]
           h == [j \in Key |-> UnitsOf([row EXCEPT ![k] = rs][j])]
<1>1. f \in [Key -> Nat] /\ UnitsOf(rs) \in Nat
  BY UnitsOfIsNat
<1>2. h = [f EXCEPT ![k] = UnitsOf(rs)]
  OBVIOUS
<1>3. f[k] = UnitsOf(row[k])
  OBVIOUS
<1>4. Held(row) = FoldFunction(+, 0, f) /\ Held([row EXCEPT ![k] = rs]) = FoldFunction(+, 0, h)
  BY Zenon DEF Held
<1> HIDE DEF f, h
<1>5. FoldFunction(+, 0, f) \in Nat /\ f[k] <= FoldFunction(+, 0, f)
  BY <1>1, KeysAreFinite, SumIsNat
<1>6. FoldFunction(+, 0, [f EXCEPT ![k] = UnitsOf(rs)]) = FoldFunction(+, 0, f) - f[k] + UnitsOf(rs)
  BY <1>1, KeysAreFinite, SumChanged
<1>7. FoldFunction(+, 0, h) = FoldFunction(+, 0, f) - f[k] + UnitsOf(rs)
  BY Zenon, <1>2, <1>6
<1> QED
  BY <1>1, <1>3, <1>4, <1>5, <1>7

\* The primed form: the ledger balances when every scope does.
LEMMA BalancesThen ==
  ASSUME \A s \in Scope : usage'[s] = unkeyed'[s] + Held(reservations'[s])
  PROVE  UsageIsHeld'
<1>1. (UsageIsHeld <=> \A s \in Scope : usage[s] = unkeyed[s] + Held(reservations[s]))'
  BY UsageByHeld, PTL
<1> QED
  BY <1>1

\* The ledger still balances when the counter of a scope moves with the one key
\* whose reservations change.
LEMMA KeyBalances ==
  ASSUME LedgerTypeOK, UsageIsHeld, NEW s \in Scope, NEW k \in Key,
         NEW rs \in Seq(Reservation),
         reservations' = [reservations EXCEPT ![s][k] = rs],
         unkeyed' = unkeyed,
         usage' = [usage EXCEPT ![s] = usage[s] - UnitsOf(reservations[s][k]) + UnitsOf(rs)]
  PROVE  UsageIsHeld'
<1>1. /\ reservations \in [Scope -> [Key -> Seq(Reservation)]]
      /\ usage \in [Scope -> Nat] /\ unkeyed \in [Scope -> Nat]
  BY DEF LedgerTypeOK
<1>2. \A t \in Scope : usage[t] = unkeyed[t] + Held(reservations[t])
  BY UsageByHeld
<1>3. SUFFICES ASSUME NEW t \in Scope
               PROVE  usage'[t] = unkeyed'[t] + Held(reservations'[t])
  BY BalancesThen
<1>4. CASE t = s
  <2> DEFINE row == reservations[s]
  <2>1. reservations'[s] = [row EXCEPT ![k] = rs]
    BY <1>1
  <2>2. row \in [Key -> Seq(Reservation)] /\ usage[s] \in Nat /\ unkeyed[s] \in Nat
    BY <1>1
  <2>3. UnitsOf(rs) \in Nat
    BY UnitsOfIsNat
  <2>4. usage'[s] = usage[s] - UnitsOf(row[k]) + UnitsOf(rs)
    BY <1>1
  <2>5. usage[s] = unkeyed[s] + Held(row)
    BY <1>2
  <2> HIDE DEF row
  <2>6. /\ Held(row) \in Nat /\ UnitsOf(row[k]) \in Nat
        /\ Held([row EXCEPT ![k] = rs]) = Held(row) - UnitsOf(row[k]) + UnitsOf(rs)
    BY <2>2, HeldChanged
  <2> QED
    BY <1>4, <2>1, <2>2, <2>3, <2>4, <2>5, <2>6
<1>5. CASE t # s
  <2>1. reservations'[t] = reservations[t] /\ usage'[t] = usage[t]
    BY <1>1, <1>5
  <2> QED
    BY <1>2, <2>1
<1> QED
  BY <1>4, <1>5

\* A charged reservation that only gains or loses an owner charges what it did.
LEMMA OwnersBalance ==
  ASSUME LedgerInv, UsageIsHeld, NEW s \in Scope, NEW k \in Key,
         NEW g \in 1..Made(s, k), NEW C \in SUBSET (Claim \cup {NoClaim}),
         reservations' = [reservations EXCEPT ![s][k][g].claims = C],
         UNCHANGED <<usage, unkeyed>>
  PROVE  UsageIsHeld'
<1> DEFINE rs == reservations[s][k]
           r == [rs[g] EXCEPT !.claims = C]
<1>1. rs \in Seq(Reservation) /\ g \in 1..Len(rs) /\ usage \in [Scope -> Nat]
  BY DEF LedgerInv, LedgerTypeOK, Made
<1>2. rs[g] \in Reservation
  BY <1>1
<1>3. r \in Reservation /\ r.released = rs[g].released /\ r.units = rs[g].units
  BY <1>2 DEF Reservation
<1> HIDE DEF r
<1>4. /\ [rs EXCEPT ![g] = r] \in Seq(Reservation)
      /\ Len([rs EXCEPT ![g] = r]) = Len(rs)
      /\ \A h \in 1..Len(rs) : [rs EXCEPT ![g] = r][h] = IF h = g THEN r ELSE rs[h]
  BY <1>1, <1>3, ExceptSeq
<1>5. Len(rs) > 0 => Len(rs) \in 1..Len(rs)
  BY <1>1
<1>6. UnitsOf([rs EXCEPT ![g] = r]) = UnitsOf(rs)
  BY <1>3, <1>4, <1>5 DEF UnitsOf
<1>7. reservations' = [reservations EXCEPT ![s][k] = [rs EXCEPT ![g] = r]]
  BY DEF r, LedgerInv, LedgerTypeOK
<1>8. UnitsOf(rs) \in Nat
  BY <1>1, UnitsOfIsNat
<1>9. usage' = [usage EXCEPT ![s] = usage[s] - UnitsOf(rs) + UnitsOf([rs EXCEPT ![g] = r])]
  BY <1>1, <1>6, <1>8
<1> QED
  BY <1>4, <1>7, <1>9, KeyBalances DEF LedgerInv

\* A fresh reservation charges its units; the one before it charged none.
LEMMA ReserveBalances ==
  ASSUME LedgerInv, UsageIsHeld, NEW s \in Scope, NEW k \in Key, NEW u \in Units,
         NEW c \in Claim \cup {NoClaim}, Reserve(s, k, u, c)
  PROVE  UsageIsHeld'
<1> DEFINE rs == reservations[s][k]
           r == [units |-> u, claims |-> {c}, released |-> FALSE]
<1>1. rs \in Seq(Reservation) /\ usage \in [Scope -> Nat] /\ u \in Nat
  BY QuotaAssumption DEF LedgerInv, LedgerTypeOK
<1>2. r \in Reservation /\ ~r.released /\ r.units = u
  BY DEF Reservation
<1> HIDE DEF r
<1>3. UnitsOf(rs) = 0
  BY <1>1 DEF Reserve, Charged, Made, UnitsOf
<1>4. /\ Append(rs, r) \in Seq(Reservation)
      /\ Len(Append(rs, r)) = Len(rs) + 1 /\ Len(rs) \in Nat
      /\ Append(rs, r)[Len(rs) + 1] = r
  BY <1>1, <1>2
<1>5. UnitsOf(Append(rs, r)) = u
  BY <1>2, <1>4 DEF UnitsOf
<1>6. reservations' = [reservations EXCEPT ![s][k] = Append(rs, r)]
  BY DEF Reserve, r
<1>7. usage' = [usage EXCEPT ![s] = usage[s] - UnitsOf(rs) + UnitsOf(Append(rs, r))]
  <2>1. usage' = [usage EXCEPT ![s] = usage[s] + u]
    BY DEF Reserve
  <2>2. usage[s] + u = usage[s] - UnitsOf(rs) + UnitsOf(Append(rs, r))
    BY <1>1, <1>3, <1>5
  <2> QED
    BY Zenon, <2>1, <2>2
<1>8. unkeyed' = unkeyed
  BY DEF Reserve
<1> QED
  BY <1>4, <1>6, <1>7, <1>8, KeyBalances DEF LedgerInv

\* A release gives back exactly what the reservation charged: the counter never
\* falls short of it, so Uncharge cuts nothing off.
LEMMA ReleaseBalances ==
  ASSUME LedgerInv, UsageIsHeld, NEW s \in Scope, NEW k \in Key,
         NEW g \in 1..Made(s, k), Release(s, k, g)
  PROVE  UsageIsHeld'
<1> DEFINE rs == reservations[s][k]
           r == [rs[g] EXCEPT !.claims = {}, !.released = TRUE]
<1>1. /\ rs \in Seq(Reservation) /\ Owned(rs) /\ g \in 1..Len(rs)
      /\ usage \in [Scope -> Nat] /\ unkeyed \in [Scope -> Nat]
      /\ reservations[s] \in [Key -> Seq(Reservation)]
  BY DEF LedgerInv, LedgerTypeOK, ChargedIsOwned, Made
<1>2. ~rs[g].released /\ g = Len(rs)
  BY <1>1 DEF Release, Owned
<1>3. rs[g] \in Reservation
  BY <1>1
<1>4. UnitsOf(rs) = rs[g].units
  BY <1>1, <1>2 DEF UnitsOf
<1>5. r \in Reservation /\ r.released
  BY <1>3 DEF Reservation
<1> HIDE DEF r
<1>6. /\ [rs EXCEPT ![g] = r] \in Seq(Reservation)
      /\ Len([rs EXCEPT ![g] = r]) = Len(rs)
      /\ \A h \in 1..Len(rs) : [rs EXCEPT ![g] = r][h] = IF h = g THEN r ELSE rs[h]
  BY <1>1, <1>5, ExceptSeq
<1>7. UnitsOf([rs EXCEPT ![g] = r]) = 0
  BY <1>1, <1>2, <1>5, <1>6 DEF UnitsOf
<1>8. reservations' = [reservations EXCEPT ![s][k] = [rs EXCEPT ![g] = r]]
  BY DEF Release, LedgerInv, LedgerTypeOK, r
<1>9. usage[s] = unkeyed[s] + Held(reservations[s])
  BY UsageByHeld
<1>10. /\ Held(reservations[s]) \in Nat
       /\ UnitsOf(rs) \in Nat /\ UnitsOf(rs) <= Held(reservations[s])
  BY <1>1, HeldChanged
<1>11. usage' = [usage EXCEPT ![s] = IF usage[s] > rs[g].units
                                       THEN usage[s] - rs[g].units ELSE 0]
  BY DEF Release, Uncharge
<1>12. (IF usage[s] > rs[g].units THEN usage[s] - rs[g].units ELSE 0)
         = usage[s] - UnitsOf(rs) + UnitsOf([rs EXCEPT ![g] = r])
  BY <1>1, <1>4, <1>7, <1>9, <1>10
<1>13. usage' = [usage EXCEPT ![s] = usage[s] - UnitsOf(rs) + UnitsOf([rs EXCEPT ![g] = r])]
  BY <1>11, <1>12
<1>14. unkeyed' = unkeyed
  BY DEF Release
<1> QED
  BY <1>6, <1>8, <1>13, <1>14, KeyBalances DEF LedgerInv

\* A replay, and a compensation of one of several owners, move no units; the
\* compensation of the last owner is a release.
LEMMA ClaimsBalance ==
  ASSUME LedgerInv, UsageIsHeld, NEW s \in Scope, NEW k \in Key,
         \/ \E u \in Units, c \in Claim \cup {NoClaim} : Join(s, k, u, c)
         \/ \E g \in 1..Made(s, k), c \in Claim : Abandon(s, k, g, c)
  PROVE  UsageIsHeld'
<1> DEFINE rs == reservations[s][k]
<1>1. /\ reservations \in [Scope -> [Key -> Seq(Reservation)]] /\ rs \in Seq(Reservation)
      /\ \A g \in 1..Len(rs) : rs[g].claims \in SUBSET (Claim \cup {NoClaim})
  <2>1. reservations \in [Scope -> [Key -> Seq(Reservation)]] /\ rs \in Seq(Reservation)
    BY DEF LedgerInv, LedgerTypeOK
  <2>2. \A g \in 1..Len(rs) : rs[g] \in Reservation
    BY <2>1
  <2> QED
    BY <2>1, <2>2 DEF Reservation
<1>2. ASSUME NEW u \in Units, NEW c \in Claim \cup {NoClaim}, Join(s, k, u, c)
      PROVE  UsageIsHeld'
  <2> DEFINE g == Made(s, k)
             C == rs[g].claims \cup {c}
  <2>1. g \in 1..Made(s, k)
    BY <1>1, <1>2 DEF Join, Charged, Made
  <2>2. C \in SUBSET (Claim \cup {NoClaim})
    BY <1>1, <2>1 DEF Made
  <2>3. reservations' = [reservations EXCEPT ![s][k][g].claims = C]
    BY <1>2 DEF Join
  <2>4. UNCHANGED <<usage, unkeyed>>
    BY <1>2 DEF Join
  <2> HIDE DEF C, g
  <2> QED
    BY <2>1, <2>2, <2>3, <2>4, OwnersBalance
<1>3. ASSUME NEW g \in 1..Made(s, k), NEW c \in Claim, Abandon(s, k, g, c)
      PROVE  UsageIsHeld'
  <2>1. CASE rs[g].claims = {c}
    BY <1>3, <2>1, ReleaseBalances DEF Abandon
  <2>2. CASE rs[g].claims # {c}
    <3> DEFINE C == rs[g].claims \ {c}
    <3>1. C \in SUBSET (Claim \cup {NoClaim})
      BY <1>1 DEF Made
    <3>2. reservations' = [reservations EXCEPT ![s][k][g].claims = C]
      BY <1>3, <2>2 DEF Abandon
    <3>3. UNCHANGED <<usage, unkeyed>>
      BY <1>3, <2>2 DEF Abandon
    <3> HIDE DEF C
    <3> QED
      BY <3>1, <3>2, <3>3, OwnersBalance
  <2> QED
    BY <2>1, <2>2
<1> QED
  BY <1>2, <1>3

\* Admissions and releases without a key move the counter and their own tally.
LEMMA UnkeyedBalances ==
  ASSUME LedgerInv, UsageIsHeld, NEW s \in Scope, NEW u \in Units,
         Ask(s, u) \/ ReleaseUnkeyed(s, u)
  PROVE  UsageIsHeld'
<1>1. /\ usage \in [Scope -> Nat] /\ unkeyed \in [Scope -> Nat] /\ u \in Nat
      /\ \A t \in Scope : reservations[t] \in [Key -> Seq(Reservation)]
  BY QuotaAssumption DEF LedgerInv, LedgerTypeOK
<1>2. \A t \in Scope : usage[t] = unkeyed[t] + Held(reservations[t])
  BY UsageByHeld
<1>3. \A t \in Scope : Held(reservations[t]) \in Nat
  <2> SUFFICES ASSUME NEW t \in Scope PROVE Held(reservations[t]) \in Nat
    OBVIOUS
  <2> DEFINE f == [k \in Key |-> UnitsOf(reservations[t][k])]
  <2>1. f \in [Key -> Nat]
    BY <1>1, UnitsOfIsNat
  <2>2. Held(reservations[t]) = FoldFunction(+, 0, f)
    BY Zenon DEF Held
  <2> HIDE DEF f
  <2> QED
    BY <2>1, <2>2, KeysAreFinite, SumIsNat
<1>4. reservations' = reservations
  BY DEF Ask, AdmitUnkeyed, Defer, ReleaseUnkeyed
<1>5. SUFFICES ASSUME NEW t \in Scope
               PROVE  usage'[t] = unkeyed'[t] + Held(reservations[t])
  BY <1>4, BalancesThen
<1>6. CASE AdmitUnkeyed(s, u)
  <2>1. /\ usage'[t] = IF t = s THEN usage[s] + u ELSE usage[t]
        /\ unkeyed'[t] = IF t = s THEN unkeyed[s] + u ELSE unkeyed[t]
    BY <1>1, <1>6 DEF AdmitUnkeyed
  <2> QED
    BY <1>1, <1>2, <1>3, <2>1
<1>7. CASE Defer(s, u)
  BY <1>2, <1>7 DEF Defer
<1>8. CASE ReleaseUnkeyed(s, u)
  <2>1. /\ usage'[t] = IF t = s THEN (IF usage[s] > u THEN usage[s] - u ELSE 0) ELSE usage[t]
        /\ unkeyed'[t] = IF t = s THEN unkeyed[s] - u ELSE unkeyed[t]
        /\ unkeyed[s] >= u
    BY <1>1, <1>8 DEF ReleaseUnkeyed, Uncharge
  <2> QED
    BY <1>1, <1>2, <1>3, <2>1
<1> QED
  BY <1>6, <1>7, <1>8 DEF Ask

\* Every step keeps the ledger balanced.
LEMMA BalanceStep ==
  ASSUME LedgerInv, UsageIsHeld, [Next]_vars
  PROVE  UsageIsHeld'
<1>1. ASSUME NEW s \in Scope, NEW k \in Key, KeyNext(s, k) PROVE UsageIsHeld'
  BY <1>1, ReserveBalances, ReleaseBalances, ClaimsBalance DEF KeyNext
<1>2. ASSUME UNCHANGED <<usage, reservations, unkeyed>> PROVE UsageIsHeld'
  BY <1>2, UsageByHeld, BalancesThen
<1>3. CASE UNCHANGED vars
  BY <1>2, <1>3 DEF vars
<1>4. ASSUME NEW s \in Scope, NEW f \in Flag, NEW on \in BOOLEAN, SetFlag(s, f, on)
      PROVE  UsageIsHeld'
  BY <1>2, <1>4 DEF SetFlag
<1>5. ASSUME NEW on \in BOOLEAN, SetPressure(on) PROVE UsageIsHeld'
  BY <1>2, <1>5 DEF SetPressure
<1>6. CASE Next
  BY <1>1, <1>4, <1>5, <1>6, UnkeyedBalances DEF Next
<1> QED
  BY <1>3, <1>6

\* Nothing is charged for reservations that were never made.
LEMMA BalanceInit == Init => UsageIsHeld
<1> SUFFICES ASSUME Init, NEW s \in Scope
             PROVE  usage[s] = unkeyed[s] + Held(reservations[s])
  BY UsageByHeld
<1> DEFINE f == [k \in Key |-> UnitsOf(reservations[s][k])]
<1>1. f = [k \in Key |-> 0]
  BY DEF Init, UnitsOf
<1>2. Held(reservations[s]) = FoldFunction(+, 0, f)
  BY Zenon DEF Held
<1> HIDE DEF f
<1>3. FoldFunction(+, 0, f) = 0
  BY Zenon, <1>1, KeysAreFinite, SumOfZeros
<1>4. usage[s] = 0 /\ unkeyed[s] = 0
  BY DEF Init
<1>5. Held(reservations[s]) = 0
  BY Zenon, <1>2, <1>3
<1> QED
  BY <1>4, <1>5

---------------------------------------------------------------------------
(* The theorems.                                                           *)

\* The inductive invariant: types, owners and budget of the ledger.
THEOREM LedgerInvariant == Spec => []LedgerInv
<1>1. LedgerInv /\ [Next]_vars => LedgerInv'
  BY NextStep DEF LedgerStep
<1> QED
  BY LedgerInit, <1>1, PTL DEF Spec

\* The counter a scope is judged by is always what its callers hold: its unkeyed
\* admissions and the charged reservation of every key.
THEOREM LedgerBalances == Spec => []UsageIsHeld
<1>1. LedgerInv /\ UsageIsHeld /\ [Next]_vars => UsageIsHeld'
  BY BalanceStep
<1> QED
  BY LedgerInvariant, BalanceInit, <1>1, PTL DEF Spec

\* Whatever replays, compensations and releases come in whatever order, only the
\* newest reservation of a key is charged, and a charged one has an owner.
THEOREM OwnedWhileCharged == Spec => []ChargedIsOwned
  BY LedgerInvariant, PTL DEF LedgerInv

\* No scope is ever charged over its budget.
THEOREM BudgetRespected == Spec => []WithinLimit
  BY LedgerInvariant, PTL DEF LedgerInv

\* No step charges a scope that is suspended or contained.
THEOREM BlockedNotCharged == Spec => BlockedIsNotCharged
<1>1. LedgerInv /\ [Next]_vars =>
        [\A s \in Scope : blocked[s] # {} => usage'[s] <= usage[s]]_vars
  BY NextStep DEF LedgerStep
<1> QED
  BY LedgerInvariant, <1>1, PTL DEF Spec, BlockedIsNotCharged
============================================================================
