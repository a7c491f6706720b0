------------------------ MODULE SchedulerServiceProofs ------------------------
(***************************************************************************)
(* Schedulers, gateway triggers and administrators over one schedule, for  *)
(* any processes, schedule specs and faults.  What makes the proofs work   *)
(* is that every admission attempt has a number of its own, which stays on *)
(* the firing until its own process takes it back: as long as a receipt is *)
(* live, some number is there and the firing cannot fail.                  *)
(*                                                                         *)
(* The cursor passes from hand to hand: the record holds one, and so does  *)
(* every process that read the record under its revision.  Between any two *)
(* of these cursors every promised instant has a firing, so whichever of   *)
(* them is written next, no instant is passed.                             *)
(***************************************************************************)
EXTENDS SchedulerService, SequenceTheorems, FiniteSetTheorems, WellFoundedInduction, TLAPS

---------------------------------------------------------------------------
(* The clock: what next_fire_after and a catch-up pass return is an        *)
(* instant, or says that there is none.                                    *)

\* The least element of a set of integers is in it, and no greater than the others.
LEMMA LeastIsMember ==
  ASSUME NEW m \in Int, NEW n \in Int, NEW S \in SUBSET (m .. n), S # {}
  PROVE  Min(S) \in S /\ \A t \in S : Min(S) <= t
<1> DEFINE T == {t - m : t \in S}
           R == OpToRel(<, Nat)
<1>1. T \subseteq Nat /\ T # {}
  OBVIOUS
<1>2. IsWellFoundedOn(R, Nat)
  BY NatLessThanWellFounded
<1> HIDE DEF R
<1>3. PICK x \in T : \A y \in T : ~(<<y, x>> \in R)
  BY <1>1, <1>2, WFMin
<1>4. \A y \in T : ~(y < x)
  BY <1>1, <1>3 DEF R, OpToRel
<1>5. PICK l \in S : x = l - m
  OBVIOUS
<1>6. ASSUME NEW t \in S
      PROVE  l <= t
  <2>1. t - m \in T
    OBVIOUS
  <2>2. ~(t - m < l - m)
    BY <1>4, <1>5, <2>1
  <2>3. l \in Int /\ t \in Int
    OBVIOUS
  <2> QED
    BY <2>2, <2>3
<1>7. \E l2 \in S : \A t \in S : l2 <= t
  BY <1>6
<1> QED
  BY <1>7 DEF Min

LEMMA NextIsInstant ==
  ASSUME NEW s \in Specs, NEW after \in Int, NEW last \in Int
  PROVE  next_fire_after(s, after, last) \in Nat \cup {NoFire, Raises}
<1>1. /\ s.kind \in {"interval", "cron"}
      /\ s.step \in Nat \ {0} /\ s.period \in Nat \ {0} /\ s.phase \in Nat
      /\ s.jitter \in Nat /\ s.from \in Nat /\ s.until \in Nat
  BY ScheduleAssumption DEF ScheduleSpec
<1>2. \A t \in Int : InWindow(s, t) => t \in Nat
  BY <1>1 DEF InWindow
<1>3. SearchFrom(s, after) \in Int
  BY <1>1 DEF SearchFrom
<1>4. ASSUME NEW c \in Int
      PROVE  NextInterval(s, c, last) \in Nat \cup {NoFire}
  <2> DEFINE base == IF last = NoNominal THEN c ELSE last
             candidate == (IF base + s.step <= c THEN c + s.step ELSE base + s.step) + s.jitter
  <2>1. candidate \in Int
    BY <1>1
  <2> HIDE DEF candidate
  <2>2. (IF InWindow(s, candidate) THEN candidate ELSE NoFire) \in Nat \cup {NoFire}
    BY <1>2, <2>1
  <2> QED
    BY <2>2 DEF NextInterval, candidate
<1>5. ASSUME NEW c \in Int
      PROVE  NextCron(s, c) \in Nat \cup {Raises}
  <2> DEFINE start == (c \div Minute + 1) * Minute
             hits == {t \in start .. (start + Minute * s.period) :
                        CronMatch(s, t) /\ InWindow(s, t + s.jitter)}
  <2>1. Minute \in Nat \ {0}
    BY MinuteAssumption
  <2>2. c \div Minute \in Int
    BY <2>1
  <2>3. start \in Int
    BY <2>1, <2>2
  <2>4. Minute * s.period \in Int
    BY <1>1, <2>1
  <2>5. start + Minute * s.period \in Int
    BY <2>3, <2>4
  <2>6. hits \in SUBSET (start .. (start + Minute * s.period))
    OBVIOUS
  <2> HIDE DEF start
  <2>7. NextCron(s, c) = IF hits = {} THEN Raises ELSE Min(hits) + s.jitter
    BY DEF NextCron, start
  <2>8. \A h \in hits : h \in Int /\ InWindow(s, h + s.jitter)
    BY <2>3, <2>5
  <2> HIDE DEF hits
  <2>9. ASSUME hits # {}
        PROVE  Min(hits) + s.jitter \in Nat
    <3>1. Min(hits) \in hits
      BY <2>3, <2>5, <2>6, <2>9, LeastIsMember
    <3>2. Min(hits) \in Int /\ InWindow(s, Min(hits) + s.jitter)
      BY <2>8, <3>1
    <3> QED
      BY <1>1, <1>2, <3>2
  <2> QED
    BY <2>7, <2>9
<1>6. NextInterval(s, SearchFrom(s, after), last) \in Nat \cup {NoFire}
  BY <1>3, <1>4
<1>7. NextCron(s, SearchFrom(s, after)) \in Nat \cup {Raises}
  BY <1>3, <1>5
<1> QED
  BY <1>6, <1>7 DEF next_fire_after

\* What CatchUpWalk is: there is a function that its recursion describes.
LEMMA WalkIsDefined ==
  ASSUME NEW s \in Specs, NEW last \in Int, NEW clk \in Int
  PROVE  LET walk == CatchUpWalk(s, last, clk) IN
         walk = [i \in 0 .. s.catch_up_max |->
                   IF i = 0 THEN last
                   ELSE IF walk[i - 1] \in {NoFire, Raises} \/ (i > 1 /\ walk[i - 1] > clk)
                          THEN NoFire
                          ELSE next_fire_after(s, walk[i - 1], walk[i - 1])]
<1> DEFINE Then(i, prev) ==
             IF prev \in {NoFire, Raises} \/ (i > 1 /\ prev > clk)
               THEN NoFire ELSE next_fire_after(s, prev, prev)
           Walks(n, w) == w = [i \in 0 .. n |-> IF i = 0 THEN last ELSE Then(i, w[i - 1])]
           Long == {n \in Nat : ~\E w : Walks(n, w)}
           R == OpToRel(<, Nat)
<1>1. s.catch_up_max \in Nat
  BY ScheduleAssumption DEF ScheduleSpec
<1>2. IsWellFoundedOn(R, Nat)
  BY NatLessThanWellFounded
<1> HIDE DEF Then
<1>3. Walks(0, [i \in 0 .. 0 |-> last])
  OBVIOUS
<1>4. ASSUME NEW n \in Nat, NEW w, Walks(n, w)
      PROVE  \E v : Walks(n + 1, v)
  <2> DEFINE v == [i \in 0 .. (n + 1) |-> IF i = 0 THEN last ELSE Then(i, w[i - 1])]
  <2>1. \A i \in 0 .. n : w[i] = IF i = 0 THEN last ELSE Then(i, w[i - 1])
    BY <1>4
  <2>2. \A i \in 0 .. n : v[i] = w[i]
    BY <2>1
  <2>3. \A i \in 0 .. (n + 1) : i # 0 => i - 1 \in 0 .. n
    OBVIOUS
  <2>4. \A i \in 0 .. (n + 1) : i # 0 => v[i - 1] = w[i - 1]
    BY <2>2, <2>3
  <2> DEFINE u == [i \in 0 .. (n + 1) |-> IF i = 0 THEN last ELSE Then(i, v[i - 1])]
  <2>5. v = u
    <3> HIDE DEF v
    <3>1. v = [i \in 0 .. (n + 1) |-> IF i = 0 THEN last ELSE Then(i, w[i - 1])]
      BY DEF v
    <3> QED
      BY <2>4, <3>1
  <2>6. Walks(n + 1, v)
    BY <2>5
  <2> QED
    BY <2>6
<1> HIDE DEF Walks
<1>5. Long = {}
  <2> SUFFICES ASSUME Long # {}
               PROVE  FALSE
    OBVIOUS
  <2>1. Long \subseteq Nat
    OBVIOUS
  <2> HIDE DEF R
  <2>2. PICK n \in Long : \A m \in Long : ~(<<m, n>> \in R)
    BY <1>2, <2>1, WFMin
  <2>3. \A m \in Long : ~(m < n)
    BY <2>1, <2>2 DEF R, OpToRel
  <2>4. n # 0
    BY <1>3
  <2>5. n - 1 \in Nat /\ n - 1 < n
    BY <2>1, <2>4
  <2>6. n - 1 \notin Long
    BY <2>3, <2>5
  <2>7. \E w : Walks(n - 1, w)
    BY <2>5, <2>6
  <2>8. \E w : Walks((n - 1) + 1, w)
    BY <1>4, <2>5, <2>7
  <2>9. (n - 1) + 1 = n
    BY <2>1
  <2> QED
    BY <2>8, <2>9
<1>6. \E w : Walks(s.catch_up_max, w)
  BY <1>1, <1>5
<1>7. CatchUpWalk(s, last, clk) = CHOOSE w : Walks(s.catch_up_max, w)
  BY DEF CatchUpWalk, Walks, Then
<1>8. Walks(s.catch_up_max, CatchUpWalk(s, last, clk))
  BY <1>6, <1>7
<1> QED
  BY <1>8 DEF Walks, Then

\* A catch-up pass lists instants up to now, unless it raises; each is the next
\* one after the one before it, and the list only ends early when the next one
\* is not yet due.
LEMMA CatchUpInstants ==
  ASSUME NEW s \in Specs, NEW last \in Int, NEW clk \in Nat
  PROVE  LET l == catch_up_nominals(s, last, clk) IN
         /\ l \in {<<Raises>>} \cup Seq(0 .. clk)
         /\ \A i \in 1 .. (Len(l) - 1) : l[i + 1] = next_fire_after(s, l[i], l[i])
         /\ l \notin {<<Raises>>, <<>>} => l[1] = next_fire_after(s, last, last)
         /\ l # <<Raises>> =>
              /\ Len(l) <= s.catch_up_max
              /\ (Len(l) < s.catch_up_max /\ last >= 0) =>
                   LET m == IF l = <<>> THEN last ELSE l[Len(l)]
                       d == next_fire_after(s, m, m)
                   IN  d # Raises /\ (d = NoFire \/ d > clk)
<1> DEFINE max == s.catch_up_max
           walk == CatchUpWalk(s, last, clk)
           D == {i \in 1 .. max : walk[i] \notin {NoFire, Raises} /\ walk[i] <= clk}
           list == [i \in 1 .. Cardinality(D) |-> walk[i]]
           R == OpToRel(<, Nat)
<1>1. max \in Nat
  BY ScheduleAssumption DEF ScheduleSpec
<1>2. walk = [i \in 0 .. max |->
                IF i = 0 THEN last
                ELSE IF walk[i - 1] \in {NoFire, Raises} \/ (i > 1 /\ walk[i - 1] > clk)
                       THEN NoFire
                       ELSE next_fire_after(s, walk[i - 1], walk[i - 1])]
  BY WalkIsDefined
<1>3. IsWellFoundedOn(R, Nat)
  BY NatLessThanWellFounded
<1>4. catch_up_nominals(s, last, clk) =
        IF \E i \in 1 .. max : walk[i] = Raises THEN <<Raises>> ELSE list
  BY DEF catch_up_nominals
<1> HIDE DEF max, walk
<1>5. /\ walk[0] = last
      /\ \A i \in 1 .. max :
           walk[i] = IF walk[i - 1] \in {NoFire, Raises} \/ (i > 1 /\ walk[i - 1] > clk)
                       THEN NoFire
                       ELSE next_fire_after(s, walk[i - 1], walk[i - 1])
  <2>1. \A i \in 0 .. max :
          walk[i] = IF i = 0 THEN last
                    ELSE IF walk[i - 1] \in {NoFire, Raises} \/ (i > 1 /\ walk[i - 1] > clk)
                           THEN NoFire
                           ELSE next_fire_after(s, walk[i - 1], walk[i - 1])
    BY <1>2, Zenon
  <2>2. 0 \in 0 .. max /\ \A i \in 1 .. max : i \in 0 .. max /\ i # 0
    BY <1>1
  <2> QED
    BY <2>1, <2>2
\* Each instant follows one that has not passed now.
<1>6. ASSUME NEW i \in 1 .. max, walk[i] \notin {NoFire, Raises}, i # 1
      PROVE  i - 1 \in D \/ (~(walk[i - 1] > clk) /\ walk[i - 1] \notin {NoFire, Raises})
  BY <1>5, <1>6
<1>7. \A i \in 0 .. max : walk[i] \in Int
  <2> DEFINE Odd == {i \in Nat : i <= max /\ walk[i] \notin Int}
  <2> SUFFICES ASSUME Odd # {}
               PROVE  FALSE
    BY <1>1
  <2>1. Odd \subseteq Nat
    OBVIOUS
  <2> HIDE DEF R
  <2>2. PICK n \in Odd : \A m \in Odd : ~(<<m, n>> \in R)
    BY <1>3, <2>1, WFMin
  <2>3. \A m \in Odd : ~(m < n)
    BY <2>1, <2>2 DEF R, OpToRel
  <2>4. n \in Nat /\ n <= max /\ walk[n] \notin Int /\ n # 0
    BY <1>5
  <2>5. n \in 1 .. max /\ n - 1 \in Nat /\ n - 1 < n /\ n - 1 <= max
    BY <1>1, <2>4
  <2>6. n - 1 \notin Odd
    BY <2>3, <2>5
  <2>7. walk[n - 1] \in Int
    BY <2>5, <2>6
  <2>8. next_fire_after(s, walk[n - 1], walk[n - 1]) \in Nat \cup {NoFire, Raises}
    BY <2>7, NextIsInstant
  <2> QED
    BY <1>5, <2>4, <2>5, <2>8 DEF NoFire, Raises
<1>8. ASSUME NEW i \in 1 .. max
      PROVE  walk[i] \in Nat \cup {NoFire, Raises}
  <2>1. i - 1 \in 0 .. max
    BY <1>1
  <2>2. next_fire_after(s, walk[i - 1], walk[i - 1]) \in Nat \cup {NoFire, Raises}
    BY <1>7, <2>1, NextIsInstant
  <2> QED
    BY <1>5, <2>2
<1>9. ASSUME NEW i \in D, i # 1
      PROVE  i - 1 \in D
  <2>1. i \in 1 .. max /\ i - 1 \in 1 .. max /\ walk[i] \notin {NoFire, Raises}
    BY <1>1, <1>9
  <2>2. ~(walk[i - 1] > clk) /\ walk[i - 1] \notin {NoFire, Raises}
    BY <1>5, <1>9, <2>1
  <2>3. walk[i - 1] \in Int
    BY <1>8, <2>1 DEF NoFire, Raises
  <2> QED
    BY <2>1, <2>2, <2>3
\* So they are the first ones of the walk.
<1>10. D = 1 .. Cardinality(D)
  <2> DEFINE Missing == {i \in Nat : i + 1 \notin D}
  <2>1. Missing \subseteq Nat /\ max \in Missing
    BY <1>1
  <2> HIDE DEF R
  <2>2. PICK n \in Missing : \A m \in Missing : ~(<<m, n>> \in R)
    BY <1>3, <2>1, WFMin
  <2>3. \A m \in Missing : ~(m < n)
    BY <2>1, <2>2 DEF R, OpToRel
  <2>4. n \in Nat /\ n + 1 \notin D
    OBVIOUS
  <2>5. 1 .. n \subseteq D
    <3> SUFFICES ASSUME NEW i \in 1 .. n
                 PROVE  i \in D
      OBVIOUS
    <3>1. i - 1 \in Nat /\ i - 1 < n /\ (i - 1) + 1 = i
      BY <2>4
    <3> QED
      BY <2>3, <3>1
  <2>6. D \subseteq 1 .. n
    <3> DEFINE Later == {i \in Nat : i \in D /\ i > n}
    <3> SUFFICES ASSUME Later # {}
                 PROVE  FALSE
      BY <2>4
    <3>1. Later \subseteq Nat
      OBVIOUS
    <3>2. PICK l \in Later : \A m \in Later : ~(<<m, l>> \in R)
      BY <1>3, <3>1, WFMin
    <3>3. \A m \in Later : ~(m < l)
      BY <3>1, <3>2 DEF R, OpToRel
    <3>4. l \in Nat /\ l \in D /\ l > n
      OBVIOUS
    <3>5. l # n + 1
      BY <2>4, <3>4
    <3>6. l # 1 /\ l - 1 \in Nat /\ l - 1 > n /\ l - 1 < l
      BY <2>4, <3>4, <3>5
    <3>7. l - 1 \in D
      BY <1>9, <3>4, <3>6
    <3> QED
      BY <3>3, <3>6, <3>7
  <2>7. D = 1 .. n
    BY <2>5, <2>6
  <2>8. Cardinality(1 .. n) = n
    <3>1. 1 - 1 = 0 /\ n = n - 1 + 1
      BY <2>4
    <3> QED
      BY <2>4, <3>1, FS_Interval
  <2> QED
    BY <2>7, <2>8, Zenon
<1>11. ASSUME NEW i \in D
       PROVE  walk[i] \in 0 .. clk
  BY <1>8
<1>12. list \in Seq(0 .. clk)
  <2>1. IsFiniteSet(D)
    <3>1. IsFiniteSet(1 .. max)
      BY <1>1, FS_Interval
    <3>2. D \subseteq 1 .. max
      OBVIOUS
    <3> QED
      BY <3>1, <3>2, FS_Subset
  <2>2. Cardinality(D) \in Nat
    BY <2>1, FS_CardinalityType
  <2>3. \A i \in 1 .. Cardinality(D) : walk[i] \in 0 .. clk
    BY <1>10, <1>11
  <2> HIDE DEF D
  <2> QED
    BY <2>2, <2>3
<1>13. /\ list # <<Raises>>
       /\ \A i \in 1 .. (Len(list) - 1) : list[i + 1] = next_fire_after(s, list[i], list[i])
       /\ list # <<>> => list[1] = next_fire_after(s, last, last)
       /\ Len(list) <= max
       /\ (Len(list) < max /\ last >= 0 /\ ~\E i \in 1 .. max : walk[i] = Raises) =>
            LET m == IF list = <<>> THEN last ELSE list[Len(list)]
                d == next_fire_after(s, m, m)
            IN  d # Raises /\ (d = NoFire \/ d > clk)
  <2> DEFINE n == Cardinality(D)
  <2>1. Len(list) \in Nat /\ DOMAIN list = 1 .. Len(list)
    <3> HIDE DEF list
    <3> QED
      BY <1>12
  <2>2. DOMAIN list = 1 .. n
    OBVIOUS
  <2>3. D = 1 .. Len(list)
    BY <1>10, <2>1, <2>2
  <2>4. \A i \in D : list[i] = walk[i]
    BY <2>2, <2>3, <2>1
  <2>5. \A i \in D : /\ i \in 1 .. max /\ walk[i] \in Nat /\ walk[i] <= clk
                    /\ walk[i] \notin {NoFire, Raises}
    BY <1>11
  <2>9. \A i \in 1 .. max : i \notin D => walk[i] \in {NoFire, Raises} \/ ~(walk[i] <= clk)
    OBVIOUS
  <2> HIDE DEF D, list
  <2>6. ASSUME NEW i \in 1 .. (Len(list) - 1)
        PROVE  list[i + 1] = next_fire_after(s, list[i], list[i])
    <3>1. i \in D /\ i + 1 \in D /\ (i + 1) - 1 = i
      BY <2>1, <2>3
    <3>2. walk[i + 1] = IF walk[(i + 1) - 1] \in {NoFire, Raises} \/ (i + 1 > 1 /\ walk[(i + 1) - 1] > clk)
                          THEN NoFire
                          ELSE next_fire_after(s, walk[(i + 1) - 1], walk[(i + 1) - 1])
      BY <1>5, <2>5, <3>1
    <3>3. ~(walk[i] \in {NoFire, Raises} \/ (i + 1 > 1 /\ walk[i] > clk))
      BY <2>5, <3>1
    <3>4. walk[i + 1] = next_fire_after(s, walk[i], walk[i])
      BY <3>1, <3>2, <3>3
    <3> QED
      BY <2>4, <3>1, <3>4
  <2>7. ASSUME list # <<>>
        PROVE  list[1] = next_fire_after(s, last, last)
    <3>1. 1 \in D
      BY <1>12, <2>1, <2>3, <2>7
    <3>2. walk[1] = IF walk[0] \in {NoFire, Raises} THEN NoFire
                      ELSE next_fire_after(s, walk[0], walk[0])
      <4>1. 1 \in 1 .. max /\ 1 - 1 = 0 /\ ~(1 > 1)
        BY <2>5, <3>1
      <4> QED
        BY <1>5, <4>1
    <3>3. walk[1] = next_fire_after(s, last, last)
      BY <1>5, <2>5, <3>1, <3>2
    <3> QED
      BY <2>4, <3>1, <3>3
  <2>8. list # <<Raises>>
    BY <1>12 DEF Raises
  <2>10. Len(list) <= max
    <3>1. Len(list) >= 1 => Len(list) \in D
      BY <2>1, <2>3
    <3> QED
      BY <1>1, <2>1, <2>5, <3>1
  <2>11. ASSUME Len(list) < max, last >= 0, ~\E i \in 1 .. max : walk[i] = Raises
         PROVE  LET m == IF list = <<>> THEN last ELSE list[Len(list)]
                    d == next_fire_after(s, m, m)
                IN  d # Raises /\ (d = NoFire \/ d > clk)
    <3>1. PICK k : k = Len(list)
      OBVIOUS
    <3>2. /\ k \in Nat /\ k + 1 \in 1 .. max /\ k + 1 \notin D /\ (k + 1) - 1 = k
          /\ k # 0 => k \in D
      BY <1>1, <2>1, <2>3, <2>11, <3>1
    <3>3. PICK m : m = IF list = <<>> THEN last ELSE list[Len(list)]
      OBVIOUS
    <3>4. walk[k] = m
      <4>1. CASE k = 0
        <5>1. list = <<>>
          <6>1. PICK q : q = list
            OBVIOUS
          <6>2. q \in Seq(0 .. clk) /\ Len(q) = 0
            BY <1>12, <3>1, <4>1, <6>1
          <6>3. q = <<>>
            BY <6>2
          <6> QED
            BY <6>1, <6>3
        <5> QED
          BY <1>5, <3>3, <4>1, <5>1
      <4>2. CASE k # 0
        <5>1. list # <<>>
          BY <1>12, <3>1, <4>2
        <5> QED
          BY <2>4, <3>1, <3>2, <3>3, <4>2, <5>1
      <4> QED
        BY <4>1, <4>2
    <3>5. ~(walk[k] \in {NoFire, Raises} \/ (k + 1 > 1 /\ walk[k] > clk))
      <4>1. CASE k = 0
        BY <1>5, <2>11, <4>1 DEF NoFire, Raises
      <4>2. CASE k # 0
        BY <2>5, <3>2, <4>2
      <4> QED
        BY <4>1, <4>2
    <3>6. walk[k + 1] = next_fire_after(s, m, m)
      BY <1>5, <3>2, <3>4, <3>5
    <3>7. walk[k + 1] # Raises
      BY <2>11, <3>2
    <3>8. walk[k + 1] \in Int
      BY <1>7, <3>2
    <3>9. walk[k + 1] = NoFire \/ walk[k + 1] > clk
      BY <2>9, <3>2, <3>7, <3>8
    <3> QED
      BY <3>3, <3>6, <3>7, <3>9
  <2> QED
    BY <2>6, <2>7, <2>8, <2>10, <2>11
<1> HIDE DEF list
<1>16. Len(<<Raises>>) = 1
  OBVIOUS
<1>14. CASE \E i \in 1 .. max : walk[i] = Raises
  BY <1>4, <1>14, <1>16
<1>15. CASE ~\E i \in 1 .. max : walk[i] = Raises
  BY <1>4, <1>12, <1>13, <1>15 DEF max
<1> QED
  BY <1>14, <1>15

---------------------------------------------------------------------------
(* The instants of a schedule, and how far apart they are.  Occurrences are *)
(* counted apart from one another when the jitter is small: an interval's   *)
(* jitter is added to every occurrence after the one it moves, and a cron   *)
(* jitter is compared with the minutes it is searched among.                *)

\* Division with remainder.
LEMMA Remainder ==
  ASSUME NEW n \in Nat \ {0}, NEW x \in Int
  PROVE  /\ x \div n \in Int /\ x % n \in 0 .. (n - 1)
         /\ x = n * (x \div n) + (x % n)
OBVIOUS

\* A multiple of n is 0, or as far from 0 as n.
LEMMA NoSmallMultiple ==
  ASSUME NEW n \in Nat \ {0}, NEW q \in Int, n * q > -n, n * q < n
  PROVE  q = 0
<1>1. q >= 1 => n * q >= n
  OBVIOUS
<1>2. q <= -1 => n * q <= -n
  OBVIOUS
<1> QED
  BY <1>1, <1>2

\* The quotient is the only one that leaves a remainder.
LEMMA OnlyQuotient ==
  ASSUME NEW n \in Nat \ {0}, NEW q \in Int, NEW r \in 0 .. (n - 1)
  PROVE  (n * q + r) \div n = q /\ (n * q + r) % n = r
<1> DEFINE x == n * q + r
           d == x \div n
           e == x % n
<1>1. x \in Int /\ n * q \in Int
  OBVIOUS
<1>2. d \in Int /\ e \in 0 .. (n - 1) /\ x = n * d + e
  BY <1>1, Remainder
<1> HIDE DEF d, e
<1>3. n * (q - d) = n * q - n * d /\ q - d \in Int
  BY <1>2
<1>4. n * q - n * d = e - r
  BY <1>1, <1>2
<1>5. q - d = 0
  BY <1>2, <1>3, <1>4, NoSmallMultiple
<1> QED
  BY <1>2, <1>5 DEF d, e

\* Multiples of n add up to multiples of n, and lie n apart.
LEMMA Multiples ==
  ASSUME NEW n \in Nat \ {0}, NEW x \in Int, NEW y \in Int, x % n = 0, y % n = 0
  PROVE  /\ (x + y) % n = 0 /\ (x - y) % n = 0 /\ n % n = 0
         /\ x > y => x >= y + n
<1> DEFINE a == x \div n
           b == y \div n
<1>1. a \in Int /\ b \in Int /\ x = n * a + 0 /\ y = n * b + 0
  BY Remainder
<1> HIDE DEF a, b
<1>2. x + y = n * (a + b) + 0 /\ x - y = n * (a - b) + 0 /\ n = n * 1 + 0
  BY <1>1
<1>3. a + b \in Int /\ a - b \in Int /\ 1 \in Int /\ 0 \in 0 .. (n - 1)
  BY <1>1
<1>4. (n * (a + b) + 0) % n = 0 /\ (n * (a - b) + 0) % n = 0 /\ (n * 1 + 0) % n = 0
  BY <1>3, OnlyQuotient
<1>5. ASSUME x > y
      PROVE  x >= y + n
  <2>1. n * (a - b) > 0
    BY <1>1, <1>2, <1>5
  <2>2. a - b <= 0 => n * (a - b) <= 0
    BY <1>3
  <2>3. a - b >= 1 => n * (a - b) >= n
    BY <1>3
  <2> QED
    BY <1>2, <1>3, <2>1, <2>2, <2>3
<1> QED
  BY Zenon, <1>2, <1>4, <1>5

\* The first whole minute after c.
LEMMA NextMinute ==
  ASSUME NEW t \in Int, t % Minute = 0, NEW c \in Int, t - Minute <= c, c < t
  PROVE  (c \div Minute + 1) * Minute = t
<1>1. Minute \in Nat \ {0}
  BY MinuteAssumption
<1> DEFINE a == t \div Minute
           r == c - t + Minute
<1>2. a \in Int /\ t = Minute * a + 0
  BY <1>1, Remainder
<1> HIDE DEF a
<1>3. r \in 0 .. (Minute - 1) /\ a - 1 \in Int
  BY <1>1, <1>2
<1>4. c = Minute * (a - 1) + r
  BY <1>1, <1>2
<1> HIDE DEF r
<1>5. (Minute * (a - 1) + r) \div Minute = a - 1
  BY <1>1, <1>3, OnlyQuotient
<1>6. c \div Minute = a - 1
  BY <1>4, <1>5
<1> QED
  BY <1>1, <1>2, <1>6

\* Where the search for a minute starts: after c, and less than a minute after it.
LEMMA SearchStart ==
  ASSUME NEW c \in Int
  PROVE  LET start == (c \div Minute + 1) * Minute IN
         /\ start \in Int /\ start > c /\ start <= c + Minute /\ start % Minute = 0
         /\ c >= 0 => start >= Minute
<1>1. Minute \in Nat \ {0}
  BY MinuteAssumption
<1> DEFINE a == c \div Minute
           e == c % Minute
<1>2. a \in Int /\ e \in 0 .. (Minute - 1) /\ c = Minute * a + e
  BY <1>1, Remainder
<1> HIDE DEF a, e
<1>3. (a + 1) * Minute = Minute * (a + 1) + 0 /\ (a + 1) * Minute = Minute * a + Minute
  BY <1>1, <1>2
<1>4. a + 1 \in Int /\ 0 \in 0 .. (Minute - 1)
  BY <1>1, <1>2
<1>5. (Minute * (a + 1) + 0) % Minute = 0
  BY <1>1, <1>4, OnlyQuotient
<1>6. (a + 1) * Minute \in Int
  BY <1>1, <1>2
<1>7. c >= 0 => a >= 0
  <2>1. a <= -1 => Minute * a <= -Minute
    BY <1>1, <1>2
  <2> QED
    BY <1>1, <1>2, <2>1
<1>8. a >= 0 => (a + 1) * Minute >= Minute
  BY <1>1, <1>2
<1> QED
  BY <1>1, <1>2, <1>3, <1>5, <1>6, <1>7, <1>8 DEF a

\* The jitter of a schedule leaves its occurrences apart.
LittleJitter(s) == IF s.kind = "interval" THEN s.jitter = 0 ELSE s.jitter < Minute

\* Where a cursor can be.
OnSchedule(s, c) ==
  /\ InWindow(s, c)
  /\ IF s.kind = "interval"
       THEN c >= s.step
       ELSE /\ CronMatch(s, c - s.jitter)
            /\ c - s.jitter >= Minute
            /\ c - s.jitter >= s.from

\* What t and the cursor c have in common.
SameGrid(s, c, t) ==
  IF s.kind = "interval" THEN (t - c) % s.step = 0 ELSE CronMatch(s, t - s.jitter)

\* The fields of a schedule's spec.
LEMMA SpecFields ==
  ASSUME NEW s \in Specs
  PROVE  /\ s.kind \in {"interval", "cron"}
         /\ s.step \in Nat \ {0} /\ s.period \in Nat \ {0} /\ s.phase \in Nat
         /\ s.jitter \in Nat /\ s.from \in Nat /\ s.until \in Nat
         /\ s.misfire \in {"fire_once", "skip", "catch_up"} /\ s.catch_up_max \in Nat
         /\ Minute \in Nat \ {0}
BY ScheduleAssumption, MinuteAssumption DEF ScheduleSpec

\* What the search for a cron minute returns: the first matching one.
LEMMA CronFinds ==
  ASSUME NEW s \in Specs, NEW c \in Int, NextCron(s, c) # Raises
  PROVE  LET start == (c \div Minute + 1) * Minute
             d == NextCron(s, c)
         IN  /\ d \in Int /\ d - s.jitter >= start
             /\ CronMatch(s, d - s.jitter) /\ InWindow(s, d)
             /\ \A t \in Int : (t - s.jitter >= start /\ CronMatch(s, t - s.jitter) /\ InWindow(s, t))
                               => t >= d
<1> DEFINE start == (c \div Minute + 1) * Minute
           end == start + Minute * s.period
           hits == {t \in start .. end : CronMatch(s, t) /\ InWindow(s, t + s.jitter)}
<1>1. s.period \in Nat \ {0} /\ s.jitter \in Nat /\ Minute \in Nat \ {0}
  BY SpecFields
<1>2. start \in Int
  BY SearchStart
<1>3. end \in Int
  <2>1. Minute * s.period \in Int
    BY <1>1
  <2> HIDE DEF start
  <2> QED
    BY <1>2, <2>1
<1>4. NextCron(s, c) = IF hits = {} THEN Raises ELSE Min(hits) + s.jitter
  BY DEF NextCron
<1> HIDE DEF start, end
<1>5. hits \in SUBSET (start .. end) /\ hits # {}
  BY <1>4
<1>6. Min(hits) \in hits /\ \A t \in hits : Min(hits) <= t
  BY <1>2, <1>3, <1>5, LeastIsMember
<1>7. PICK m \in Int : /\ m = Min(hits) /\ m >= start /\ m <= end
                       /\ CronMatch(s, m) /\ InWindow(s, m + s.jitter)
  <2>1. \A h \in hits : /\ h \in Int /\ h >= start /\ h <= end
                        /\ CronMatch(s, h) /\ InWindow(s, h + s.jitter)
    BY <1>2, <1>3
  <2> HIDE DEF hits
  <2> QED
    BY <1>6, <2>1
<1>8. NextCron(s, c) = m + s.jitter /\ m + s.jitter \in Int /\ (m + s.jitter) - s.jitter = m
  BY <1>1, <1>4, <1>5, <1>7
<1>9. ASSUME NEW t \in Int, t - s.jitter >= start,
             CronMatch(s, t - s.jitter), InWindow(s, t)
      PROVE  t >= m + s.jitter
  <2> DEFINE u == t - s.jitter
  <2>1. u \in Int /\ u + s.jitter = t
    BY <1>1
  <2> HIDE DEF u
  <2>2. CASE u <= end
    <3>1. u \in hits
      BY <1>2, <1>3, <1>9, <2>1, <2>2 DEF u
    <3> QED
      BY <1>1, <1>6, <1>7, <2>1, <3>1
  <2>3. CASE u > end
    BY <1>1, <1>3, <1>7, <2>1, <2>3
  <2> QED
    BY <1>3, <2>1, <2>2, <2>3
<1> DEFINE d == NextCron(s, c)
<1>10. d = m + s.jitter /\ d \in Int /\ d - s.jitter = m
  BY <1>8
<1> HIDE DEF d, hits
<1>11. d - s.jitter >= start /\ CronMatch(s, d - s.jitter) /\ InWindow(s, d)
  <2>1. d - s.jitter >= start
    BY <1>7, <1>10
  <2>2. CronMatch(s, d - s.jitter)
    BY Zenon, <1>7, <1>10
  <2>3. InWindow(s, d)
    BY Zenon, <1>7, <1>10
  <2> QED
    BY <2>1, <2>2, <2>3
<1>12. \A t \in Int : (t - s.jitter >= start /\ CronMatch(s, t - s.jitter) /\ InWindow(s, t))
                               => t >= d
  <2> SUFFICES ASSUME NEW t \in Int, t - s.jitter >= start,
                      CronMatch(s, t - s.jitter), InWindow(s, t)
               PROVE  t >= d
    BY Zenon
  <2>1. t >= m + s.jitter
    BY Zenon, <1>9
  <2> QED
    BY <1>10, <2>1
<1> QED
  BY <1>10, <1>11, <1>12 DEF start, d

\* Where the search starts, the window is at most an instant away.
LEMMA SearchesInWindow ==
  ASSUME NEW s \in Specs, NEW after \in Int
  PROVE  /\ SearchFrom(s, after) \in Int
         /\ SearchFrom(s, after) >= after /\ SearchFrom(s, after) >= s.from - 1
         /\ SearchFrom(s, after) = after \/ SearchFrom(s, after) = s.from - 1
         /\ after >= s.from => SearchFrom(s, after) = after
BY SpecFields DEF SearchFrom, InWindow

\* The first cursor of a schedule, and that of an amended one.
LEMMA FirstCursor ==
  ASSUME NEW s \in Specs, LittleJitter(s), NEW after \in Nat,
         NEW c, c = next_fire_after(s, after, NoNominal), c \notin {NoFire, Raises}
  PROVE  c \in Int /\ OnSchedule(s, c)
<1> DEFINE cur == SearchFrom(s, after)
<1>1. cur \in Nat /\ cur >= s.from - 1
  BY SearchesInWindow
<1> HIDE DEF cur
<1>2. CASE s.kind = "interval"
  <2>1. c = NextInterval(s, cur, NoNominal)
    BY <1>2 DEF next_fire_after, cur
  <2>2. s.step \in Nat \ {0} /\ s.jitter = 0
    BY <1>2, SpecFields DEF LittleJitter
  <2>3. c = (IF InWindow(s, cur + s.step) THEN cur + s.step ELSE NoFire)
    BY <1>1, <2>1, <2>2 DEF NextInterval
  <2> QED
    BY <1>1, <1>2, <2>2, <2>3 DEF OnSchedule
<1>3. CASE s.kind = "cron"
  <2> DEFINE start == (cur \div Minute + 1) * Minute
  <2>1. c = NextCron(s, cur)
    BY <1>3 DEF next_fire_after, cur
  <2>2. start \in Int /\ start > cur /\ start >= Minute
    BY <1>1, SearchStart
  <2>3. /\ c \in Int /\ c - s.jitter >= start
        /\ CronMatch(s, c - s.jitter) /\ InWindow(s, c)
    BY <1>1, <2>1, CronFinds
  <2> HIDE DEF start
  <2>4. s.jitter \in Nat /\ s.from \in Nat /\ Minute \in Nat
    BY SpecFields
  <2>5. c - s.jitter >= Minute /\ c - s.jitter >= s.from
    BY <1>1, <2>2, <2>3, <2>4
  <2> QED
    BY <1>3, <2>3, <2>5 DEF OnSchedule
<1> QED
  BY <1>2, <1>3, SpecFields

\* The first minute after an occurrence is the one after its own.
LEMMA AfterOccurrence ==
  ASSUME NEW s \in Specs, LittleJitter(s), s.kind = "cron",
         NEW c \in Int, OnSchedule(s, c)
  PROVE  LET t0 == c - s.jitter IN
         /\ t0 \in Int /\ t0 % Minute = 0
         /\ (c \div Minute + 1) * Minute = t0 + Minute
<1> DEFINE t0 == c - s.jitter
<1>1. s.jitter \in Nat /\ s.jitter < Minute /\ Minute \in Nat \ {0}
  BY SpecFields DEF LittleJitter
<1>2. t0 \in Int /\ t0 % Minute = 0 /\ c = t0 + s.jitter
  BY <1>1 DEF OnSchedule, CronMatch
<1> HIDE DEF t0
<1>3. t0 + Minute \in Int /\ (t0 + Minute) % Minute = 0
  <2>1. Minute \in Int /\ Minute % Minute = 0
    BY <1>1, <1>2, Multiples
  <2>2. (t0 + Minute) % Minute = 0
    BY <1>1, <1>2, <2>1, Multiples
  <2> QED
    BY <1>2, <2>1, <2>2
<1>4. (t0 + Minute) - Minute <= c /\ c < t0 + Minute
  BY <1>1, <1>2
<1>5. (c \div Minute + 1) * Minute = t0 + Minute
  BY <1>3, <1>4, NextMinute
<1> QED
  BY <1>2, <1>5 DEF t0

\* From an occurrence next_fire_after moves to the next one of the schedule, and
\* ends only when the window has no more of them: it returns the least later
\* instant on the same grid, whether it adds an interval or searches minutes.
THEOREM NextOnSchedule ==
  ASSUME NEW s \in Specs, LittleJitter(s), NEW c \in Int, OnSchedule(s, c),
         NEW d, d = next_fire_after(s, c, c), d # Raises
  PROVE  /\ d # NoFire => /\ d \in Int /\ d > c /\ OnSchedule(s, d) /\ SameGrid(s, c, d)
         /\ \A t \in Int : (t > c /\ InWindow(s, t) /\ SameGrid(s, c, t))
                             => d # NoFire /\ t >= d
<1>1. /\ s.step \in Nat \ {0} /\ s.jitter \in Nat /\ s.from \in Nat /\ s.until \in Nat
      /\ Minute \in Nat \ {0} /\ s.kind \in {"interval", "cron"}
  BY SpecFields
<1>2. s.from <= c /\ c < s.until /\ c \in Nat
  BY <1>1 DEF OnSchedule, InWindow
<1>3. SearchFrom(s, c) = c
  BY <1>2, SearchesInWindow
<1>4. c # NoNominal /\ ~(c >= s.until)
  BY <1>1, <1>2 DEF NoNominal
<1>5. CASE s.kind = "interval"
  <2>1. s.jitter = 0
    BY <1>5 DEF LittleJitter
  <2>2. d = IF InWindow(s, c + s.step) THEN c + s.step ELSE NoFire
    BY <1>1, <1>2, <1>3, <1>4, <1>5, <2>1 DEF next_fire_after, NextInterval
  <2>3. 0 % s.step = 0 /\ s.step % s.step = 0
    <3>1. s.step * 0 + 0 = 0 /\ 0 \in 0 .. (s.step - 1) /\ 0 \in Int
      BY <1>1
    <3>2. (s.step * 0 + 0) % s.step = 0
      BY <1>1, <3>1, OnlyQuotient
    <3>3. 0 % s.step = 0
      BY <3>1, <3>2
    <3> QED
      BY <1>1, <3>3, Multiples
  <2>4. ASSUME d # NoFire
        PROVE  d \in Int /\ d > c /\ OnSchedule(s, d) /\ SameGrid(s, c, d)
    <3>1. d = c + s.step /\ InWindow(s, d)
      BY <2>2, <2>4
    <3>2. d - c = s.step
      BY <1>1, <3>1
    <3> QED
      BY <1>1, <1>2, <1>5, <2>3, <3>1, <3>2 DEF OnSchedule, SameGrid
  <2>5. ASSUME NEW t \in Int, t > c, InWindow(s, t), SameGrid(s, c, t)
        PROVE  d # NoFire /\ t >= d
    <3>1. (t - c) % s.step = 0 /\ t - c > 0 /\ t - c \in Int
      BY <1>5, <2>5 DEF SameGrid
    <3>2. t - c >= 0 + s.step
      BY <1>1, <2>3, <3>1, Multiples
    <3>3. InWindow(s, c + s.step)
      BY <1>1, <1>2, <2>5, <3>2 DEF InWindow
    <3> QED
      BY <1>1, <1>2, <2>2, <3>2, <3>3 DEF NoFire
  <2> QED
    BY <2>4, <2>5
<1>6. CASE s.kind = "cron"
  <2> DEFINE t0 == c - s.jitter
             start == (c \div Minute + 1) * Minute
  <2>1. d = NextCron(s, c)
    BY <1>3, <1>4, <1>6 DEF next_fire_after
  <2>2. t0 \in Int /\ t0 % Minute = 0 /\ start = t0 + Minute
    BY <1>6, AfterOccurrence
  <2>3. /\ d \in Int /\ d - s.jitter >= start
        /\ CronMatch(s, d - s.jitter) /\ InWindow(s, d)
        /\ \A t \in Int : (t - s.jitter >= start /\ CronMatch(s, t - s.jitter) /\ InWindow(s, t))
                               => t >= d
    BY <2>1, CronFinds
  <2>4. c = t0 + s.jitter /\ t0 >= Minute /\ t0 >= s.from
    BY <1>1, <1>6 DEF OnSchedule
  <2> HIDE DEF t0, start
  <2>5. d > c /\ d - s.jitter >= Minute /\ d - s.jitter >= s.from
    BY <1>1, <2>2, <2>3, <2>4
  <2>6. OnSchedule(s, d) /\ SameGrid(s, c, d)
    BY <1>6, <2>3, <2>5 DEF OnSchedule, SameGrid
  <2>7. d # NoFire
    BY <1>2, <2>3, <2>5 DEF NoFire
  <2>8. ASSUME NEW t \in Int, t > c, InWindow(s, t), SameGrid(s, c, t)
        PROVE  t >= d
    <3>1. CronMatch(s, t - s.jitter)
      BY <1>6, <2>8 DEF SameGrid
    <3>2. t - s.jitter \in Int /\ (t - s.jitter) % Minute = 0 /\ t - s.jitter > t0
      BY <1>1, <2>2, <2>4, <2>8, <3>1 DEF CronMatch
    <3>3. t - s.jitter >= t0 + Minute
      BY <1>1, <2>2, <3>2, Multiples
    <3> QED
      BY <2>2, <2>3, <2>8, <3>1, <3>3
  <2> QED
    BY <2>3, <2>5, <2>6, <2>7, <2>8
<1> QED
  BY <1>1, <1>5, <1>6

\* A catch-up pass starts so that the occurrence that is due is the first it finds.
LEMMA CatchUpStartsAtDue ==
  ASSUME NEW s \in Specs, LittleJitter(s), NEW c \in Int, OnSchedule(s, c)
  PROVE  LET b == CatchUpStart(s, c) IN
         b \in Nat /\ (next_fire_after(s, b, b) # Raises => next_fire_after(s, b, b) = c)
<1> DEFINE b == CatchUpStart(s, c)
           cur == SearchFrom(s, b)
<1>1. /\ s.step \in Nat \ {0} /\ s.jitter \in Nat /\ s.from \in Nat /\ s.until \in Nat
      /\ Minute \in Nat \ {0} /\ s.kind \in {"interval", "cron"}
  BY SpecFields
<1>2. s.from <= c /\ c < s.until /\ c \in Nat
  BY <1>1 DEF OnSchedule, InWindow
<1>3. CASE s.kind = "interval"
  <2>1. s.jitter = 0 /\ c >= s.step
    BY <1>3 DEF LittleJitter, OnSchedule
  <2>2. b = c - s.step /\ b \in Nat
    BY <1>1, <1>2, <1>3, <2>1 DEF CatchUpStart
  <2> HIDE DEF b
  <2>3. cur \in Int /\ (cur = b \/ cur = s.from - 1)
    BY <2>2, SearchesInWindow
  <2> HIDE DEF cur
  <2>4. cur < c /\ b + s.step = c /\ b # NoNominal /\ ~(b >= s.until)
    BY <1>1, <1>2, <2>2, <2>3 DEF NoNominal
  <2>5. next_fire_after(s, b, b) = NextInterval(s, cur, b)
    BY <1>3, <2>4 DEF next_fire_after, cur
  <2>6. InWindow(s, c)
    BY DEF OnSchedule
  <2>7. NextInterval(s, cur, b) = c
    BY <1>1, <1>2, <2>1, <2>3, <2>4, <2>6 DEF NextInterval
  <2> QED
    BY <2>2, <2>5, <2>7 DEF b
<1>4. CASE s.kind = "cron"
  <2> DEFINE t0 == c - s.jitter
  <2>1. /\ t0 \in Int /\ c = t0 + s.jitter /\ t0 >= Minute /\ t0 >= s.from
        /\ CronMatch(s, t0) /\ s.jitter < Minute /\ InWindow(s, c)
    BY <1>1, <1>4 DEF OnSchedule, LittleJitter
  <2> HIDE DEF t0
  <2>2. b = c - Minute /\ b \in Nat
    BY <1>1, <1>2, <1>4, <2>1 DEF CatchUpStart
  <2> HIDE DEF b
  <2>3. cur \in Int /\ cur >= b /\ (cur = b \/ cur = s.from - 1)
    BY <2>2, SearchesInWindow
  <2> HIDE DEF cur
  <2>4. t0 - Minute <= cur /\ cur < t0 /\ ~(b >= s.until)
    BY <1>1, <1>2, <2>1, <2>2, <2>3
  <2>5. t0 % Minute = 0
    BY <2>1 DEF CronMatch
  <2>6. (cur \div Minute + 1) * Minute = t0
    BY <2>1, <2>3, <2>4, <2>5, NextMinute
  <2>7. next_fire_after(s, b, b) = NextCron(s, cur)
    BY <1>4, <2>4 DEF next_fire_after, cur
  <2>8. ASSUME NextCron(s, cur) # Raises
        PROVE  NextCron(s, cur) = c
    <3> DEFINE d == NextCron(s, cur)
    <3>1. /\ d \in Int /\ d - s.jitter >= t0
          /\ \A t \in Int : (t - s.jitter >= t0 /\ CronMatch(s, t - s.jitter) /\ InWindow(s, t))
                               => t >= d
      BY <2>3, <2>6, <2>8, CronFinds
    <3> HIDE DEF d
    <3>2. c - s.jitter = t0
      BY <1>1, <2>1
    <3>3. CronMatch(s, c - s.jitter)
      BY Zenon, <2>1, <3>2
    <3>4. c >= d
      BY <1>1, <1>2, <2>1, <3>1, <3>2, <3>3
    <3> QED
      BY <1>1, <1>2, <2>1, <3>1, <3>4 DEF d
  <2> QED
    BY <2>2, <2>7, <2>8 DEF b
<1> QED
  BY <1>1, <1>3, <1>4

\* The instants between the cursors a and b that the schedule s promises have a
\* firing under revision r, where F is the set of claimed keys.
Reached(s, F, r, a, b) ==
  /\ \A t \in Promised(s, a) : (b = NoFire \/ t < b) => <<r, t>> \in F
  /\ b # NoFire => SameGrid(s, a, b)

\* However the cursors C are passed from one to another, nothing is missed.
NoGaps(s, F, r, C) ==
  /\ \A a \in C : a # NoFire => OnSchedule(s, a)
  /\ \A a, b \in C : (a # NoFire /\ (b = NoFire \/ a < b)) => Reached(s, F, r, a, b)

\* Cursors on one grid share the instants that are on it.
LEMMA OneGrid ==
  ASSUME NEW s \in Specs, NEW a \in Int, NEW b \in Int, NEW c \in Int, SameGrid(s, a, b)
  PROVE  SameGrid(s, b, c) <=> SameGrid(s, a, c)
<1>1. CASE s.kind = "interval"
  <2>1. s.step \in Nat \ {0} /\ (b - a) % s.step = 0 /\ b - a \in Int
    BY <1>1, SpecFields DEF SameGrid
  <2>2. ASSUME (c - b) % s.step = 0
        PROVE  (c - a) % s.step = 0
    <3>1. PICK n \in Nat \ {0}, u \in Int, v \in Int : n = s.step /\ u = c - b /\ v = b - a
      BY <2>1
    <3>2. (u + v) % n = 0
      BY <2>1, <2>2, <3>1, Multiples
    <3>3. u + v = c - a
      BY <3>1
    <3> QED
      BY <3>1, <3>2, <3>3
  <2>3. ASSUME (c - a) % s.step = 0
        PROVE  (c - b) % s.step = 0
    <3>1. PICK n \in Nat \ {0}, u \in Int, v \in Int : n = s.step /\ u = c - a /\ v = b - a
      BY <2>1
    <3>2. (u - v) % n = 0
      BY <2>1, <2>3, <3>1, Multiples
    <3>3. u - v = c - b
      BY <3>1
    <3> QED
      BY <3>1, <3>2, <3>3
  <2> QED
    BY <1>1, <2>2, <2>3 DEF SameGrid
<1>2. CASE s.kind # "interval"
  BY <1>2 DEF SameGrid
<1> QED
  BY <1>1, <1>2

LEMMA PromisedMeans ==
  ASSUME NEW s, NEW a, NEW t
  PROVE  t \in Promised(s, a) <=> t \in a .. MaxTime /\ InWindow(s, t) /\ SameGrid(s, a, t)
BY DEF Promised, SameGrid

\* Fewer cursors and more firings leave no gap.
LEMMA NoGapsInFewer ==
  ASSUME NEW s, NEW F, NEW G, NEW r, NEW C, NEW D,
         NoGaps(s, F, r, C), D \subseteq C, F \subseteq G
  PROVE  NoGaps(s, G, r, D)
BY DEF NoGaps, Reached

\* The occurrence at a cursor is recorded and the cursor moves to the next one.
LEMMA NoGapsAhead ==
  ASSUME NEW s \in Specs, LittleJitter(s), NEW r, NEW F, NEW G, F \subseteq G,
         NEW C \in SUBSET (Nat \cup {NoFire}), NoGaps(s, F, r, C),
         NEW c \in C, c # NoFire, <<r, c>> \in G,
         NEW d, d = next_fire_after(s, c, c), d # Raises
  PROVE  NoGaps(s, G, r, C \cup {d})
<1>1. c \in Int /\ OnSchedule(s, c)
  BY DEF NoGaps
<1>2. /\ d # NoFire => /\ d \in Int /\ d > c /\ OnSchedule(s, d) /\ SameGrid(s, c, d)
      /\ \A t \in Int : (t > c /\ InWindow(s, t) /\ SameGrid(s, c, t)) => d # NoFire /\ t >= d
  BY <1>1, NextOnSchedule
<1>3. MaxTime \in Nat
  BY ScheduleAssumption
<1>4. Reached(s, G, r, c, d)
  <2>1. ASSUME NEW t \in Promised(s, c), d = NoFire \/ t < d
        PROVE  <<r, t>> \in G
    <3>1. t \in c .. MaxTime /\ InWindow(s, t) /\ SameGrid(s, c, t)
      BY PromisedMeans
    <3>2. CASE t = c
      BY <3>2
    <3>3. CASE t # c
      <4>1. t \in Int /\ t > c
        BY <1>1, <1>3, <3>1, <3>3
      <4>2. d # NoFire /\ t >= d
        BY <1>2, <3>1, <4>1
      <4> QED
        BY <1>2, <2>1, <4>1, <4>2
    <3> QED
      BY <3>2, <3>3
  <2> QED
    BY <1>2, <2>1 DEF Reached
<1>5. ASSUME NEW a \in C, a # NoFire, d = NoFire \/ a < d
      PROVE  Reached(s, G, r, a, d)
  <2>1. a \in Int /\ OnSchedule(s, a) /\ InWindow(s, a)
    BY <1>5 DEF NoGaps, OnSchedule
  <2>2. CASE a = c
    BY <1>4, <2>2
  <2>3. CASE a < c
    <3>1. Reached(s, F, r, a, c)
      BY <1>5, <2>3 DEF NoGaps
    <3>2. SameGrid(s, a, c)
      BY <3>1 DEF Reached
    <3>3. ASSUME NEW t \in Promised(s, a), d = NoFire \/ t < d
          PROVE  <<r, t>> \in G
      <4>1. t \in a .. MaxTime /\ InWindow(s, t) /\ SameGrid(s, a, t) /\ t \in Int
        BY <1>3, <2>1, PromisedMeans
      <4>2. CASE t < c
        BY <3>1, <4>2 DEF Reached
      <4>3. CASE t >= c
        <5>1. SameGrid(s, c, t)
          BY <1>1, <2>1, <3>2, <4>1, OneGrid
        <5>2. t \in Promised(s, c)
          BY <1>1, <1>3, <4>1, <4>3, <5>1, PromisedMeans
        <5> QED
          BY <1>4, <3>3, <5>2 DEF Reached
      <4> QED
        BY <1>1, <4>1, <4>2, <4>3
    <3>4. d # NoFire => SameGrid(s, a, d)
      BY <1>1, <1>2, <2>1, <3>2, OneGrid
    <3> QED
      BY <3>3, <3>4 DEF Reached
  <2>4. CASE a > c
    <3>1. SameGrid(s, c, a)
      BY <1>1, <1>5, <2>4 DEF NoGaps, Reached
    <3>2. d # NoFire /\ a >= d
      BY <1>2, <2>1, <2>4, <3>1
    <3> QED
      BY <1>2, <1>5, <2>1, <3>2
  <2> QED
    BY <1>1, <2>1, <2>2, <2>3, <2>4
<1>6. ASSUME NEW b \in C, d # NoFire, b = NoFire \/ d < b
      PROVE  Reached(s, G, r, d, b)
  <2>1. b = NoFire \/ b \in Int
    OBVIOUS
  <2>2. b = NoFire \/ c < b
    BY <1>1, <1>2, <1>6, <2>1
  <2>3. Reached(s, F, r, c, b)
    BY <2>2 DEF NoGaps
  <2>4. ASSUME NEW t \in Promised(s, d), b = NoFire \/ t < b
        PROVE  <<r, t>> \in G
    <3>1. d \in Int /\ t \in d .. MaxTime /\ InWindow(s, t) /\ SameGrid(s, d, t) /\ t \in Int
      BY <1>2, <1>3, <1>6, PromisedMeans
    <3>2. SameGrid(s, c, t)
      BY <1>1, <1>2, <1>6, <3>1, OneGrid
    <3>3. t \in Promised(s, c)
      BY <1>1, <1>2, <1>3, <1>6, <3>1, <3>2, PromisedMeans
    <3> QED
      BY <2>3, <2>4, <3>3 DEF Reached
  <2>5. ASSUME b # NoFire
        PROVE  SameGrid(s, d, b)
    <3>1. SameGrid(s, c, b) /\ SameGrid(s, c, d) /\ b \in Int /\ d \in Int
      BY <1>2, <1>6, <2>1, <2>3, <2>5 DEF Reached
    <3> QED
      BY <1>1, <3>1, OneGrid
  <2> QED
    BY <2>4, <2>5 DEF Reached
<1>7. ASSUME NEW a \in C \cup {d}, NEW b \in C \cup {d}, a # NoFire, b = NoFire \/ a < b
      PROVE  Reached(s, G, r, a, b)
  <2>1. CASE a \in C /\ b \in C
    BY <1>7, <2>1 DEF NoGaps, Reached
  <2>2. CASE a \in C /\ b = d
    BY <1>5, <1>7, <2>2
  <2>3. CASE a = d /\ b \in C
    BY <1>6, <1>7, <2>3
  <2>4. CASE a = d /\ b = d
    BY <1>2, <1>7, <2>4
  <2> QED
    BY <2>1, <2>2, <2>3, <2>4
<1>8. ASSUME NEW a \in C \cup {d}, a # NoFire
      PROVE  OnSchedule(s, a)
  BY <1>2, <1>8 DEF NoGaps
<1> QED
  BY <1>7, <1>8 DEF NoGaps

---------------------------------------------------------------------------
(* The inductive invariant.                                                *)

\* Where a process works on the occurrence at hand, and where it holds an
\* admission attempt of its own.
AtOccurrence ==
  {"recover", "acquire", "prepare", "submit", "repair", "accept", "verify", "begin", "cp1",
   "dur", "cancel", "confirm", "terminate", "raise", "link"}

Admitting == {"cp1", "dur", "cancel", "confirm", "terminate", "raise", "link"}

\* What a process with the locals x knows of its occurrences.
Knows(x) ==
  /\ x.key \in DOMAIN firings \cup {NoKey}
  /\ x.todo \subseteq DOMAIN firings
  /\ x.pc \in AtOccurrence => x.key \in DOMAIN firings
  /\ x.noms \in {<<Raises>>} \cup Seq(0 .. MaxTime)
  /\ x.pc = "trigger" => x.noms \notin {<<>>, <<Raises>>}
  /\ x.att # 0 =>
       /\ x.pc \in Admitting
       /\ x.key \in DOMAIN firings /\ x.att <= firings[x.key].begun
  /\ x.pc = "cp1" => x.att # 0 /\ x.att \in firings[x.key].attempts
  /\ x.pc \in {"verify", "link"} => dur[x.key] # "none"
  /\ x.pc \in {"confirm", "terminate"} => cp1[x.key] = "cancelled"

\* Attempts of an occurrence are numbered apart.
OwnAttempts ==
  \A p, q \in Procs :
    proc[p].att # 0 /\ proc[p].att = proc[q].att /\ proc[p].key = proc[q].key => p = q

\* A linked run was accepted; a live receipt leaves its attempt on the firing,
\* and a firing that failed has none.
FiringOK(k) ==
  /\ firings[k].linked => dur[k] # "none"
  /\ cp1[k] = "accepted" => firings[k].attempts # {}
  /\ firings[k].st = "failed_preparation" => firings[k].attempts = {}

ReceiptsAreClaimed == \A k \in Keys : cp1[k] # "none" => k \in DOMAIN firings

Inv ==
  /\ TypeOK
  /\ \A p \in Procs : Knows(proc[p])
  /\ OwnAttempts
  /\ \A k \in DOMAIN firings : FiringOK(k)
  /\ ReceiptsAreClaimed
  /\ UnlinkedIsCurrent
  /\ OneInFlight

---------------------------------------------------------------------------
(* A step of one process on one occurrence.                                *)

DurStatuses == {"none", "accepted", "cancelling", "done"}

\* Only the occurrence k is touched.
OnlyOn(k) ==
  /\ firings' \in [DOMAIN firings -> FiringType]
  /\ cp1' \in [Keys -> {"none", "accepted", "cancelled"}]
  /\ dur' \in [Keys -> DurStatuses]
  /\ \A j \in DOMAIN firings \ {k} : firings'[j] = firings[j]
  /\ \A j \in Keys \ {k} : cp1'[j] = cp1[j] /\ dur'[j] = dur[j]
  /\ UNCHANGED <<sched, spec>>

\* What may become of k: outcomes are final, a process takes back only its own
\* attempt, receipts and durable work do not start again.
Advances(p, k) ==
  /\ firings'[k].gen = firings[k].gen
  /\ firings[k].begun <= firings'[k].begun
  /\ firings[k].attempts \ {proc[p].att} \subseteq firings'[k].attempts
  /\ ~Unlinked(k) => firings'[k].st = firings[k].st /\ firings'[k].linked = firings[k].linked
  /\ Unlinked(k) => /\ firings'[k].st \in {"accepted", "failed_preparation"}
                    /\ firings'[k].linked => firings'[k].st = "accepted"
  /\ FiringOK(k)'
  /\ cp1[k] = "cancelled" => cp1'[k] = "cancelled"
  /\ dur[k] # "none" => /\ dur'[k] # "none"
                        /\ dur'[k] \in {"accepted", "cancelling"} => k \in Running

Numbered(p, k, x) ==
  \/ x.att = 0
  \/ x.att = proc[p].att /\ x.key = proc[p].key
  \/ x.key = k /\ x.att = firings[k].begun + 1

LEMMA Typed ==
  ASSUME Inv
  PROVE  /\ firings \in [DOMAIN firings -> FiringType] /\ DOMAIN firings \subseteq Keys
         /\ cp1 \in [Keys -> {"none", "accepted", "cancelled"}]
         /\ dur \in [Keys -> DurStatuses]
         /\ proc \in [Procs -> Locals]
         /\ \A k \in DOMAIN firings :
              /\ firings[k] \in FiringType /\ k \in Keys
              /\ firings[k].begun \in Nat /\ firings[k].token \in Nat
              /\ firings[k].attempts \subseteq Nat
         /\ \A p \in Procs : proc[p] \in Locals
BY DEF Inv, TypeOK, FiringType, DurStatuses

LEMMA OneMoves ==
  ASSUME Inv, NEW p \in Procs, NEW x \in Locals, NEW k \in DOMAIN firings,
         proc' = [proc EXCEPT ![p] = x],
         OnlyOn(k), Advances(p, k), proc[p].att # 0 => proc[p].key = k,
         Knows(x)', Numbered(p, k, x),
         UNCHANGED <<leader, now, draining>>
  PROVE  Inv'
<1>1. /\ firings \in [DOMAIN firings -> FiringType] /\ DOMAIN firings \subseteq Keys
      /\ proc \in [Procs -> Locals]
      /\ \A j \in DOMAIN firings :
           /\ firings[j] \in FiringType /\ j \in Keys
           /\ firings[j].begun \in Nat /\ firings[j].attempts \subseteq Nat
      /\ \A q \in Procs : proc[q] \in Locals /\ proc[q].att \in Nat
  BY Typed DEF Locals
<1>2. /\ proc' \in [Procs -> Locals]
      /\ proc'[p] = x
      /\ \A q \in Procs \ {p} : proc'[q] = proc[q]
  BY <1>1
<1>3. /\ DOMAIN firings' = DOMAIN firings
      /\ \A j \in DOMAIN firings : firings'[j] \in FiringType /\ firings'[j].begun \in Nat
  BY DEF OnlyOn, FiringType
<1>4. ASSUME NEW q \in Procs
      PROVE  Knows(proc[q])'
  <2>1. CASE q = p
    BY <1>2, <2>1 DEF Knows
  <2>2. CASE q # p
    <3>1. PICK y : y = proc[q]
      OBVIOUS
    <3>2. proc'[q] = y
      BY <1>2, <2>2, <3>1
    <3>3. Knows(y) /\ y \in Locals /\ y.att \in Nat
      BY <1>1, <3>1 DEF Inv
    <3>4. y.key = k /\ y.att # 0 => y.att # proc[p].att
      BY <2>2, <3>1 DEF Inv, OwnAttempts
    <3>5. \A j \in DOMAIN firings :
            /\ firings[j].begun <= firings'[j].begun
            /\ j # k => firings'[j] = firings[j]
      BY <1>1 DEF OnlyOn, Advances
    <3>6. \A j \in Keys : /\ dur[j] # "none" => dur'[j] # "none"
                          /\ cp1[j] = "cancelled" => cp1'[j] = "cancelled"
      BY DEF OnlyOn, Advances
    <3>7. y.att # 0 => y.att <= firings'[y.key].begun
      <4> SUFFICES ASSUME y.att # 0
                   PROVE  y.att <= firings'[y.key].begun
        OBVIOUS
      <4>1. y.key \in DOMAIN firings /\ y.att <= firings[y.key].begun
        BY <3>3 DEF Knows
      <4>2. firings[y.key].begun <= firings'[y.key].begun
        BY <3>5, <4>1
      <4>3. firings[y.key].begun \in Nat /\ firings'[y.key].begun \in Nat
        BY <1>1, <1>3, <4>1
      <4> QED
        BY <3>3, <4>1, <4>2, <4>3
    <3>8. y.pc = "cp1" => y.att \in firings'[y.key].attempts
      <4> SUFFICES ASSUME y.pc = "cp1"
                   PROVE  y.att \in firings'[y.key].attempts
        OBVIOUS
      <4>1. y.key \in DOMAIN firings /\ y.att # 0 /\ y.att \in firings[y.key].attempts
        BY <3>3 DEF Knows, AtOccurrence
      <4>2. CASE y.key = k
        BY <3>4, <4>1, <4>2 DEF Advances
      <4>3. CASE y.key # k
        BY <3>5, <4>1, <4>3
      <4> QED
        BY <4>2, <4>3
    <3>9. Knows(y)'
      BY <1>1, <1>3, <3>3, <3>6, <3>7, <3>8 DEF Knows, AtOccurrence
    <3> QED
      BY <3>2, <3>9 DEF Knows
  <2> QED
    BY <2>1, <2>2
<1>5. OwnAttempts'
  <2>1. ASSUME NEW q \in Procs, q # p, x.att # 0, proc[q].att = x.att, proc[q].key = x.key
        PROVE  FALSE
    <3>1. proc[q].key \in DOMAIN firings /\ proc[q].att <= firings[proc[q].key].begun
      BY <2>1 DEF Inv, Knows
    <3>2. ~(x.key = k /\ x.att = firings[k].begun + 1)
      BY <1>1, <2>1, <3>1
    <3> QED
      BY <2>1, <3>2 DEF Numbered, Inv, OwnAttempts
  <2> QED
    BY <1>2, <2>1 DEF OwnAttempts, Inv
<1>6. ASSUME NEW j \in DOMAIN firings
      PROVE  FiringOK(j)'
  BY <1>1 DEF OnlyOn, Advances, FiringOK, Inv
<1>7. ReceiptsAreClaimed'
  BY <1>3 DEF OnlyOn, ReceiptsAreClaimed, Inv
<1>8. ASSUME NEW j \in DOMAIN firings, Unlinked(j)'
      PROVE  Unlinked(j) /\ firings'[j].gen = firings[j].gen
  BY <1>8 DEF OnlyOn, Advances, Unlinked
<1>9. UnlinkedIsCurrent'
  BY <1>3, <1>8 DEF UnlinkedIsCurrent, UnlinkedKeys, OnlyOn, Inv
<1>10. ASSUME NEW j \in DOMAIN firings, InFlight(j, Running)'
       PROVE  InFlight(j, Running)
  <2>1. CASE j # k
    BY <1>1, <1>10, <2>1 DEF InFlight, Running, OnlyOn
  <2>2. CASE j = k
    <3>1. firings'[k].st = "accepted" /\ (firings'[k].linked => dur'[k] \in {"accepted", "cancelling"})
      BY <1>10, <2>2 DEF InFlight, Running
    <3>2. CASE Unlinked(k)
      BY <2>2, <3>2 DEF Unlinked, InFlight
    <3>3. CASE ~Unlinked(k)
      <4>1. firings[k].st = "accepted" /\ firings[k].linked
        BY <3>1, <3>3 DEF Advances, Unlinked
      <4>2. dur[k] # "none" /\ firings'[k].linked
        BY <3>3, <4>1 DEF Inv, FiringOK, Advances
      <4> QED
        BY <2>2, <3>1, <4>1, <4>2 DEF Advances, InFlight
    <3> QED
      BY <3>2, <3>3
  <2> QED
    BY <2>1, <2>2
<1>11. OneInFlight'
  BY <1>3, <1>10 DEF OneInFlight, OnlyOn, Inv
<1>12. TypeOK'
  <2>1. \A q \in Procs : proc'[q].key \in DOMAIN firings' \cup {NoKey}
    BY <1>4 DEF Knows
  <2> QED
    BY <1>1, <1>2, <1>3, <2>1 DEF TypeOK, OnlyOn, DurStatuses, Inv
<1> QED
  BY <1>3, <1>4, <1>5, <1>6, <1>7, <1>9, <1>11, <1>12 DEF Inv

---------------------------------------------------------------------------
(* Steps that leave the occurrences as they are.                           *)

LEMMA RestingKeepsInv ==
  ASSUME Inv, UNCHANGED <<sched, spec, firings, cp1, dur>>,
         proc' \in [Procs -> Locals], \A q \in Procs : Knows(proc'[q]), OwnAttempts',
         leader' \in [owner : Owners \cup {NoOwner}, token : 0 .. MaxLeader, live : BOOLEAN],
         now' \in 0 .. MaxTime, draining' \subseteq Schedulers
  PROVE  Inv'
<1>1. ASSUME NEW q \in Procs
      PROVE  Knows(proc[q])'
  BY DEF Knows
<1>2. ASSUME NEW k \in DOMAIN firings
      PROVE  FiringOK(k)'
  BY DEF FiringOK, Inv
<1>3. TypeOK'
  BY <1>1 DEF Inv, TypeOK, Knows
<1>4. ReceiptsAreClaimed' /\ UnlinkedIsCurrent'
  BY DEF Inv, ReceiptsAreClaimed, UnlinkedIsCurrent, UnlinkedKeys, Unlinked
<1>5. OneInFlight'
  BY DEF Inv, OneInFlight, InFlight, Running
<1> QED
  BY <1>1, <1>2, <1>3, <1>4, <1>5 DEF Inv

\* A process forgets its attempt or has none.
LEMMA LocalMoves ==
  ASSUME Inv, UNCHANGED <<sched, spec, firings, cp1, dur>>,
         NEW p \in Procs, NEW x \in Locals, proc' = [proc EXCEPT ![p] = x],
         Knows(x), x.att = 0,
         leader' \in [owner : Owners \cup {NoOwner}, token : 0 .. MaxLeader, live : BOOLEAN],
         UNCHANGED <<now, draining>>
  PROVE  Inv'
<1>1. /\ proc' \in [Procs -> Locals]
      /\ proc'[p] = x
      /\ \A q \in Procs \ {p} : proc'[q] = proc[q]
  BY Typed
<1>2. \A q \in Procs : Knows(proc'[q])
  BY <1>1 DEF Inv
<1>3. OwnAttempts'
  BY <1>1 DEF Inv, OwnAttempts
<1>4. now' \in 0 .. MaxTime /\ draining' \subseteq Schedulers
  BY DEF Inv, TypeOK
<1> QED
  BY <1>1, <1>2, <1>3, <1>4, RestingKeepsInv

LEMMA NobodyMoves ==
  ASSUME Inv, UNCHANGED <<sched, spec, firings, cp1, dur, proc>>,
         leader' \in [owner : Owners \cup {NoOwner}, token : 0 .. MaxLeader, live : BOOLEAN],
         now' \in 0 .. MaxTime, draining' \subseteq Schedulers
  PROVE  Inv'
<1>1. proc' \in [Procs -> Locals] /\ \A q \in Procs : Knows(proc'[q])
  BY Typed DEF Inv
<1>2. OwnAttempts'
  BY DEF Inv, OwnAttempts
<1> QED
  BY <1>1, <1>2, RestingKeepsInv

LEMMA KnowsNothing ==
  ASSUME NEW x, x.key = NoKey, x.todo = {}, x.noms = <<>>, x.att = 0,
         x.pc \in {"idle", "list", "done"}
  PROVE  Knows(x)
<1>1. <<>> \in Seq(0 .. MaxTime)
  OBVIOUS
<1> QED
  BY <1>1 DEF Knows, AtOccurrence

LEMMA IdleIsPlain ==
  /\ Idle \in Locals
  /\ [Idle EXCEPT !.pc = "done"] \in Locals
  /\ Inv => Knows(Idle) /\ Knows([Idle EXCEPT !.pc = "done"])
<1>1. 0 \in 0 .. MaxTime
  BY ScheduleAssumption
<1>2. Idle \in Locals
  <2>1. /\ <<>> \in Seq(Int) /\ {} \in SUBSET Int /\ {} \in SUBSET Keys
        /\ NoKey \in Keys \cup {NoKey} /\ 0 \in Nat
        /\ "idle" \in Places /\ "none" \in {"none", "reconcile", "claim", "trigger"}
    BY DEF Places
  <2>2. [rev |-> 0, gen |-> 0, cursor |-> NoFire]
          \in [rev : Nat, gen : Nat, cursor : Nat \cup {NoFire}]
    OBVIOUS
  <2> QED
    BY <1>1, <2>1, <2>2, Zenon DEF Idle, Locals
<1>4. [Idle EXCEPT !.pc = "done"] \in Locals
  BY <1>2 DEF Locals, Places
<1>3. Knows(Idle) /\ Knows([Idle EXCEPT !.pc = "done"])
  <2>1. PICK x, y : x = Idle /\ y = [Idle EXCEPT !.pc = "done"]
    OBVIOUS
  <2>2. Knows(x) /\ Knows(y)
    <3>1. x.key = NoKey /\ x.todo = {} /\ x.noms = <<>> /\ x.att = 0 /\ x.pc = "idle"
      BY <2>1 DEF Idle
    <3>2. y.key = NoKey /\ y.todo = {} /\ y.noms = <<>> /\ y.att = 0 /\ y.pc = "done"
      BY <2>1 DEF Idle
    <3> QED
      BY <3>1, <3>2, KnowsNothing
  <2> QED
    BY <2>1, <2>2
<1> QED
  BY <1>2, <1>3, <1>4

LEMMA TimeStep ==
  ASSUME Inv, ClockTick \/ ExpireLeader \/ \E p \in Schedulers : request_drain(p)
  PROVE  Inv'
<1>1. /\ leader \in [owner : Owners \cup {NoOwner}, token : 0 .. MaxLeader, live : BOOLEAN]
      /\ now \in 0 .. MaxTime /\ draining \subseteq Schedulers
  BY DEF Inv, TypeOK
<1>2. CASE ClockTick
  <2>1. now' \in 0 .. MaxTime
    BY <1>1, <1>2, ScheduleAssumption DEF ClockTick
  <2> QED
    BY <1>1, <1>2, <2>1, NobodyMoves DEF ClockTick, storeVars, admissionVars
<1>3. CASE ExpireLeader
  BY <1>1, <1>3, NobodyMoves DEF ExpireLeader, envVars, admissionVars
<1>4. CASE \E p \in Schedulers : request_drain(p)
  <2>1. draining' \subseteq Schedulers
    BY <1>1, <1>4 DEF request_drain
  <2> QED
    BY <1>1, <1>4, <2>1, NobodyMoves DEF request_drain, storeVars, admissionVars
<1> QED
  BY <1>2, <1>3, <1>4

LEMMA CrashStep ==
  ASSUME Inv, NEW p \in Procs, Crash(p)
  PROVE  Inv'
<1>1. PICK x : x = IF p \in Schedulers THEN Idle ELSE [Idle EXCEPT !.pc = "done"]
  OBVIOUS
<1>2. x \in Locals /\ Knows(x)
  BY <1>1, IdleIsPlain
<1>3. x.att = 0
  BY <1>1 DEF Idle
<1>4. leader \in [owner : Owners \cup {NoOwner}, token : 0 .. MaxLeader, live : BOOLEAN]
  BY DEF Inv, TypeOK
<1>5. /\ proc' = [proc EXCEPT ![p] = x]
      /\ UNCHANGED <<sched, spec, firings, cp1, dur, leader, now, draining>>
  BY <1>1 DEF Crash, storeVars, envVars, admissionVars
<1> QED
  BY <1>2, <1>3, <1>4, <1>5, LocalMoves

\* What a process may keep while it has no occurrence at hand.
LEMMA Apart ==
  ASSUME Inv, NEW p \in Procs, proc[p].pc \notin AtOccurrence
  PROVE  /\ proc[p].att = 0
         /\ proc[p].todo \subseteq DOMAIN firings
         /\ proc[p].noms \in {<<Raises>>} \cup Seq(0 .. MaxTime)
BY DEF Inv, Knows, AtOccurrence, Admitting

LEMMA TickStep ==
  ASSUME Inv, NEW p \in Schedulers, tick(p) \/ ListUnlinked(p) \/ ReconcileOne(p)
  PROVE  Inv'
<1>1. /\ p \in Procs /\ p \in Owners
      /\ proc[p] \in Locals /\ now \in 0 .. MaxTime
      /\ leader \in [owner : Owners \cup {NoOwner}, token : 0 .. MaxLeader, live : BOOLEAN]
      /\ DOMAIN firings \subseteq Keys
  BY ProcessAssumption, Typed DEF Inv, TypeOK, Procs
<1>2. CASE tick(p)
  <2>1. leader' \in [owner : Owners \cup {NoOwner}, token : 0 .. MaxLeader, live : BOOLEAN]
    BY <1>1, <1>2, ScheduleAssumption DEF tick, acquire_leader_lease
  <2>2. PICK t \in 0 .. MaxLeader : t = leader'.token
    BY <2>1
  <2>6. PICK x : x = [Idle EXCEPT !.pc = "list", !.tok = t, !.clk = now]
    OBVIOUS
  <2>3. x \in Locals
    <3>1. Idle \in Locals /\ t \in Nat
      BY IdleIsPlain, ScheduleAssumption
    <3> QED
      BY <1>1, <2>6, <3>1 DEF Locals, Places
  <2>4. Knows(x) /\ x.att = 0
    <3>1. x.key = NoKey /\ x.todo = {} /\ x.noms = <<>> /\ x.att = 0 /\ x.pc = "list"
      BY <2>6 DEF Idle
    <3> QED
      BY <3>1, KnowsNothing
  <2>5. proc' = [proc EXCEPT ![p] = x]
    BY <1>2, <2>2, <2>6 DEF tick
  <2> QED
    BY <1>1, <1>2, <2>1, <2>3, <2>4, <2>5, LocalMoves DEF tick, envVars, admissionVars
<1>3. CASE ListUnlinked(p)
  <2>1. PICK T : T = IF sched.status = "deleted" THEN {} ELSE UnlinkedKeys
    OBVIOUS
  <2>2. T \subseteq DOMAIN firings
    BY <2>1 DEF UnlinkedKeys
  <2>3. PICK x : x = [proc[p] EXCEPT !.pc = "reconcile", !.todo = T]
    OBVIOUS
  <2>4. x \in Locals
    BY <1>1, <2>2, <2>3 DEF Locals, Places
  <2>5. proc[p].att = 0 /\ Knows(proc[p])
    BY <1>1, <1>3, Apart DEF ListUnlinked, At, AtOccurrence, Inv
  <2>6. Knows(x) /\ x.att = 0
    BY <1>1, <2>2, <2>3, <2>5 DEF Knows, AtOccurrence, Locals
  <2>7. proc' = [proc EXCEPT ![p] = x]
    BY <1>1, <1>3, <2>1, <2>3, Typed DEF ListUnlinked
  <2> QED
    BY <1>1, <1>3, <2>4, <2>6, <2>7, LocalMoves DEF ListUnlinked, envVars, admissionVars, storeVars
<1>4. CASE ReconcileOne(p)
  <2>1. PICK k \in proc[p].todo :
          proc' = [proc EXCEPT ![p].pc = "recover", ![p].key = k,
                               ![p].todo = @ \ {k}, ![p].via = "reconcile"]
    BY <1>4 DEF ReconcileOne
  <2>2. proc[p].att = 0 /\ Knows(proc[p]) /\ k \in DOMAIN firings
    BY <1>1, <1>4, Apart DEF ReconcileOne, At, AtOccurrence, Inv
  <2>3. PICK x : x = [proc[p] EXCEPT !.pc = "recover", !.key = k, !.todo = @ \ {k},
                                     !.via = "reconcile"]
    OBVIOUS
  <2>4. x \in Locals
    BY <1>1, <2>2, <2>3 DEF Locals, Places
  <2>5. Knows(x) /\ x.att = 0
    BY <1>1, <2>2, <2>3 DEF Knows, Locals
  <2>6. proc' = [proc EXCEPT ![p] = x]
    BY <1>1, <2>1, <2>3, Typed
  <2> QED
    BY <1>1, <1>4, <2>4, <2>5, <2>6, LocalMoves DEF ReconcileOne, envVars, admissionVars, storeVars
<1> QED
  BY <1>2, <1>3, <1>4

---------------------------------------------------------------------------
(* Claims.                                                                 *)

\* The locals of a process between two occurrences, or about to trigger one.
LEMMA ScanStep ==
  ASSUME Inv, NEW p \in Schedulers, DueSchedules(p) \/ ClaimEnds(p)
  PROVE  Inv'
<1>1. /\ p \in Procs
      /\ proc[p] \in Locals /\ Knows(proc[p])
      /\ leader \in [owner : Owners \cup {NoOwner}, token : 0 .. MaxLeader, live : BOOLEAN]
      /\ sched \in [status : {"active", "paused", "deleted"}, rev : 1 .. MaxRev,
                    owner : {"local", "external"}, gen : 1 .. MaxGen,
                    cursor : Nat \cup {NoFire}]
      /\ spec \in Specs
      /\ NoKey \in DOMAIN firings \cup {NoKey}
  BY Typed DEF Inv, TypeOK, Procs
<1>2. ASSUME proc' = [proc EXCEPT ![p] = Idle],
             UNCHANGED <<storeVars, envVars, left, admissionVars>>
      PROVE  Inv'
  <2>1. PICK x : x = Idle
    OBVIOUS
  <2>2. x.att = 0
    BY <2>1 DEF Idle
  <2> QED
    BY <1>1, <1>2, <2>1, <2>2, IdleIsPlain, LocalMoves DEF storeVars, envVars, admissionVars
<1>3. CASE ClaimEnds(p)
  BY <1>2, <1>3 DEF ClaimEnds
<1>4. CASE DueSchedules(p) /\ ~(Due(proc[p].clk) /\ p \notin draining)
  <2>1. proc' = [proc EXCEPT ![p] = Idle]
    BY <1>4, Zenon DEF DueSchedules
  <2> QED
    BY <1>2, <1>4, <2>1 DEF DueSchedules
<1>5. CASE DueSchedules(p) /\ Due(proc[p].clk) /\ p \notin draining
  <2> DEFINE clk == proc[p].clk
  <2>1. clk \in 0 .. MaxTime /\ clk \in Nat
    BY <1>1, ScheduleAssumption DEF Locals
  <2>2. sched.cursor \in 0 .. clk
    BY <1>1, <1>5, <2>1 DEF Due, NoFire
  <2>3. Nominals(clk) \in {<<Raises>>} \cup Seq(0 .. clk)
    <3>1. CatchUpStart(spec, sched.cursor) \in Int
      <4>1. spec.step \in Nat /\ Minute \in Nat /\ sched.cursor \in Int
        BY <1>1, <2>2, ScheduleAssumption, MinuteAssumption DEF ScheduleSpec
      <4> QED
        BY <4>1 DEF CatchUpStart
    <3>2. <<sched.cursor>> \in Seq(0 .. clk)
      BY <2>2
    <3> QED
      BY <1>1, <2>1, <3>1, <3>2, CatchUpInstants DEF Nominals
  <2>4. \A q \in Seq(0 .. clk) : q \in Seq(0 .. MaxTime)
    BY <2>1, ScheduleAssumption
  <2>5. PICK N : N = Nominals(clk)
    OBVIOUS
  <2>6. N \in {<<Raises>>} \cup Seq(0 .. MaxTime) /\ N \in Seq(Int)
    <3>1. N \in {<<Raises>>} \cup Seq(0 .. MaxTime)
      BY <2>3, <2>4, <2>5
    <3>2. <<Raises>> \in Seq(Int)
      BY DEF Raises
    <3>3. \A q \in Seq(0 .. MaxTime) : q \in Seq(Int)
      BY ScheduleAssumption
    <3> QED
      BY <3>1, <3>2, <3>3
  <2>7. PICK r, c, b : /\ r = [rev |-> sched.rev, gen |-> sched.gen, cursor |-> sched.cursor]
                       /\ c = sched.cursor
                       /\ b = MissedIsSkipped(clk)
    OBVIOUS
  <2>8. /\ r \in [rev : Nat, gen : Nat, cursor : Nat \cup {NoFire}]
        /\ c \in Int
        /\ b \in BOOLEAN
    BY <1>1, <2>1, <2>2, <2>7, ScheduleAssumption DEF MissedIsSkipped
  <2>9. PICK x : x = [ForgetKey(p) EXCEPT
                        !.pc = "claim", !.via = "claim", !.todo = {}, !.rec = r,
                        !.noms = N, !.exp = {c}, !.skip = b]
    OBVIOUS
  <2>10. x \in Locals /\ x.pc = "claim" /\ x.key = NoKey /\ x.att = 0 /\ x.todo = {} /\ x.noms = N
    BY <1>1, <2>6, <2>8, <2>9 DEF ForgetKey, Locals, Places
  <2>11. Knows(x)
    BY <2>6, <2>10 DEF Knows, AtOccurrence
  <2>12. proc' = [proc EXCEPT ![p] = x]
    BY <1>5, <2>5, <2>7, <2>9, Zenon DEF DueSchedules
  <2> QED
    BY <1>1, <1>5, <2>10, <2>11, <2>12, LocalMoves
       DEF DueSchedules, storeVars, envVars, admissionVars
<1> QED
  BY <1>3, <1>4, <1>5

\* A new firing of the current revision.
LEMMA NewOccurrence ==
  ASSUME Inv, NEW p \in Procs, NEW x \in Locals,
         NEW k \in Keys \ DOMAIN firings, NEW status, NEW next \in Nat \cup {NoFire},
         claim_firing(k, status, next), sched.status # "deleted", k[1] = sched.rev,
         status \in {"accepted", "skipped_misfire", "skipped_window", "skipped_overlap"},
         status = "accepted" => (spec.overlap = "skip" => ~HasInflightFiring(Running)),
         proc' = [proc EXCEPT ![p] = x],
         x.att = 0,
         \/ Knows(x)
         \/ /\ x.pc = "recover" /\ x.key = k /\ x.todo \subseteq DOMAIN firings
            /\ x.noms \in {<<Raises>>} \cup Seq(0 .. MaxTime),
         UNCHANGED <<spec, leader, now, draining, cp1, dur>>
  PROVE  Inv'
<1> DEFINE f == NewFiring(status)
<1>1. /\ firings \in [DOMAIN firings -> FiringType] /\ DOMAIN firings \subseteq Keys
      /\ cp1 \in [Keys -> {"none", "accepted", "cancelled"}]
      /\ sched \in [status : {"active", "paused", "deleted"}, rev : 1 .. MaxRev,
                    owner : {"local", "external"}, gen : 1 .. MaxGen,
                    cursor : Nat \cup {NoFire}]
      /\ proc \in [Procs -> Locals]
  BY Typed DEF Inv, TypeOK
<1>2. /\ DOMAIN firings' = DOMAIN firings \cup {k}
      /\ firings' = [j \in DOMAIN firings \cup {k} |-> IF j = k THEN f ELSE firings[j]]
  BY DEF claim_firing, WithFiring
<1>3. /\ firings'[k] = f
      /\ \A j \in DOMAIN firings : firings'[j] = firings[j]
  BY <1>2
<1>4. /\ f \in FiringType /\ f.st = status /\ ~f.linked /\ f.gen = sched.gen /\ f.attempts = {}
  <2>1. sched.gen \in Nat
    BY <1>1, ScheduleAssumption
  <2> QED
    BY <2>1 DEF NewFiring, FiringType, FiringStatuses
<1> HIDE DEF f
<1>5. /\ proc' \in [Procs -> Locals]
      /\ proc'[p] = x
      /\ \A q \in Procs \ {p} : proc'[q] = proc[q]
  BY <1>1
<1>6. ASSUME NEW y, Knows(y)
      PROVE  Knows(y)'
  <2>1. y.key \in DOMAIN firings => firings'[y.key] = firings[y.key]
    BY <1>3
  <2> QED
    BY <1>2, <1>6, <2>1 DEF Knows, AtOccurrence
<1>7. Knows(x)'
  <2>1. CASE Knows(x)
    BY <1>6, <2>1
  <2>2. CASE /\ x.pc = "recover" /\ x.key = k /\ x.todo \subseteq DOMAIN firings
             /\ x.noms \in {<<Raises>>} \cup Seq(0 .. MaxTime)
    BY <1>2, <2>2 DEF Knows
  <2> QED
    BY <2>1, <2>2
<1>8. \A q \in Procs : Knows(proc[q])'
  <2> SUFFICES ASSUME NEW q \in Procs, q # p
               PROVE  Knows(proc[q])'
    BY <1>5, <1>7 DEF Knows
  <2>1. PICK y : y = proc[q]
    OBVIOUS
  <2>2. Knows(y)' /\ proc'[q] = y
    BY <1>5, <1>6, <2>1 DEF Inv
  <2> QED
    BY <2>2 DEF Knows
<1>9. OwnAttempts'
  BY <1>5 DEF OwnAttempts, Inv
<1>10. \A j \in DOMAIN firings' : FiringOK(j)'
  <2>1. cp1[k] = "none"
    BY <1>1 DEF Inv, ReceiptsAreClaimed
  <2>2. \A j \in DOMAIN firings : FiringOK(j)'
    BY <1>3 DEF FiringOK, Inv
  <2>3. FiringOK(k)'
    BY <1>3, <1>4, <2>1 DEF FiringOK
  <2> QED
    BY <1>2, <2>2, <2>3
<1>11. ReceiptsAreClaimed'
  BY <1>2 DEF ReceiptsAreClaimed, Inv
<1>12. UnlinkedIsCurrent'
  <2>1. sched'.status = sched.status /\ sched'.rev = sched.rev /\ sched'.gen = sched.gen
    BY <1>1 DEF claim_firing
  <2> QED
    BY <1>2, <1>3, <1>4, <2>1 DEF UnlinkedIsCurrent, UnlinkedKeys, Unlinked, Inv
<1>13. OneInFlight'
  <2>1. ASSUME NEW j \in DOMAIN firings
        PROVE  InFlight(j, Running)' <=> InFlight(j, Running)
    BY <1>3 DEF InFlight, Running
  <2>2. InFlight(k, Running)' => status = "accepted"
    BY <1>3, <1>4 DEF InFlight
  <2> QED
    BY <1>2, <2>1, <2>2 DEF OneInFlight, HasInflightFiring, Inv
<1>14. TypeOK'
  <2>1. firings' \in [DOMAIN firings' -> FiringType] /\ DOMAIN firings' \subseteq Keys
    BY <1>1, <1>2, <1>4
  <2>2. sched' \in [status : {"active", "paused", "deleted"}, rev : 1 .. MaxRev,
                    owner : {"local", "external"}, gen : 1 .. MaxGen,
                    cursor : Nat \cup {NoFire}]
    BY <1>1 DEF claim_firing
  <2>3. \A q \in Procs : proc'[q].key \in DOMAIN firings' \cup {NoKey}
    BY <1>8 DEF Knows
  <2> QED
    BY <1>5, <2>1, <2>2, <2>3 DEF TypeOK, Inv
<1> QED
  BY <1>8, <1>9, <1>10, <1>11, <1>12, <1>13, <1>14 DEF Inv

\* A process leaves the occurrence at hand.
Leaves(p, x) ==
  /\ proc' = [proc EXCEPT ![p] = x]
  /\ x \in Locals /\ x.pc \in {"reconcile", "claim", "idle", "done"}
  /\ x.key = NoKey /\ x.att = 0
  /\ x.todo \subseteq DOMAIN firings
  /\ x.noms \in {<<Raises>>} \cup Seq(0 .. MaxTime)
  /\ Knows(x)

LEMMA Leaving ==
  ASSUME Inv, NEW p \in Procs, Finish(p) \/ Abandon(p)
  PROVE  \E x : Leaves(p, x)
<1>1. /\ proc[p] \in Locals
      /\ proc[p].todo \subseteq DOMAIN firings
      /\ proc[p].noms \in {<<Raises>>} \cup Seq(0 .. MaxTime)
  BY Typed DEF Inv, Knows
<1>2. \/ proc' = [proc EXCEPT ![p] = [ForgetKey(p) EXCEPT !.pc = "reconcile"]]
      \/ proc' = [proc EXCEPT ![p] = [ForgetKey(p) EXCEPT !.pc = "claim"]]
      \/ proc' = [proc EXCEPT ![p] = Idle]
      \/ proc' = [proc EXCEPT ![p] = [Idle EXCEPT !.pc = "done"]]
  <2>1. CASE proc[p].via = "reconcile"
    BY <2>1, Zenon DEF Finish, Abandon
  <2>2. CASE proc[p].via = "claim"
    <3>1. proc[p].via # "reconcile"
      BY <2>2
    <3> QED
      BY <2>2, <3>1, Zenon DEF Finish, Abandon
  <2>3. CASE proc[p].via # "reconcile" /\ proc[p].via # "claim"
    BY <2>3, Zenon DEF Finish, Abandon
  <2> QED
    BY <2>1, <2>2, <2>3
<1>3. ASSUME NEW pc \in {"reconcile", "claim"},
             proc' = [proc EXCEPT ![p] = [ForgetKey(p) EXCEPT !.pc = pc]]
      PROVE  \E x : Leaves(p, x)
  <2>1. PICK x : x = [ForgetKey(p) EXCEPT !.pc = pc]
    OBVIOUS
  <2>2. /\ x \in Locals /\ x.pc = pc /\ x.key = NoKey /\ x.att = 0
        /\ x.todo = proc[p].todo /\ x.noms = proc[p].noms
    BY <1>1, <2>1 DEF ForgetKey, Locals, Places
  <2>3. Knows(x)
    BY <1>1, <2>2 DEF Knows, AtOccurrence
  <2> QED
    BY <1>1, <1>3, <2>1, <2>2, <2>3 DEF Leaves
<1>4. ASSUME NEW x, x = Idle \/ x = [Idle EXCEPT !.pc = "done"], proc' = [proc EXCEPT ![p] = x]
      PROVE  \E y : Leaves(p, y)
  <2>1. x \in Locals /\ Knows(x)
    BY <1>4, IdleIsPlain
  <2>2. x.pc \in {"idle", "done"} /\ x.key = NoKey /\ x.att = 0 /\ x.todo = {} /\ x.noms = <<>>
    BY <1>4 DEF Idle
  <2>3. x.noms \in {<<Raises>>} \cup Seq(0 .. MaxTime) /\ x.todo \subseteq DOMAIN firings
    BY <2>1 DEF Knows
  <2> QED
    BY <1>4, <2>1, <2>2, <2>3 DEF Leaves
<1>5. CASE proc' = [proc EXCEPT ![p] = Idle] \/ proc' = [proc EXCEPT ![p] = [Idle EXCEPT !.pc = "done"]]
  <2>1. PICK x, y : x = Idle /\ y = [Idle EXCEPT !.pc = "done"]
    OBVIOUS
  <2> QED
    BY <1>4, <1>5, <2>1
<1> QED
  BY <1>2, <1>3, <1>5

LEMMA ClaimStatusMeans ==
  ASSUME NEW nominal, NEW skip, NEW running
  PROVE  LET status == ClaimStatus(nominal, skip, running) IN
         /\ status \in {"accepted", "skipped_misfire", "skipped_window", "skipped_overlap"}
         /\ status = "accepted" => (spec.overlap = "skip" => ~HasInflightFiring(running))
BY DEF ClaimStatus

\* A process has dealt with a nominal time, or goes on to recover the
\* occurrence it found.
LEMMA ClaimMoves ==
  ASSUME Inv, NEW p \in Procs, proc[p].pc \in {"claim", "trigger"},
         proc[p].noms \notin {<<>>, <<Raises>>}
  PROVE  /\ Head(proc[p].noms) \in 0 .. MaxTime
         /\ NextOf(p) \in Nat \cup {NoFire, Raises}
         /\ AfterClaim(p) \in Locals
         /\ AfterClaim(p).att = 0 /\ AfterClaim(p).pc = proc[p].pc
         /\ AfterClaim(p).todo \subseteq DOMAIN firings
         /\ AfterClaim(p).noms \in Seq(0 .. MaxTime)
         /\ proc[p].pc = "claim" => Knows(AfterClaim(p))
<1>1. /\ proc[p] \in Locals /\ Knows(proc[p]) /\ spec \in Specs
  BY Typed DEF Inv, TypeOK
<1>2. proc[p].noms \in Seq(0 .. MaxTime) /\ proc[p].noms # <<>>
  BY <1>1 DEF Knows
<1>3. Head(proc[p].noms) \in 0 .. MaxTime /\ Tail(proc[p].noms) \in Seq(0 .. MaxTime)
  BY <1>2, HeadTailProperties, Zenon
<1>4. Head(proc[p].noms) \in Int /\ proc[p].clk \in Int
  BY <1>1, <1>3, ScheduleAssumption DEF Locals
<1>5. NextOf(p) \in Nat \cup {NoFire, Raises}
  BY <1>1, <1>4, NextIsInstant DEF NextOf
<1>6. PICK n, t : n = NextOf(p) /\ t = Tail(proc[p].noms)
  OBVIOUS
<1>7. n \in Int
  BY <1>5, <1>6 DEF NoFire, Raises
<1>8. t \in Seq(0 .. MaxTime) /\ t \in Seq(Int)
  <2>1. \A q \in Seq(0 .. MaxTime) : q \in Seq(Int)
    BY ScheduleAssumption
  <2> QED
    BY <1>3, <1>6, <2>1
<1>9. PICK x : x = [proc[p] EXCEPT !.noms = t, !.exp = {n}]
  OBVIOUS
<1>10. AfterClaim(p) = x
  BY <1>6, <1>9 DEF AfterClaim
<1>11. /\ x \in Locals /\ x.pc = proc[p].pc /\ x.att = proc[p].att /\ x.key = proc[p].key
       /\ x.todo = proc[p].todo /\ x.noms = t
  <2>1. PICK y : y = proc[p]
    OBVIOUS
  <2>2. y \in Locals /\ {n} \in SUBSET Int /\ t \in Seq(Int)
    BY <1>1, <1>7, <1>8, <2>1
  <2>3. x = [y EXCEPT !.noms = t, !.exp = {n}]
    BY <1>9, <2>1
  <2> QED
    BY <2>1, <2>2, <2>3 DEF Locals
<1>12. proc[p].att = 0 /\ x.todo \subseteq DOMAIN firings
  BY <1>11, Apart DEF AtOccurrence
<1>13. proc[p].pc = "claim" => Knows(x)
  BY <1>1, <1>8, <1>11, <1>12 DEF Knows, AtOccurrence
<1> QED
  BY <1>3, <1>5, <1>8, <1>10, <1>11, <1>12, <1>13

\* Nothing is claimed: the process goes on, or recovers the firing it found.
LEMMA NothingClaimed ==
  ASSUME Inv, NEW p \in Procs, proc[p].pc \in {"claim", "trigger"},
         proc[p].noms \notin {<<>>, <<Raises>>}, NEW k,
         \/ proc[p].pc = "claim" /\ proc' = [proc EXCEPT ![p] = AfterClaim(p)]
         \/ k \in DOMAIN firings /\ TakeOccurrence(p, k),
         UNCHANGED <<storeVars, envVars, admissionVars>>
  PROVE  Inv'
<1>1. leader \in [owner : Owners \cup {NoOwner}, token : 0 .. MaxLeader, live : BOOLEAN]
  BY DEF Inv, TypeOK
<1>2. PICK y : y = AfterClaim(p)
  OBVIOUS
<1>3. /\ y \in Locals /\ y.att = 0 /\ y.pc = proc[p].pc
      /\ y.todo \subseteq DOMAIN firings /\ y.noms \in Seq(0 .. MaxTime)
      /\ proc[p].pc = "claim" => Knows(y)
  BY <1>2, ClaimMoves
<1>4. CASE proc[p].pc = "claim" /\ proc' = [proc EXCEPT ![p] = AfterClaim(p)]
  BY <1>1, <1>2, <1>3, <1>4, LocalMoves DEF storeVars, envVars, admissionVars
<1>5. CASE k \in DOMAIN firings /\ TakeOccurrence(p, k)
  <2>1. PICK x : x = [y EXCEPT !.pc = "recover", !.key = k]
    OBVIOUS
  <2>2. /\ x \in Locals /\ x.pc = "recover" /\ x.key = k /\ x.att = 0
        /\ x.todo = y.todo /\ x.noms = y.noms
    BY <1>3, <1>5, <2>1, Typed DEF Locals, Places
  <2>3. Knows(x)
    BY <1>3, <1>5, <2>2 DEF Knows
  <2>4. proc' = [proc EXCEPT ![p] = x]
    BY <1>2, <1>5, <2>1 DEF TakeOccurrence
  <2> QED
    BY <1>1, <2>2, <2>3, <2>4, LocalMoves DEF storeVars, envVars, admissionVars
<1> QED
  BY <1>4, <1>5

\* A firing is stored.
LEMMA Claimed ==
  ASSUME Inv, NEW p \in Procs, proc[p].pc \in {"claim", "trigger"},
         proc[p].noms \notin {<<>>, <<Raises>>}, NEW next \in Nat \cup {NoFire},
         NEW timerOwner, ~StaleClaim(proc[p].rec, timerOwner),
         LET nominal == Head(proc[p].noms)
             k == <<proc[p].rec.rev, nominal>>
             status == ClaimStatus(nominal, proc[p].skip, Running)
         IN  /\ k \notin DOMAIN firings
             /\ claim_firing(k, status, next)
             /\ IF status = "accepted"
                  THEN TakeOccurrence(p, k)
                  ELSE \/ proc[p].pc = "claim" /\ proc' = [proc EXCEPT ![p] = AfterClaim(p)]
                       \/ Finish(p),
         UNCHANGED <<spec, leader, envVars, admissionVars>>
  PROVE  Inv'
<1>1. PICK n, k, status : /\ n = Head(proc[p].noms)
                          /\ k = <<proc[p].rec.rev, n>>
                          /\ status = ClaimStatus(n, proc[p].skip, Running)
  OBVIOUS
<1>2. /\ k \notin DOMAIN firings
      /\ claim_firing(k, status, next)
      /\ IF status = "accepted"
           THEN TakeOccurrence(p, k)
           ELSE \/ proc[p].pc = "claim" /\ proc' = [proc EXCEPT ![p] = AfterClaim(p)]
                \/ Finish(p)
  BY <1>1
<1>3. PICK y : y = AfterClaim(p)
  OBVIOUS
<1>4. /\ y \in Locals /\ y.att = 0 /\ y.pc = proc[p].pc
      /\ y.todo \subseteq DOMAIN firings /\ y.noms \in Seq(0 .. MaxTime)
      /\ proc[p].pc = "claim" => Knows(y)
      /\ n \in 0 .. MaxTime
  BY <1>1, <1>3, ClaimMoves
<1>5. /\ sched.status # "deleted" /\ sched.rev = proc[p].rec.rev
      /\ sched.rev \in 1 .. MaxRev
  BY DEF StaleClaim, Inv, TypeOK
<1>6. k \in Keys \ DOMAIN firings /\ k[1] = sched.rev
  BY <1>1, <1>2, <1>4, <1>5 DEF Keys
<1>7. /\ status \in {"accepted", "skipped_misfire", "skipped_window", "skipped_overlap"}
      /\ status = "accepted" => (spec.overlap = "skip" => ~HasInflightFiring(Running))
  BY <1>1, ClaimStatusMeans
<1>8. UNCHANGED <<spec, leader, now, draining, cp1, dur>>
  BY DEF envVars, admissionVars
<1>9. CASE status = "accepted"
  <2>1. PICK x : x = [y EXCEPT !.pc = "recover", !.key = k]
    OBVIOUS
  <2>2. /\ x \in Locals /\ x.pc = "recover" /\ x.key = k /\ x.att = 0
        /\ x.todo \subseteq DOMAIN firings /\ x.noms \in {<<Raises>>} \cup Seq(0 .. MaxTime)
    BY <1>4, <1>6, <2>1 DEF Locals, Places
  <2>3. proc' = [proc EXCEPT ![p] = x]
    BY <1>2, <1>3, <1>9, <2>1 DEF TakeOccurrence
  <2> QED
    BY <1>2, <1>5, <1>6, <1>7, <1>8, <2>2, <2>3, NewOccurrence
<1>10. CASE status # "accepted" /\ proc[p].pc = "claim" /\ proc' = [proc EXCEPT ![p] = AfterClaim(p)]
  BY <1>2, <1>3, <1>4, <1>5, <1>6, <1>7, <1>8, <1>10, NewOccurrence
<1>11. CASE status # "accepted" /\ Finish(p)
  <2>1. PICK x : Leaves(p, x)
    BY <1>11, Leaving
  <2> QED
    BY <1>2, <1>5, <1>6, <1>7, <1>8, <1>11, <2>1, NewOccurrence DEF Leaves
<1> QED
  BY <1>2, <1>9, <1>10, <1>11

LEMMA ClaimStep ==
  ASSUME Inv, NEW p \in Schedulers, ClaimScheduled(p)
  PROVE  Inv'
<1> DEFINE nominal == Head(proc[p].noms)
           k == <<proc[p].rec.rev, nominal>>
           status == ClaimStatus(nominal, proc[p].skip, Running)
<1>1. /\ p \in Procs
      /\ proc[p].pc = "claim"
      /\ proc[p].noms \notin {<<>>, <<Raises>>}
      /\ NextOf(p) # Raises
  BY DEF ClaimScheduled, ClaimStops, At, Procs
<1>2. NextOf(p) \in Nat \cup {NoFire}
  BY <1>1, ClaimMoves
<1>3. UNCHANGED <<spec, leader, envVars, left, admissionVars>>
  BY DEF ClaimScheduled
<1>4. CASE proc' = [proc EXCEPT ![p] = AfterClaim(p)] /\ UNCHANGED <<sched, firings>>
  BY <1>1, <1>3, <1>4, NothingClaimed DEF storeVars
<1>5. CASE k \in DOMAIN firings /\ TakeOccurrence(p, k) /\ UNCHANGED <<sched, firings>>
  BY <1>1, <1>3, <1>5, NothingClaimed DEF storeVars
<1>6. CASE /\ ~StaleClaim(proc[p].rec, "local")
           /\ k \notin DOMAIN firings
           /\ claim_firing(k, status, NextOf(p))
           /\ IF status = "accepted"
                THEN TakeOccurrence(p, k)
                ELSE proc' = [proc EXCEPT ![p] = AfterClaim(p)]
  BY <1>1, <1>2, <1>3, <1>6, Claimed
<1> QED
  BY <1>4, <1>5, <1>6 DEF ClaimScheduled

LEMMA ReadStep ==
  ASSUME Inv, NEW g \in Triggers, trigger(g) \/ trigger_external(g)
  PROVE  Inv'
<1>1. /\ g \in Procs
      /\ now \in 0 .. MaxTime
      /\ leader \in [owner : Owners \cup {NoOwner}, token : 0 .. MaxLeader, live : BOOLEAN]
      /\ sched \in [status : {"active", "paused", "deleted"}, rev : 1 .. MaxRev,
                    owner : {"local", "external"}, gen : 1 .. MaxGen,
                    cursor : Nat \cup {NoFire}]
  BY DEF Inv, TypeOK, Procs
<1>2. \E t \in 0 .. MaxTime, e \in SUBSET Int, b \in BOOLEAN : ReadRecord(g, t, e, b)
  <2>1. CASE trigger(g)
    BY <2>1, ScheduleAssumption DEF trigger
  <2>2. CASE trigger_external(g)
    <3>1. {sched.cursor} \in SUBSET Int
      BY <1>1 DEF NoFire
    <3>2. \A t : (\/ spec.misfire = "skip" /\ t < now
                  \/ spec.misfire = "catch_up" /\ spec.catch_up_max = 0 /\ t <= now) \in BOOLEAN
      OBVIOUS
    <3> QED
      BY <2>2, <3>1, <3>2 DEF trigger_external
  <2> QED
    BY <2>1, <2>2
<1>3. PICK t \in 0 .. MaxTime, e \in SUBSET Int, b \in BOOLEAN : ReadRecord(g, t, e, b)
  BY <1>2
<1>4. PICK r, c : r = [rev |-> sched.rev, gen |-> sched.gen, cursor |-> sched.cursor] /\ c = now
  OBVIOUS
<1>5. r \in [rev : Nat, gen : Nat, cursor : Nat \cup {NoFire}] /\ c \in 0 .. MaxTime
  BY <1>1, <1>4, ScheduleAssumption
<1>6. PICK x : x = [Idle EXCEPT !.pc = "trigger", !.via = "trigger", !.clk = c, !.rec = r,
                                !.noms = <<t>>, !.exp = e, !.skip = b]
  OBVIOUS
<1>7. <<t>> \in Seq(0 .. MaxTime) /\ <<t>> \in Seq(Int) /\ <<t>> # <<>> /\ <<t>> # <<Raises>>
  BY ScheduleAssumption DEF Raises
<1>8. x \in Locals
  BY <1>5, <1>6, <1>7, IdleIsPlain DEF Locals, Places
<1>9. x.pc = "trigger" /\ x.noms = <<t>> /\ x.key = NoKey /\ x.todo = {} /\ x.att = 0
  BY <1>6 DEF Idle
<1>10. Knows(x)
  BY <1>7, <1>9 DEF Knows, AtOccurrence
<1>11. proc' = [proc EXCEPT ![g] = x]
  BY <1>3, <1>4, <1>6, Zenon DEF ReadRecord
<1>12. UNCHANGED <<sched, spec, firings, leader, now, draining, cp1, dur>>
  BY DEF trigger, trigger_external, storeVars, envVars, admissionVars
<1> QED
  BY <1>1, <1>8, <1>9, <1>10, <1>11, <1>12, LocalMoves

LEMMA TriggerRecordStep ==
  ASSUME Inv, NEW g \in Triggers, trigger_record(g)
  PROVE  Inv'
<1> DEFINE nominal == Head(proc[g].noms)
           k == <<proc[g].rec.rev, nominal>>
           status == ClaimStatus(nominal, proc[g].skip, Running)
<1>1. /\ g \in Procs
      /\ proc[g] \in Locals
      /\ proc[g].pc = "trigger"
      /\ proc[g].noms \notin {<<>>, <<Raises>>}
      /\ leader \in [owner : Owners \cup {NoOwner}, token : 0 .. MaxLeader, live : BOOLEAN]
      /\ UNCHANGED <<spec, leader, envVars, left, admissionVars>>
  BY Typed DEF trigger_record, At, Procs, Inv, Knows, TypeOK
<1>2. CASE (Finish(g) \/ Abandon(g)) /\ UNCHANGED <<sched, firings>>
  <2>1. PICK x : Leaves(g, x)
    BY <1>1, <1>2, Leaving
  <2> QED
    BY <1>1, <1>2, <2>1, LocalMoves DEF Leaves, envVars, admissionVars
<1>3. CASE k \in DOMAIN firings /\ TakeOccurrence(g, k) /\ UNCHANGED <<sched, firings>>
  BY <1>1, <1>3, NothingClaimed DEF storeVars
<1>4. CASE /\ ~(\/ StaleClaim(proc[g].rec, IF IsManual(g) THEN "local" ELSE "external")
                \/ ConflictingClaim(proc[g].exp)
                \/ TriggerNext(g) = Raises)
           /\ k \notin DOMAIN firings
           /\ claim_firing(k, status, TriggerNext(g))
           /\ IF status = "accepted" THEN TakeOccurrence(g, k) ELSE Finish(g)
  <2>1. TriggerNext(g) \in Nat \cup {NoFire}
    <3>1. proc[g].rec.cursor \in Nat \cup {NoFire}
      BY <1>1 DEF Locals
    <3>2. NextOf(g) \in Nat \cup {NoFire, Raises}
      BY <1>1, ClaimMoves
    <3> QED
      BY <1>4, <3>1, <3>2 DEF TriggerNext
  <2> QED
    BY <1>1, <1>4, <2>1, Claimed
<1> QED
  BY <1>2, <1>3, <1>4 DEF trigger_record

---------------------------------------------------------------------------
(* The occurrence at hand.                                                 *)

LEMMA AtHand ==
  ASSUME Inv, NEW p \in Procs, proc[p].pc \in AtOccurrence
  PROVE  /\ proc[p].key \in DOMAIN firings
         /\ proc[p].att # 0 => proc[p].pc \in Admitting
BY DEF Inv, Knows

LEMMA LeaveMoves ==
  ASSUME Inv, NEW p \in Procs, proc[p].pc \in AtOccurrence, Finish(p) \/ Abandon(p),
         OnlyOn(proc[p].key), Advances(p, proc[p].key),
         UNCHANGED <<leader, now, draining>>
  PROVE  Inv'
<1>1. PICK x : Leaves(p, x)
  BY Leaving
<1>2. PICK k : k = proc[p].key
  OBVIOUS
<1>3. k \in DOMAIN firings /\ OnlyOn(k) /\ Advances(p, k)
  BY <1>2, AtHand
<1>4. DOMAIN firings' = DOMAIN firings
  BY <1>3 DEF OnlyOn
<1>5. Knows(x)'
  BY <1>1, <1>4 DEF Leaves, Knows, AtOccurrence
<1>6. Numbered(p, k, x)
  BY <1>1 DEF Leaves, Numbered
<1> QED
  BY <1>1, <1>2, <1>3, <1>5, <1>6, OneMoves DEF Leaves

\* A process goes on with the occurrence.
LEMMA GoOn ==
  ASSUME Inv, NEW p \in Procs, proc[p].pc \in AtOccurrence, NEW k, k = proc[p].key,
         OnlyOn(k), Advances(p, k), UNCHANGED <<leader, now, draining>>,
         NEW x \in Locals, proc' = [proc EXCEPT ![p] = x],
         x.key = k, x.todo = proc[p].todo, x.noms = proc[p].noms,
         x.pc \in AtOccurrence,
         \/ x.att = proc[p].att /\ x.pc # "cp1"
         \/ x.att = firings[k].begun + 1 /\ x.pc = "cp1"
            /\ x.att \in firings'[k].attempts /\ x.att <= firings'[k].begun,
         x.att # 0 => x.pc \in Admitting,
         x.pc \in {"verify", "link"} => dur'[k] # "none",
         x.pc \in {"confirm", "terminate"} => cp1'[k] = "cancelled"
  PROVE  Inv'
<1>1. /\ k \in DOMAIN firings
      /\ firings[k].begun \in Nat /\ proc[p] \in Locals
      /\ Knows(proc[p])
  BY AtHand, Typed DEF Inv
<1>2. /\ DOMAIN firings' = DOMAIN firings
      /\ firings'[k].begun \in Nat /\ firings[k].begun <= firings'[k].begun
  BY <1>1 DEF OnlyOn, Advances, FiringType
<1>3. proc[p].att # 0 => proc[p].att <= firings'[k].begun
  <2>1. proc[p].att \in Nat
    BY <1>1 DEF Locals
  <2> QED
    BY <1>1, <1>2, <2>1 DEF Knows
<1>4. Knows(x)'
  <2>1. x.todo \subseteq DOMAIN firings' /\ x.noms \in {<<Raises>>} \cup Seq(0 .. MaxTime)
    BY <1>1, <1>2 DEF Knows
  <2>2. x.pc # "trigger"
    BY DEF AtOccurrence
  <2>3. x.pc = "cp1" => x.att # 0 /\ x.att \in firings'[x.key].attempts
    BY <1>1
  <2>4. x.att # 0 => x.att <= firings'[x.key].begun
    BY <1>3
  <2> QED
    BY <1>1, <1>2, <2>1, <2>2, <2>3, <2>4 DEF Knows
<1>5. Numbered(p, k, x)
  BY DEF Numbered
<1> QED
  BY <1>1, <1>4, <1>5, OneMoves

LEMMA GotoMoves ==
  ASSUME Inv, NEW p \in Procs, proc[p].pc \in AtOccurrence,
         NEW place \in AtOccurrence \ {"cp1"}, Goto(p, place),
         OnlyOn(proc[p].key), Advances(p, proc[p].key), UNCHANGED <<leader, now, draining>>,
         proc[p].att # 0 => place \in Admitting,
         place \in {"verify", "link"} => dur'[proc[p].key] # "none",
         place \in {"confirm", "terminate"} => cp1'[proc[p].key] = "cancelled"
  PROVE  Inv'
<1>1. PICK k, y : k = proc[p].key /\ y = proc[p]
  OBVIOUS
<1>2. proc \in [Procs -> Locals] /\ y \in Locals
  BY <1>1, Typed
<1>3. PICK x : x = [y EXCEPT !.pc = place]
  OBVIOUS
<1>4. place \in Places
  BY DEF AtOccurrence, Places
<1>5. /\ x \in Locals /\ x.pc = place /\ x.key = y.key /\ x.att = y.att
      /\ x.todo = y.todo /\ x.noms = y.noms
  BY <1>2, <1>3, <1>4 DEF Locals
<1>6. proc' = [proc EXCEPT ![p] = x]
  BY <1>1, <1>2, <1>3 DEF Goto
<1>7. dur'[k] = dur'[proc[p].key] /\ cp1'[k] = cp1'[proc[p].key]
  BY <1>1
<1> QED
  BY <1>1, <1>5, <1>6, <1>7, GoOn

---------------------------------------------------------------------------
(* What a store call does to it.                                           *)

\* Only leases, receipts and durable work change.
LEMMA LeaseOrReceipt ==
  ASSUME Inv, NEW p \in Procs, NEW k \in DOMAIN firings,
         firings' \in [DOMAIN firings -> FiringType],
         \A j \in DOMAIN firings \ {k} : firings'[j] = firings[j],
         /\ firings'[k].st = firings[k].st /\ firings'[k].linked = firings[k].linked
         /\ firings'[k].gen = firings[k].gen /\ firings'[k].begun = firings[k].begun
         /\ firings'[k].attempts = firings[k].attempts,
         \/ UNCHANGED cp1
         \/ CommitReceipt(k) /\ firings[k].attempts # {}
         \/ cp1' = [cp1 EXCEPT ![k] = "cancelled"],
         UNCHANGED dur \/ CommitDurable(k) \/ CancelDurable(k),
         UNCHANGED <<sched, spec>>
  PROVE  OnlyOn(k) /\ Advances(p, k)
<1>1. /\ k \in Keys
      /\ cp1 \in [Keys -> {"none", "accepted", "cancelled"}]
      /\ dur \in [Keys -> DurStatuses]
      /\ firings[k].begun \in Nat
      /\ FiringOK(k)
  BY Typed DEF Inv
<1>2. /\ cp1' \in [Keys -> {"none", "accepted", "cancelled"}]
      /\ \A j \in Keys \ {k} : cp1'[j] = cp1[j]
      /\ cp1[k] = "cancelled" => cp1'[k] = "cancelled"
      /\ cp1'[k] = "accepted" => cp1[k] = "accepted" \/ firings[k].attempts # {}
  BY <1>1 DEF CommitReceipt
<1>3. /\ dur' \in [Keys -> DurStatuses]
      /\ \A j \in Keys \ {k} : dur'[j] = dur[j]
      /\ dur[k] # "none" => /\ dur'[k] # "none"
                            /\ dur'[k] \in {"accepted", "cancelling"} => k \in Running
  BY <1>1 DEF CommitDurable, CancelDurable, DurStatuses, Running
<1>4. OnlyOn(k)
  BY <1>2, <1>3 DEF OnlyOn
<1>5. FiringOK(k)'
  BY <1>1, <1>2, <1>3 DEF FiringOK
<1> QED
  BY <1>1, <1>2, <1>3, <1>4, <1>5 DEF Advances, Unlinked

\* The record of the occurrence is rewritten, the admission stays.
LEMMA FiringMoves ==
  ASSUME Inv, NEW p \in Procs, NEW k \in DOMAIN firings, NEW f \in FiringType,
         firings' = [firings EXCEPT ![k] = f],
         f.gen = firings[k].gen, firings[k].begun <= f.begun,
         firings[k].attempts \ {proc[p].att} \subseteq f.attempts,
         ~Unlinked(k) => f.st = firings[k].st /\ f.linked = firings[k].linked,
         Unlinked(k) => /\ f.st \in {"accepted", "failed_preparation"}
                        /\ f.linked => f.st = "accepted",
         f.linked => dur[k] # "none",
         cp1[k] = "accepted" => f.attempts # {},
         f.st = "failed_preparation" => f.attempts = {},
         UNCHANGED <<sched, spec, cp1, dur>>
  PROVE  OnlyOn(k) /\ Advances(p, k)
<1>1. /\ k \in Keys
      /\ firings \in [DOMAIN firings -> FiringType]
      /\ cp1 \in [Keys -> {"none", "accepted", "cancelled"}]
      /\ dur \in [Keys -> DurStatuses]
  BY Typed
<1>2. /\ firings' \in [DOMAIN firings -> FiringType]
      /\ firings'[k] = f
      /\ \A j \in DOMAIN firings \ {k} : firings'[j] = firings[j]
  BY <1>1
<1>3. OnlyOn(k)
  BY <1>1, <1>2 DEF OnlyOn
<1> QED
  BY <1>1, <1>2, <1>3 DEF Advances, FiringOK, Running


LEMMA LeaseCalls ==
  ASSUME Inv, NEW p \in Procs, NEW k \in DOMAIN firings, NEW token,
         \/ UNCHANGED firings
         \/ release_firing_preparation(k, p, token)
         \/ acquire_firing_preparation(k, p)
  PROVE  /\ firings' \in [DOMAIN firings -> FiringType]
         /\ \A j \in DOMAIN firings \ {k} : firings'[j] = firings[j]
         /\ firings'[k].st = firings[k].st /\ firings'[k].linked = firings[k].linked
         /\ firings'[k].gen = firings[k].gen /\ firings'[k].begun = firings[k].begun
         /\ firings'[k].attempts = firings[k].attempts
<1>1. firings \in [DOMAIN firings -> FiringType] /\ p \in Owners
  BY Typed, ProcessAssumption DEF Procs
<1>2. PICK g : g = firings[k]
  OBVIOUS
<1>3. g \in FiringType
  BY <1>1, <1>2
<1>4. ASSUME NEW f \in FiringType, firings' = [firings EXCEPT ![k] = f],
             f.st = g.st, f.linked = g.linked, f.gen = g.gen, f.begun = g.begun,
             f.attempts = g.attempts
      PROVE  /\ firings' \in [DOMAIN firings -> FiringType]
             /\ \A j \in DOMAIN firings \ {k} : firings'[j] = firings[j]
             /\ firings'[k].st = g.st /\ firings'[k].linked = g.linked
             /\ firings'[k].gen = g.gen /\ firings'[k].begun = g.begun
             /\ firings'[k].attempts = g.attempts
  BY <1>1, <1>4
<1>5. CASE UNCHANGED firings
  BY <1>1, <1>5
<1>6. CASE release_firing_preparation(k, p, token)
  <2>1. CASE firings[k].owner = p /\ firings[k].token = token
    <3>1. PICK f : f = [g EXCEPT !.owner = NoOwner, !.live = FALSE]
      OBVIOUS
    <3>2. firings' = [firings EXCEPT ![k] = f]
      BY <1>1, <1>2, <1>6, <2>1, <3>1 DEF release_firing_preparation
    <3>3. /\ f \in FiringType /\ f.st = g.st /\ f.linked = g.linked /\ f.gen = g.gen
          /\ f.begun = g.begun /\ f.attempts = g.attempts
      BY <1>3, <3>1 DEF FiringType
    <3> QED
      BY <1>2, <1>4, <3>2, <3>3
  <2>2. CASE ~(firings[k].owner = p /\ firings[k].token = token)
    BY <1>1, <1>6, <2>2 DEF release_firing_preparation
  <2> QED
    BY <2>1, <2>2
<1>7. CASE acquire_firing_preparation(k, p)
  <2>1. PICK t : t = PreparationToken(k, p)
    OBVIOUS
  <2>2. t \in Nat
    BY <1>2, <1>3, <2>1 DEF PreparationToken, FiringType
  <2>3. PICK f : f = [g EXCEPT !.owner = p, !.live = TRUE, !.token = t]
    OBVIOUS
  <2>4. firings' = [firings EXCEPT ![k] = f]
    BY <1>1, <1>2, <1>7, <2>1, <2>3 DEF acquire_firing_preparation
  <2>5. /\ f \in FiringType /\ f.st = g.st /\ f.linked = g.linked /\ f.gen = g.gen
        /\ f.begun = g.begun /\ f.attempts = g.attempts
    BY <1>1, <1>3, <2>2, <2>3 DEF FiringType
  <2> QED
    BY <1>2, <1>4, <2>4, <2>5
<1> QED
  BY <1>5, <1>6, <1>7

\* A call that grants, releases or leaves the lease, with what the admission
\* of the same step does to the receipt and the durable work.
LEMMA LeaseStep ==
  ASSUME Inv, NEW p \in Procs, NEW k \in DOMAIN firings, NEW token,
         \/ UNCHANGED firings
         \/ release_firing_preparation(k, p, token)
         \/ acquire_firing_preparation(k, p),
         \/ UNCHANGED cp1
         \/ CommitReceipt(k) /\ firings[k].attempts # {}
         \/ cp1' = [cp1 EXCEPT ![k] = "cancelled"],
         UNCHANGED dur \/ CommitDurable(k) \/ CancelDurable(k),
         UNCHANGED <<sched, spec>>
  PROVE  OnlyOn(k) /\ Advances(p, k)
<1>1. /\ firings' \in [DOMAIN firings -> FiringType]
      /\ \A j \in DOMAIN firings \ {k} : firings'[j] = firings[j]
      /\ firings'[k].st = firings[k].st /\ firings'[k].linked = firings[k].linked
      /\ firings'[k].gen = firings[k].gen /\ firings'[k].begun = firings[k].begun
      /\ firings'[k].attempts = firings[k].attempts
  BY LeaseCalls
<1> QED
  BY <1>1, LeaseOrReceipt

\* begin_firing_submission opens the next attempt of an occurrence in flight.
LEMMA BeginCall ==
  ASSUME Inv, NEW p \in Procs, NEW k \in DOMAIN firings,
         begin_firing_submission(k), Unlinked(k), proc[p].att = 0,
         UNCHANGED <<sched, spec, cp1, dur>>
  PROVE  /\ OnlyOn(k) /\ Advances(p, k)
         /\ firings'[k].begun = firings[k].begun + 1
         /\ firings[k].begun + 1 \in firings'[k].attempts
<1>1. /\ firings \in [DOMAIN firings -> FiringType]
      /\ FiringOK(k)
  BY Typed DEF Inv
<1>2. PICK g : g = firings[k]
  OBVIOUS
<1>3. g \in FiringType
  BY <1>1, <1>2
<1>4. PICK n, A : n = g.begun + 1 /\ A = g.attempts \cup {n}
  OBVIOUS
<1>5. PICK f : f = [g EXCEPT !.attempts = A, !.begun = n]
  OBVIOUS
<1>6. firings' = [firings EXCEPT ![k] = f]
  BY <1>1, <1>2, <1>4, <1>5 DEF begin_firing_submission, NextAttempt
<1>7. n \in Nat /\ A \in SUBSET Nat /\ g.begun \in Nat /\ g.begun <= n
  BY <1>3, <1>4 DEF FiringType
<1>8. /\ f \in FiringType /\ f.st = g.st /\ f.linked = g.linked /\ f.gen = g.gen
      /\ f.begun = n /\ f.attempts = A
  BY <1>3, <1>5, <1>7 DEF FiringType
<1>9. f.st = "accepted" /\ ~f.linked
  BY <1>2, <1>8 DEF Unlinked
<1>10. OnlyOn(k) /\ Advances(p, k)
  <2>1. firings[k].attempts \ {proc[p].att} \subseteq f.attempts /\ f.attempts # {}
    BY <1>2, <1>4, <1>8
  <2>2. f.gen = firings[k].gen /\ firings[k].begun <= f.begun
    BY <1>2, <1>7, <1>8
  <2> QED
    BY <1>6, <1>8, <1>9, <2>1, <2>2, FiringMoves
<1>11. firings'[k] = f
  BY <1>1, <1>6
<1> QED
  BY <1>2, <1>4, <1>8, <1>10, <1>11

\* reject_firing_submission and fail_firing_after_compensated_submission take
\* back the attempt of the process, of which no receipt is left.
LEMMA WithdrawCalls ==
  ASSUME Inv, NEW p \in Procs, NEW k \in DOMAIN firings,
         \/ reject_firing_submission(k, proc[p].att)
         \/ fail_firing_after_compensated_submission(k, proc[p].att),
         cp1[k] # "accepted", UNCHANGED <<sched, spec, cp1, dur>>
  PROVE  OnlyOn(k) /\ Advances(p, k)
<1>1. /\ firings \in [DOMAIN firings -> FiringType]
      /\ FiringOK(k)
  BY Typed DEF Inv
<1>2. PICK g, a : g = firings[k] /\ a = proc[p].att
  OBVIOUS
<1>3. g \in FiringType
  BY <1>1, <1>2
<1>4. CASE firings' = firings
  <2>1. UNCHANGED firings /\ UNCHANGED cp1 /\ UNCHANGED dur
    BY <1>4
  <2> QED
    BY <2>1, LeaseStep
<1>5. CASE firings' = [firings EXCEPT ![k].attempts = @ \ {proc[p].att}]
  <2>1. PICK f : f = [g EXCEPT !.attempts = g.attempts \ {a}]
    OBVIOUS
  <2>2. firings' = [firings EXCEPT ![k] = f]
    BY <1>1, <1>2, <1>5, <2>1
  <2>3. /\ f \in FiringType /\ f.st = g.st /\ f.linked = g.linked /\ f.gen = g.gen
        /\ f.begun = g.begun /\ f.attempts = g.attempts \ {a} /\ g.begun \in Nat
    BY <1>3, <2>1 DEF FiringType
  <2>4. /\ f.gen = firings[k].gen /\ firings[k].begun <= f.begun
        /\ firings[k].attempts \ {proc[p].att} \subseteq f.attempts
        /\ f.st = firings[k].st /\ f.linked = firings[k].linked
    BY <1>2, <2>3
  <2>5. /\ f.linked => dur[k] # "none"
        /\ f.st = "failed_preparation" => f.attempts = {}
    BY <1>1, <1>2, <2>3 DEF FiringOK
  <2> QED
    BY <2>2, <2>3, <2>4, <2>5, FiringMoves DEF Unlinked
<1>6. CASE /\ Unlinked(k) /\ firings[k].attempts = {proc[p].att}
           /\ firings' = [firings EXCEPT ![k].attempts = {}, ![k].st = "failed_preparation",
                                         ![k].owner = NoOwner, ![k].live = FALSE]
  <2>1. PICK f : f = [g EXCEPT !.attempts = {}, !.st = "failed_preparation",
                               !.owner = NoOwner, !.live = FALSE]
    OBVIOUS
  <2>2. firings' = [firings EXCEPT ![k] = f]
    BY <1>1, <1>2, <1>6, <2>1
  <2>3. /\ f \in FiringType /\ f.st = "failed_preparation" /\ f.linked = g.linked
        /\ f.gen = g.gen /\ f.begun = g.begun /\ f.attempts = {} /\ g.begun \in Nat
    BY <1>3, <2>1 DEF FiringType, FiringStatuses
  <2>4. ~f.linked
    BY <1>2, <1>6, <2>3 DEF Unlinked
  <2>5. /\ f.gen = firings[k].gen /\ firings[k].begun <= f.begun
        /\ firings[k].attempts \ {proc[p].att} \subseteq f.attempts
    BY <1>2, <1>6, <2>3
  <2> QED
    BY <1>6, <2>2, <2>3, <2>4, <2>5, FiringMoves
<1> QED
  BY <1>4, <1>5, <1>6 DEF reject_firing_submission, fail_firing_after_compensated_submission

\* fail_firing_preparation ends an occurrence that no admission is under way
\* for.
LEMMA FailCall ==
  ASSUME Inv, NEW p \in Procs, NEW k \in DOMAIN firings, NEW token,
         fail_firing_preparation(k), CanFailPreparation(k, p, token),
         UNCHANGED <<sched, spec, cp1, dur>>
  PROVE  OnlyOn(k) /\ Advances(p, k)
<1>1. /\ firings \in [DOMAIN firings -> FiringType]
      /\ FiringOK(k)
  BY Typed DEF Inv
<1>2. PICK g : g = firings[k]
  OBVIOUS
<1>3. g \in FiringType /\ Unlinked(k) /\ g.attempts = {}
  BY <1>1, <1>2 DEF CanFailPreparation
<1>4. PICK f : f = [g EXCEPT !.st = "failed_preparation", !.owner = NoOwner, !.live = FALSE]
  OBVIOUS
<1>5. firings' = [firings EXCEPT ![k] = f]
  BY <1>1, <1>2, <1>4 DEF fail_firing_preparation
<1>6. /\ f \in FiringType /\ f.st = "failed_preparation" /\ f.linked = g.linked
      /\ f.gen = g.gen /\ f.begun = g.begun /\ f.attempts = {} /\ g.begun \in Nat
  BY <1>3, <1>4 DEF FiringType, FiringStatuses
<1>7. ~f.linked
  BY <1>2, <1>3, <1>6 DEF Unlinked
<1>8. /\ f.gen = firings[k].gen /\ firings[k].begun <= f.begun
      /\ firings[k].attempts \ {proc[p].att} \subseteq f.attempts
      /\ cp1[k] # "accepted"
  BY <1>1, <1>2, <1>3, <1>6 DEF FiringOK
<1> QED
  BY <1>3, <1>5, <1>6, <1>7, <1>8, FiringMoves

\* link_firing_submission gives an accepted occurrence its run.
LEMMA LinkCall ==
  ASSUME Inv, NEW p \in Procs, NEW k \in DOMAIN firings,
         link_firing_submission(k), firings[k].st = "accepted", dur[k] # "none",
         UNCHANGED <<sched, spec, cp1, dur>>
  PROVE  OnlyOn(k) /\ Advances(p, k)
<1>1. /\ firings \in [DOMAIN firings -> FiringType]
      /\ FiringOK(k)
  BY Typed DEF Inv
<1>2. CASE firings[k].linked
  <2>1. UNCHANGED firings /\ UNCHANGED cp1 /\ UNCHANGED dur
    BY <1>2 DEF link_firing_submission
  <2> QED
    BY <2>1, LeaseStep
<1>3. CASE ~firings[k].linked
  <2>1. PICK g : g = firings[k]
    OBVIOUS
  <2>2. g \in FiringType
    BY <1>1, <2>1
  <2>3. PICK f : f = [g EXCEPT !.linked = TRUE, !.owner = NoOwner, !.live = FALSE]
    OBVIOUS
  <2>4. firings' = [firings EXCEPT ![k] = f]
    BY <1>1, <1>3, <2>1, <2>3 DEF link_firing_submission
  <2>5. /\ f \in FiringType /\ f.st = g.st /\ f.linked
        /\ f.gen = g.gen /\ f.begun = g.begun /\ f.attempts = g.attempts /\ g.begun \in Nat
    BY <2>2, <2>3 DEF FiringType
  <2>6. /\ f.gen = firings[k].gen /\ firings[k].begun <= f.begun
        /\ firings[k].attempts \ {proc[p].att} \subseteq f.attempts
        /\ cp1[k] = "accepted" => f.attempts # {}
        /\ f.st = "accepted"
    BY <1>1, <2>1, <2>5 DEF FiringOK
  <2>7. Unlinked(k)
    BY <1>3 DEF Unlinked
  <2> QED
    BY <2>4, <2>5, <2>6, <2>7, FiringMoves
<1> QED
  BY <1>2, <1>3

---------------------------------------------------------------------------
(* The steps of an occurrence.                                             *)

\* The process leaves the occurrence, giving its lease back if it holds one,
\* after a last write to the receipt or the durable work.
LEMMA GivesUp ==
  ASSUME Inv, NEW p \in Procs, proc[p].pc \in AtOccurrence, NEW k, k = proc[p].key,
         \/ AbandonPrepared(p)
         \/ AbandonRecovery(p)
         \/ Finish(p) /\ UNCHANGED firings,
         UNCHANGED cp1 \/ (CommitReceipt(k) /\ firings[k].attempts # {}),
         UNCHANGED dur \/ CommitDurable(k) \/ CancelDurable(k),
         UNCHANGED <<sched, spec, leader, envVars>>
  PROVE  Inv'
<1>1. k \in DOMAIN firings
  BY AtHand
<1>2. /\ Finish(p) \/ Abandon(p)
      /\ UNCHANGED firings \/ release_firing_preparation(k, p, proc[p].ptok)
  BY DEF AbandonPrepared, AbandonRecovery
<1>3. PICK token : token = proc[p].ptok
  OBVIOUS
<1>4. OnlyOn(k) /\ Advances(p, k)
  BY <1>1, <1>2, <1>3, LeaseStep
<1> QED
  BY <1>2, <1>4, LeaveMoves DEF envVars

\* The process goes on, and the receipt or the durable work is written.
LEMMA Proceeds ==
  ASSUME Inv, NEW p \in Procs, proc[p].pc \in AtOccurrence, NEW k, k = proc[p].key,
         NEW place \in AtOccurrence \ {"cp1"}, Goto(p, place), UNCHANGED firings,
         \/ UNCHANGED cp1
         \/ CommitReceipt(k) /\ firings[k].attempts # {}
         \/ cp1' = [cp1 EXCEPT ![k] = "cancelled"],
         UNCHANGED dur \/ CommitDurable(k) \/ CancelDurable(k),
         UNCHANGED <<sched, spec, leader, envVars>>,
         proc[p].att # 0 => place \in Admitting,
         place \in {"verify", "link"} => dur'[k] # "none",
         place \in {"confirm", "terminate"} => cp1'[k] = "cancelled"
  PROVE  Inv'
<1>1. k \in DOMAIN firings
  BY AtHand
<1>2. OnlyOn(k) /\ Advances(p, k)
  BY <1>1, LeaseStep
<1>3. dur'[k] = dur'[proc[p].key] /\ cp1'[k] = cp1'[proc[p].key]
  OBVIOUS
<1> QED
  BY <1>2, <1>3, GotoMoves DEF envVars

LEMMA RecoverStep ==
  ASSUME Inv, NEW p \in Procs, recover_scheduled_occurrence(p)
  PROVE  Inv'
<1>1. PICK k : k = proc[p].key
  OBVIOUS
<1>2. /\ proc[p].pc \in {"recover", "submit"} /\ proc[p].pc \in AtOccurrence
      /\ proc[p].att = 0
      /\ UNCHANGED <<sched, spec, leader, envVars, left, admissionVars>>
  BY AtHand DEF recover_scheduled_occurrence, At, AtOccurrence, Admitting
<1>3. UNCHANGED cp1 /\ UNCHANGED dur
  BY <1>2 DEF admissionVars
<1>4. CASE UNCHANGED firings /\ (Goto(p, "begin") \/ Goto(p, "acquire") \/ Goto(p, "repair"))
  <2>1. /\ {"begin", "acquire", "repair"} \subseteq AtOccurrence \ {"cp1"}
        /\ {"begin", "acquire", "repair"} \cap {"verify", "link", "confirm", "terminate"} = {}
    BY DEF AtOccurrence
  <2>2. \E place \in {"begin", "acquire", "repair"} : Goto(p, place)
    BY <1>4
  <2> QED
    BY <1>1, <1>2, <1>3, <1>4, <2>1, <2>2, Proceeds
<1>5. CASE UNCHANGED firings /\ Goto(p, "link") /\ dur[k] # "none"
  <2>1. "link" \in AtOccurrence \ {"cp1"} /\ "link" \notin {"confirm", "terminate"}
    BY DEF AtOccurrence
  <2>2. dur'[k] # "none"
    BY <1>3, <1>5
  <2> QED
    BY <1>1, <1>2, <1>3, <1>5, <2>1, <2>2, Proceeds
<1>6. CASE AbandonRecovery(p)
  BY <1>1, <1>2, <1>3, <1>6, GivesUp
<1> QED
  BY <1>1, <1>4, <1>5, <1>6 DEF recover_scheduled_occurrence

LEMMA RepairBeginStep ==
  ASSUME Inv, NEW p \in Procs, RepairBegin(p)
  PROVE  Inv'
<1>1. PICK k : k = proc[p].key
  OBVIOUS
<1>2. /\ proc[p].pc = "repair" /\ proc[p].pc \in AtOccurrence
      /\ proc[p].att = 0 /\ k \in DOMAIN firings
      /\ UNCHANGED <<sched, spec, leader, envVars, left, admissionVars>>
  BY <1>1, AtHand DEF RepairBegin, At, AtOccurrence, Admitting
<1>3. UNCHANGED cp1 /\ UNCHANGED dur
  BY <1>2 DEF admissionVars
<1>4. "accept" \in AtOccurrence \ {"cp1"}
  BY DEF AtOccurrence
<1>5. CASE Goto(p, "accept") /\ UNCHANGED firings
  BY <1>1, <1>2, <1>3, <1>4, <1>5, Proceeds
<1>6. CASE CanBegin(k, p, proc[p].ptok) /\ begin_firing_submission(k) /\ Goto(p, "accept")
  <2>1. OnlyOn(k) /\ Advances(p, k)
    BY <1>2, <1>3, <1>6, BeginCall DEF CanBegin
  <2> QED
    BY <1>1, <1>2, <1>4, <1>6, <2>1, GotoMoves DEF envVars
<1>7. CASE AbandonRecovery(p)
  BY <1>1, <1>2, <1>3, <1>7, GivesUp
<1> QED
  BY <1>1, <1>5, <1>6, <1>7 DEF RepairBegin

LEMMA RepairAcceptStep ==
  ASSUME Inv, NEW p \in Procs, RepairAccept(p)
  PROVE  Inv'
<1>1. PICK k : k = proc[p].key
  OBVIOUS
<1>2. /\ proc[p].pc = "accept" /\ proc[p].pc \in AtOccurrence
      /\ proc[p].att = 0 /\ k \in DOMAIN firings
      /\ UNCHANGED <<sched, spec, leader, envVars, cp1>>
  BY <1>1, AtHand DEF RepairAccept, At, AtOccurrence, Admitting
<1>3. CASE CommitDurable(k) /\ Goto(p, "verify") /\ UNCHANGED firings
  <2>1. "verify" \in AtOccurrence \ {"cp1"}
    BY DEF AtOccurrence
  <2>2. dur'[k] # "none"
    BY <1>2, <1>3, Typed DEF CommitDurable
  <2> QED
    BY <1>1, <1>2, <1>3, <2>1, <2>2, Proceeds
<1>4. CASE AbandonRecovery(p) /\ (CommitDurable(k) \/ UNCHANGED dur)
  BY <1>1, <1>2, <1>4, GivesUp
<1> QED
  BY <1>1, <1>3, <1>4 DEF RepairAccept

LEMMA RepairVerifyStep ==
  ASSUME Inv, NEW p \in Procs, RepairVerify(p)
  PROVE  Inv'
<1>1. PICK k : k = proc[p].key
  OBVIOUS
<1>2. /\ proc[p].pc = "verify" /\ proc[p].pc \in AtOccurrence
      /\ proc[p].att = 0 /\ k \in DOMAIN firings /\ dur[k] # "none"
      /\ UNCHANGED <<sched, spec, leader, envVars, cp1>>
  BY <1>1, AtHand DEF RepairVerify, At, AtOccurrence, Admitting, Inv, Knows
<1>3. CASE Goto(p, "link") /\ UNCHANGED <<firings, dur>>
  <2>1. "link" \in AtOccurrence \ {"cp1"}
    BY DEF AtOccurrence
  <2>2. dur'[k] # "none"
    BY <1>2, <1>3
  <2> QED
    BY <1>1, <1>2, <1>3, <2>1, <2>2, Proceeds
<1>4. CASE CancelDurable(k) /\ AbandonRecovery(p)
  BY <1>1, <1>2, <1>4, GivesUp
<1> QED
  BY <1>1, <1>3, <1>4 DEF RepairVerify

LEMMA AcquireStep ==
  ASSUME Inv, NEW p \in Procs, AcquirePreparation(p)
  PROVE  Inv'
<1>1. PICK k, y : k = proc[p].key /\ y = proc[p]
  OBVIOUS
<1>2. /\ y.pc = "acquire" /\ proc[p].pc \in AtOccurrence
      /\ y.att = 0 /\ k \in DOMAIN firings
      /\ y \in Locals /\ proc \in [Procs -> Locals]
      /\ UNCHANGED <<sched, spec, leader, envVars, left, admissionVars>>
  BY <1>1, AtHand, Typed DEF AcquirePreparation, At, AtOccurrence, Admitting
<1>3. UNCHANGED cp1 /\ UNCHANGED dur
  BY <1>2 DEF admissionVars
<1>4. CASE /\ acquire_firing_preparation(k, p)
           /\ proc' = [proc EXCEPT ![p].pc = "prepare", ![p].guarded = TRUE,
                                   ![p].ptok = PreparationToken(k, p)]
  <2>1. PICK t : t = PreparationToken(k, p)
    OBVIOUS
  <2>2. t \in Nat
    BY <1>2, <2>1, Typed DEF PreparationToken
  <2>3. PICK x : x = [y EXCEPT !.pc = "prepare", !.guarded = TRUE, !.ptok = t]
    OBVIOUS
  <2>4. /\ x \in Locals /\ x.pc = "prepare" /\ x.key = k /\ x.att = 0
        /\ x.todo = y.todo /\ x.noms = y.noms
    BY <1>1, <1>2, <2>2, <2>3 DEF Locals, Places
  <2>5. proc' = [proc EXCEPT ![p] = x]
    BY <1>1, <1>2, <1>4, <2>1, <2>3, Zenon
  <2>6. OnlyOn(k) /\ Advances(p, k)
    BY <1>2, <1>3, <1>4, LeaseStep
  <2>7. x.pc \in AtOccurrence /\ x.pc \notin {"cp1", "verify", "link", "confirm", "terminate"}
    BY <2>4 DEF AtOccurrence
  <2> QED
    BY <1>1, <1>2, <2>4, <2>5, <2>6, <2>7, GoOn DEF envVars
<1>5. CASE Finish(p) /\ UNCHANGED firings
  BY <1>1, <1>2, <1>3, <1>5, GivesUp
<1> QED
  BY <1>1, <1>4, <1>5 DEF AcquirePreparation

LEMMA PrepareStep ==
  ASSUME Inv, NEW p \in Procs, PrepareOccurrence(p)
  PROVE  Inv'
<1>1. PICK k : k = proc[p].key
  OBVIOUS
<1>2. /\ proc[p].pc = "prepare" /\ proc[p].pc \in AtOccurrence
      /\ proc[p].att = 0 /\ k \in DOMAIN firings
      /\ UNCHANGED <<sched, spec, leader, envVars, admissionVars>>
  BY <1>1, AtHand DEF PrepareOccurrence, At, AtOccurrence, Admitting
<1>3. UNCHANGED cp1 /\ UNCHANGED dur
  BY <1>2 DEF admissionVars
<1>4. CASE Goto(p, "submit") /\ UNCHANGED firings
  <2>1. "submit" \in AtOccurrence \ {"cp1"}
    BY DEF AtOccurrence
  <2> QED
    BY <1>1, <1>2, <1>3, <1>4, <2>1, Proceeds
<1>5. CASE AbandonPrepared(p)
  BY <1>1, <1>2, <1>3, <1>5, GivesUp
<1>6. CASE /\ CanFailPreparation(k, p, proc[p].ptok)
           /\ fail_firing_preparation(k) /\ Abandon(p)
  <2>1. OnlyOn(k) /\ Advances(p, k)
    BY <1>2, <1>3, <1>6, FailCall
  <2> QED
    BY <1>1, <1>2, <1>6, <2>1, LeaveMoves DEF envVars
<1> QED
  BY <1>1, <1>4, <1>5, <1>6 DEF PrepareOccurrence

LEMMA BeginStep ==
  ASSUME Inv, NEW p \in Procs, BeginAdmission(p)
  PROVE  Inv'
<1>1. PICK k, y : k = proc[p].key /\ y = proc[p]
  OBVIOUS
<1>2. /\ y.pc = "begin" /\ proc[p].pc \in AtOccurrence
      /\ y.att = 0 /\ k \in DOMAIN firings
      /\ y \in Locals /\ proc \in [Procs -> Locals]
      /\ UNCHANGED <<sched, spec, leader, envVars, left, admissionVars>>
  BY <1>1, AtHand, Typed DEF BeginAdmission, At, AtOccurrence, Admitting
<1>3. UNCHANGED cp1 /\ UNCHANGED dur
  BY <1>2 DEF admissionVars
<1>4. CASE /\ CanBegin(k, p, proc[p].ptok)
           /\ begin_firing_submission(k)
           /\ proc' = [proc EXCEPT ![p].pc = "cp1", ![p].att = NextAttempt(k)]
  <2>1. PICK a : a = NextAttempt(k)
    OBVIOUS
  <2>2. a \in Nat /\ a = firings[k].begun + 1
    BY <1>2, <2>1, Typed DEF NextAttempt
  <2>3. PICK x : x = [y EXCEPT !.pc = "cp1", !.att = a]
    OBVIOUS
  <2>4. /\ x \in Locals /\ x.pc = "cp1" /\ x.key = k /\ x.att = a
        /\ x.todo = y.todo /\ x.noms = y.noms
    <3>1. y \in Locals /\ y.key = k /\ a \in Nat
      BY <1>1, <1>2, <2>2
    <3> QED
      BY <2>3, <3>1 DEF Locals, Places
  <2>5. proc' = [proc EXCEPT ![p] = x]
    BY <1>1, <1>2, <1>4, <2>1, <2>3, Zenon
  <2>6. /\ OnlyOn(k) /\ Advances(p, k)
        /\ firings'[k].begun = a /\ a \in firings'[k].attempts
    BY <1>1, <1>2, <1>3, <1>4, <2>2, BeginCall DEF CanBegin
  <2>7. x.pc \in AtOccurrence /\ x.pc \in Admitting
    BY <2>4 DEF AtOccurrence, Admitting
  <2>8. x.att <= firings'[k].begun /\ x.att \in firings'[k].attempts /\ x.att = firings[k].begun + 1
    BY <2>2, <2>4, <2>6
  <2> QED
    BY <1>1, <1>2, <2>4, <2>5, <2>6, <2>7, <2>8, GoOn DEF envVars
<1>5. CASE AbandonPrepared(p)
  BY <1>1, <1>2, <1>3, <1>5, GivesUp
<1> QED
  BY <1>1, <1>4, <1>5 DEF BeginAdmission

LEMMA ReceiptStep ==
  ASSUME Inv, NEW p \in Procs, AcceptReceipt(p)
  PROVE  Inv'
<1>1. PICK k, y : k = proc[p].key /\ y = proc[p]
  OBVIOUS
<1>2. /\ y.pc = "cp1" /\ proc[p].pc \in AtOccurrence
      /\ k \in DOMAIN firings /\ firings[k].attempts # {}
      /\ y \in Locals /\ proc \in [Procs -> Locals]
      /\ UNCHANGED <<sched, spec, leader, envVars, dur>>
  BY <1>1, AtHand, Typed DEF AcceptReceipt, At, AtOccurrence, Inv, Knows
<1>3. /\ "dur" \in AtOccurrence \ {"cp1"} /\ "dur" \in Admitting
      /\ "raise" \in AtOccurrence \ {"cp1"} /\ "raise" \in Admitting
  BY DEF AtOccurrence, Admitting
<1>4. CASE /\ CommitReceipt(k) /\ UNCHANGED firings
           /\ proc' = [proc EXCEPT ![p].pc = "dur", ![p].created = cp1[k] = "none"]
  <2>1. PICK c : c = (cp1[k] = "none")
    OBVIOUS
  <2>2. c \in BOOLEAN
    BY <2>1
  <2>3. PICK x : x = [y EXCEPT !.pc = "dur", !.created = c]
    OBVIOUS
  <2>4. /\ x \in Locals /\ x.pc = "dur" /\ x.key = k /\ x.att = y.att
        /\ x.todo = y.todo /\ x.noms = y.noms
    BY <1>1, <1>2, <2>2, <2>3 DEF Locals, Places
  <2>5. proc' = [proc EXCEPT ![p] = x]
    BY <1>1, <1>2, <1>4, <2>1, <2>3, Zenon
  <2>6. OnlyOn(k) /\ Advances(p, k)
    BY <1>2, <1>4, LeaseStep
  <2> QED
    BY <1>1, <1>2, <1>3, <2>4, <2>5, <2>6, GoOn DEF envVars
<1>5. CASE CommitReceipt(k) /\ Goto(p, "dur") /\ UNCHANGED firings
  BY <1>1, <1>2, <1>3, <1>5, Proceeds
<1>6. CASE (CommitReceipt(k) \/ UNCHANGED cp1) /\ AbandonPrepared(p)
  BY <1>1, <1>2, <1>6, GivesUp
<1>7. CASE /\ cp1[k] = "none" /\ UNCHANGED cp1
           /\ reject_firing_submission(k, proc[p].att) /\ Goto(p, "raise")
  <2>1. OnlyOn(k) /\ Advances(p, k)
    BY <1>2, <1>7, WithdrawCalls
  <2> QED
    BY <1>1, <1>2, <1>3, <1>7, <2>1, GotoMoves DEF envVars
<1> QED
  BY <1>1, <1>4, <1>5, <1>6, <1>7 DEF AcceptReceipt

LEMMA DurableStep ==
  ASSUME Inv, NEW p \in Procs, AcceptDurable(p)
  PROVE  Inv'
<1>1. PICK k : k = proc[p].key
  OBVIOUS
<1>2. /\ proc[p].pc = "dur" /\ proc[p].pc \in AtOccurrence
      /\ k \in DOMAIN firings
      /\ UNCHANGED <<sched, spec, leader, envVars, cp1>>
  BY <1>1, AtHand DEF AcceptDurable, At, AtOccurrence
<1>3. /\ "link" \in AtOccurrence \ {"cp1"} /\ "link" \in Admitting
      /\ "cancel" \in AtOccurrence \ {"cp1"} /\ "cancel" \in Admitting
  BY DEF AtOccurrence, Admitting
<1>4. CASE CommitDurable(k) /\ Goto(p, "link") /\ UNCHANGED firings
  <2>1. dur'[k] # "none"
    BY <1>2, <1>4, Typed DEF CommitDurable
  <2> QED
    BY <1>1, <1>2, <1>3, <1>4, <2>1, Proceeds
<1>5. CASE (CommitDurable(k) \/ UNCHANGED dur) /\ AbandonPrepared(p)
  BY <1>1, <1>2, <1>5, GivesUp
<1>6. CASE Goto(p, "cancel") /\ UNCHANGED <<firings, dur>>
  BY <1>1, <1>2, <1>3, <1>6, Proceeds
<1> QED
  BY <1>1, <1>4, <1>5, <1>6 DEF AcceptDurable

LEMMA CompensationStep ==
  ASSUME Inv, NEW p \in Procs,
         CancelReceipt(p) \/ ConfirmAbsence(p) \/ TerminateFiring(p) \/ Raise(p)
  PROVE  Inv'
<1>1. PICK k : k = proc[p].key
  OBVIOUS
<1>2. /\ proc[p].pc \in {"cancel", "confirm", "terminate", "raise"}
      /\ proc[p].pc \in AtOccurrence
      /\ k \in DOMAIN firings
      /\ proc[p].pc \in {"confirm", "terminate"} => cp1[k] = "cancelled"
  BY <1>1, AtHand
     DEF CancelReceipt, ConfirmAbsence, TerminateFiring, Raise, At, AtOccurrence, Inv, Knows
<1>3. /\ {"confirm", "terminate", "raise"} \subseteq AtOccurrence \ {"cp1"}
      /\ {"confirm", "terminate", "raise"} \subseteq Admitting
  BY DEF AtOccurrence, Admitting
<1>4. CASE CancelReceipt(p)
  <2>1. /\ cp1' = [cp1 EXCEPT ![k] = "cancelled"] /\ Goto(p, "confirm")
        /\ UNCHANGED <<sched, spec, firings, leader, envVars, dur>>
    BY <1>1, <1>4 DEF CancelReceipt, storeVars
  <2>2. cp1'[k] = "cancelled"
    BY <1>2, <2>1, Typed
  <2> QED
    BY <1>1, <1>2, <1>3, <2>1, <2>2, Proceeds
<1>5. CASE ConfirmAbsence(p)
  <2>1. UNCHANGED <<sched, spec, leader, envVars, cp1>> /\ proc[p].pc = "confirm"
    BY <1>5 DEF ConfirmAbsence, At
  <2>2. CASE Goto(p, "terminate") /\ UNCHANGED <<firings, dur>>
    <3>1. cp1'[k] = "cancelled"
      BY <1>2, <2>1
    <3> QED
      BY <1>1, <1>2, <1>3, <2>1, <2>2, <3>1, Proceeds
  <2>3. CASE CancelDurable(k) /\ AbandonPrepared(p)
    BY <1>1, <1>2, <2>1, <2>3, GivesUp
  <2> QED
    BY <1>1, <1>5, <2>2, <2>3 DEF ConfirmAbsence
<1>6. CASE TerminateFiring(p)
  <2>1. /\ fail_firing_after_compensated_submission(k, proc[p].att)
        /\ Goto(p, "raise") /\ proc[p].pc = "terminate"
        /\ UNCHANGED <<sched, spec, leader, envVars, left, admissionVars>>
    BY <1>1, <1>6 DEF TerminateFiring, At
  <2>2. UNCHANGED <<sched, spec, cp1, dur>> /\ cp1[k] # "accepted"
    BY <1>2, <2>1 DEF admissionVars
  <2>3. OnlyOn(k) /\ Advances(p, k)
    BY <1>2, <2>1, <2>2, WithdrawCalls
  <2> QED
    BY <1>1, <1>2, <1>3, <2>1, <2>3, GotoMoves DEF envVars
<1>7. CASE Raise(p)
  BY <1>1, <1>2, <1>7, GivesUp DEF Raise, admissionVars
<1> QED
  BY <1>4, <1>5, <1>6, <1>7

LEMMA LinkStep ==
  ASSUME Inv, NEW p \in Procs, LinkSubmission(p)
  PROVE  Inv'
<1>1. PICK k : k = proc[p].key
  OBVIOUS
<1>2. /\ proc[p].pc = "link" /\ proc[p].pc \in AtOccurrence
      /\ k \in DOMAIN firings /\ dur[k] # "none"
      /\ UNCHANGED <<sched, spec, leader, envVars, left, admissionVars>>
  BY <1>1, AtHand DEF LinkSubmission, At, AtOccurrence, Inv, Knows
<1>3. UNCHANGED cp1 /\ UNCHANGED dur
  BY <1>2 DEF admissionVars
<1>4. CASE firings[k].st = "accepted" /\ link_firing_submission(k) /\ Finish(p)
  <2>1. OnlyOn(k) /\ Advances(p, k)
    BY <1>2, <1>3, <1>4, LinkCall
  <2> QED
    BY <1>1, <1>2, <1>4, <2>1, LeaveMoves DEF envVars
<1>5. CASE AbandonRecovery(p)
  BY <1>1, <1>2, <1>3, <1>5, GivesUp
<1> QED
  BY <1>1, <1>4, <1>5 DEF LinkSubmission, CanLink

---------------------------------------------------------------------------
(* The environment.                                                        *)

\* Only the preparation leases of the firings change.
LEMMA SameOccurrences ==
  ASSUME Inv, UNCHANGED <<sched, spec, leader, proc, now, draining, cp1, dur>>,
         firings' \in [DOMAIN firings -> FiringType],
         DOMAIN firings' = DOMAIN firings,
         \A j \in DOMAIN firings :
           /\ firings'[j].st = firings[j].st /\ firings'[j].linked = firings[j].linked
           /\ firings'[j].gen = firings[j].gen /\ firings'[j].begun = firings[j].begun
           /\ firings'[j].attempts = firings[j].attempts
  PROVE  Inv'
<1>1. ASSUME NEW p \in Procs
      PROVE  Knows(proc[p])'
  <2>1. PICK y : y = proc[p]
    OBVIOUS
  <2>2. Knows(y) /\ proc'[p] = y
    BY <2>1 DEF Inv
  <2>3. y.pc = "cp1" => y.key \in DOMAIN firings
    BY <2>2 DEF Knows, AtOccurrence
  <2> QED
    BY <2>2, <2>3 DEF Knows
<1>2. \A j \in DOMAIN firings : FiringOK(j)'
  BY DEF Inv, FiringOK
<1>3. UnlinkedIsCurrent'
  BY DEF Inv, UnlinkedIsCurrent, UnlinkedKeys, Unlinked
<1>4. OneInFlight'
  BY DEF Inv, OneInFlight, InFlight, Running
<1>5. TypeOK' /\ OwnAttempts' /\ ReceiptsAreClaimed'
  BY DEF Inv, TypeOK, OwnAttempts, ReceiptsAreClaimed
<1> QED
  BY <1>1, <1>2, <1>3, <1>4, <1>5 DEF Inv

LEMMA LeaseExpires ==
  ASSUME Inv, NEW k \in DOMAIN firings, ExpirePreparation(k)
  PROVE  Inv'
<1>1. /\ firings \in [DOMAIN firings -> FiringType]
      /\ UNCHANGED <<sched, spec, leader, proc, now, draining, cp1, dur>>
  BY Typed DEF ExpirePreparation, envVars, admissionVars
<1>2. PICK g, f : g = firings[k] /\ f = [g EXCEPT !.live = FALSE]
  OBVIOUS
<1>3. firings' = [firings EXCEPT ![k] = f]
  BY <1>1, <1>2 DEF ExpirePreparation
<1>4. /\ f \in FiringType /\ f.st = g.st /\ f.linked = g.linked /\ f.gen = g.gen
      /\ f.begun = g.begun /\ f.attempts = g.attempts
  BY <1>1, <1>2 DEF FiringType
<1>5. /\ firings' \in [DOMAIN firings -> FiringType]
      /\ DOMAIN firings' = DOMAIN firings
      /\ \A j \in DOMAIN firings :
           /\ firings'[j].st = firings[j].st /\ firings'[j].linked = firings[j].linked
           /\ firings'[j].gen = firings[j].gen /\ firings'[j].begun = firings[j].begun
           /\ firings'[j].attempts = firings[j].attempts
  BY <1>1, <1>2, <1>3, <1>4
<1> QED
  BY <1>1, <1>5, SameOccurrences

LEMMA WorkStep ==
  ASSUME Inv, NEW k \in Keys, WorkEnds(k)
  PROVE  Inv'
<1>1. /\ UNCHANGED <<sched, spec, firings, leader, proc, now, draining, cp1>>
      /\ dur' \in [Keys -> DurStatuses]
      /\ \A j \in Keys : (dur[j] # "none" => dur'[j] # "none")
      /\ Running' \subseteq Running
  BY Typed DEF WorkEnds, storeVars, envVars, Running, DurStatuses
<1>2. \A p \in Procs : Knows(proc[p])'
  <2>1. ASSUME NEW p \in Procs
        PROVE  Knows(proc[p])'
    <3>1. PICK y : y = proc[p]
      OBVIOUS
    <3>2. proc'[p] = y /\ Knows(y)
      BY <1>1, <3>1 DEF Inv
    <3>3. y.pc \in {"verify", "link"} => y.key \in Keys
      BY <3>2, Typed DEF Knows, AtOccurrence
    <3> QED
      BY <1>1, <3>2, <3>3 DEF Knows
  <2> QED
    BY <2>1
<1>3. \A j \in DOMAIN firings : FiringOK(j)'
  BY <1>1, Typed DEF Inv, FiringOK
<1>4. OneInFlight'
  BY <1>1 DEF Inv, OneInFlight, InFlight
<1>5. TypeOK' /\ OwnAttempts' /\ ReceiptsAreClaimed' /\ UnlinkedIsCurrent'
  BY <1>1 DEF Inv, TypeOK, OwnAttempts, ReceiptsAreClaimed, UnlinkedIsCurrent, UnlinkedKeys,
              Unlinked, DurStatuses
<1> QED
  BY <1>1, <1>2, <1>3, <1>4, <1>5 DEF Inv

\* The schedule is edited only when no unlinked occurrence is in the way.
LEMMA AdminStep ==
  ASSUME Inv, Administer
  PROVE  Inv'
<1>1. UNCHANGED <<spec, firings, leader, proc, now, draining, cp1, dur>>
  BY DEF Administer, set_status, amend, transfer_timer_owner, envVars, admissionVars
<1>2. /\ sched \in [status : {"active", "paused", "deleted"}, rev : 1 .. MaxRev,
                    owner : {"local", "external"}, gen : 1 .. MaxGen,
                    cursor : Nat \cup {NoFire}]
      /\ spec \in Specs /\ now \in 0 .. MaxTime
  BY DEF Inv, TypeOK
<1>3. PICK s : s = sched
  OBVIOUS
<1>4. /\ sched' \in [status : {"active", "paused", "deleted"}, rev : 1 .. MaxRev,
                     owner : {"local", "external"}, gen : 1 .. MaxGen,
                     cursor : Nat \cup {NoFire}]
      /\ \/ UnlinkedKeys = {}
         \/ sched'.status # "deleted" /\ sched'.rev = s.rev /\ sched'.gen = s.gen
  <2>1. CASE \E status \in {"active", "paused", "deleted"} : set_status(status)
    BY <1>2, <1>3, <2>1 DEF set_status
  <2>2. CASE /\ sched.rev < MaxRev
             /\ next_fire_after(spec, now, NoNominal) # Raises
             /\ amend(next_fire_after(spec, now, NoNominal), Running)
    <3>1. PICK n : n = next_fire_after(spec, now, NoNominal)
      OBVIOUS
    <3>2. n \in Nat \cup {NoFire}
      <4>1. now \in Int
        BY <1>2, ScheduleAssumption
      <4>2. n \in Nat \cup {NoFire, Raises}
        BY <1>2, <3>1, <4>1, NextIsInstant DEF NoNominal
      <4> QED
        BY <2>2, <3>1, <4>2
    <3>3. sched' = [s EXCEPT !.rev = @ + 1, !.cursor = n]
      BY <1>3, <2>2, <3>1 DEF amend
    <3>4. s.rev + 1 \in 1 .. MaxRev
      BY <1>2, <1>3, <2>2, ScheduleAssumption
    <3>5. UnlinkedKeys = {}
      BY <2>2 DEF amend, HasInflightFiring, InFlight, UnlinkedKeys, Unlinked
    <3> QED
      BY <1>2, <1>3, <3>2, <3>3, <3>4, <3>5
  <2>3. CASE /\ sched.gen < MaxGen
             /\ \E o \in {"local", "external"} : transfer_timer_owner(o)
    <3>1. PICK o \in {"local", "external"} : transfer_timer_owner(o)
      BY <2>3
    <3>2. PICK n : n = s.gen + 1
      OBVIOUS
    <3>3. n \in 1 .. MaxGen
      BY <1>2, <1>3, <2>3, <3>2, ScheduleAssumption
    <3>4. sched' = [s EXCEPT !.owner = o, !.gen = n] /\ UnlinkedKeys = {}
      BY <1>3, <3>1, <3>2 DEF transfer_timer_owner
    <3> QED
      BY <1>2, <1>3, <3>3, <3>4
  <2> QED
    BY <2>1, <2>2, <2>3 DEF Administer
<1>5. UnlinkedIsCurrent'
  BY <1>1, <1>3, <1>4 DEF Inv, UnlinkedIsCurrent, UnlinkedKeys, Unlinked
<1>6. \A p \in Procs : Knows(proc[p])'
  BY <1>1 DEF Inv, Knows
<1>7. \A j \in DOMAIN firings : FiringOK(j)'
  BY <1>1 DEF Inv, FiringOK
<1>8. TypeOK' /\ OwnAttempts' /\ ReceiptsAreClaimed' /\ OneInFlight'
  BY <1>1, <1>4 DEF Inv, TypeOK, OwnAttempts, ReceiptsAreClaimed, OneInFlight, InFlight, Running
<1> QED
  BY <1>1, <1>5, <1>6, <1>7, <1>8 DEF Inv

---------------------------------------------------------------------------
(* The specification.                                                      *)

LEMMA InitInv == Init => Inv
<1> SUFFICES ASSUME Init
             PROVE  Inv
  OBVIOUS
<1>1. /\ DOMAIN firings = {} /\ firings \in [DOMAIN firings -> FiringType]
      /\ spec \in Specs
      /\ proc = [p \in Procs |-> Idle]
      /\ cp1 = [k \in Keys |-> "none"] /\ dur = [k \in Keys |-> "none"]
      /\ draining = {} /\ now = 0
  BY DEF Init
<1>2. sched \in [status : {"active", "paused", "deleted"}, rev : 1 .. MaxRev,
                 owner : {"local", "external"}, gen : 1 .. MaxGen,
                 cursor : Nat \cup {NoFire}]
  <2>1. PICK n : n = next_fire_after(spec, 0, NoNominal)
    OBVIOUS
  <2>6. 0 \in Int /\ NoNominal \in Int
    BY DEF NoNominal
  <2>2. n \in Nat \cup {NoFire, Raises}
    BY <1>1, <2>1, <2>6, NextIsInstant
  <2>3. n # Raises
    BY <2>1 DEF Init
  <2>4. 1 \in 1 .. MaxRev /\ 1 \in 1 .. MaxGen
    BY ScheduleAssumption
  <2>5. sched = [status |-> "active", rev |-> 1, owner |-> "local", gen |-> 1, cursor |-> n]
    BY <2>1 DEF Init
  <2> QED
    BY <2>2, <2>3, <2>4, <2>5
<1>3. leader \in [owner : Owners \cup {NoOwner}, token : 0 .. MaxLeader, live : BOOLEAN]
  BY ScheduleAssumption DEF Init
<1>4. Idle \in Locals
  BY IdleIsPlain
<1>5. /\ proc \in [Procs -> Locals]
      /\ \A p \in Procs : proc[p] = Idle /\ proc[p].key = NoKey /\ proc[p].att = 0
  BY <1>1, <1>4 DEF Idle
<1>6. \A p \in Procs : Knows(proc[p])
  <2>1. PICK x : x = Idle
    OBVIOUS
  <2>2. x.key = NoKey /\ x.todo = {} /\ x.noms = <<>> /\ x.att = 0 /\ x.pc = "idle"
    BY <2>1 DEF Idle
  <2>3. Knows(x)
    BY <2>2, KnowsNothing
  <2> QED
    BY <1>5, <2>1, <2>3
<1>7. now \in 0 .. MaxTime
  BY <1>1, ScheduleAssumption
<1>8. TypeOK
  BY <1>1, <1>2, <1>3, <1>5, <1>7 DEF TypeOK
<1>9. /\ \A k \in DOMAIN firings : FiringOK(k)
      /\ UnlinkedIsCurrent /\ OneInFlight
  BY <1>1 DEF UnlinkedIsCurrent, UnlinkedKeys, OneInFlight
<1>10. OwnAttempts /\ ReceiptsAreClaimed
  BY <1>1, <1>5 DEF OwnAttempts, ReceiptsAreClaimed
<1> QED
  BY <1>6, <1>8, <1>9, <1>10 DEF Inv

LEMMA OccurrenceKeepsInv ==
  ASSUME Inv, NEW p \in Procs, OccurrenceStep(p)
  PROVE  Inv'
BY RecoverStep, RepairBeginStep, RepairAcceptStep, RepairVerifyStep, AcquireStep, PrepareStep,
   BeginStep, ReceiptStep, DurableStep, CompensationStep, LinkStep DEF OccurrenceStep

LEMMA StepKeepsInv == Inv /\ [Next]_vars => Inv'
<1> SUFFICES ASSUME Inv, [Next]_vars
             PROVE  Inv'
  OBVIOUS
<1>1. ASSUME NEW p \in Schedulers, SchedulerStep(p)
      PROVE  Inv'
  BY <1>1, TickStep, ScanStep, ClaimStep, OccurrenceKeepsInv DEF SchedulerStep, Procs
<1>2. ASSUME NEW g \in Triggers, TriggerStep(g)
      PROVE  Inv'
  BY <1>2, ReadStep, TriggerRecordStep, OccurrenceKeepsInv DEF TriggerStep, Procs
<1>3. CASE ClockTick \/ ExpireLeader \/ \E p \in Schedulers : request_drain(p)
  BY <1>3, TimeStep
<1>4. CASE UNCHANGED vars
  <2>1. /\ leader \in [owner : Owners \cup {NoOwner}, token : 0 .. MaxLeader, live : BOOLEAN]
        /\ now \in 0 .. MaxTime /\ draining \subseteq Schedulers
    BY DEF Inv, TypeOK
  <2> QED
    BY <1>4, <2>1, NobodyMoves DEF vars
<1>5. CASE \E p \in Procs : Crash(p)
  BY <1>5, CrashStep
<1>6. CASE \E k \in DOMAIN firings : ExpirePreparation(k)
  BY <1>6, LeaseExpires
<1>7. CASE (\E k \in Keys : WorkEnds(k)) \/ Administer
  BY <1>7, WorkStep, AdminStep
<1> QED
  BY <1>1, <1>2, <1>3, <1>4, <1>5, <1>6, <1>7 DEF Next

LEMMA SpecInv == Spec => []Inv
BY InitInv, StepKeepsInv, PTL DEF Spec

---------------------------------------------------------------------------
(* Outcomes.                                                               *)

Settles(k) ==
  ~Unlinked(k) => firings'[k].st = firings[k].st /\ firings'[k].linked = firings[k].linked

\* Every call that rewrites the record of a firing without an open outcome
\* leaves its outcome alone.
LEMMA OutcomesStay ==
  ASSUME Inv, NEW k, NEW j \in DOMAIN firings, NEW o, NEW token, NEW a,
         \/ UNCHANGED firings
         \/ release_firing_preparation(k, o, token)
         \/ acquire_firing_preparation(k, o)
         \/ begin_firing_submission(k)
         \/ reject_firing_submission(k, a)
         \/ fail_firing_after_compensated_submission(k, a)
         \/ fail_firing_preparation(k) /\ CanFailPreparation(k, o, token)
         \/ link_firing_submission(k) /\ firings[k].st = "accepted"
         \/ firings' = [firings EXCEPT ![k].live = FALSE]
  PROVE  Settles(j)
<1>1. CASE j # k
  <2>1. firings'[j] = firings[j]
    BY <1>1 DEF release_firing_preparation, acquire_firing_preparation,
                begin_firing_submission, reject_firing_submission,
                fail_firing_after_compensated_submission, fail_firing_preparation,
                link_firing_submission
  <2> QED
    BY <2>1 DEF Settles
<1>2. CASE j = k
  <2>1. ~Unlinked(k) => /\ firings'[k].st = firings[k].st
                        /\ firings'[k].linked = firings[k].linked
    <3>0. /\ k \in DOMAIN firings /\ firings[k] \in FiringType
          /\ firings \in [DOMAIN firings -> FiringType]
      BY <1>2, Typed
    <3>1. CASE UNCHANGED firings
      BY <3>1
    <3>2. CASE release_firing_preparation(k, o, token)
      BY <3>0, <3>2 DEF release_firing_preparation, FiringType
    <3>3. CASE acquire_firing_preparation(k, o)
      BY <3>3 DEF acquire_firing_preparation, CanPrepare
    <3>4. CASE begin_firing_submission(k)
      <4>1. PICK g, n, A : /\ g = firings[k] /\ n = NextAttempt(k)
                           /\ A = firings[k].attempts \cup {n}
        OBVIOUS
      <4>2. PICK f : f = [g EXCEPT !.attempts = A, !.begun = @ + 1]
        OBVIOUS
      <4>3. firings' = [firings EXCEPT ![k] = f]
        BY <3>0, <3>4, <4>1, <4>2 DEF begin_firing_submission
      <4>4. g \in FiringType
        BY <3>0, <4>1
      <4>5. f.st = g.st /\ f.linked = g.linked
        BY <4>2, <4>4 DEF FiringType
      <4> QED
        BY <3>0, <4>1, <4>3, <4>5
    <3>5. CASE reject_firing_submission(k, a)
      BY <3>0, <3>5 DEF reject_firing_submission, FiringType
    <3>6. CASE fail_firing_after_compensated_submission(k, a)
      <4>1. CASE ~Unlinked(k)
        BY <3>6, <4>1 DEF fail_firing_after_compensated_submission
      <4> QED
        BY <4>1
    <3>7. CASE fail_firing_preparation(k) /\ CanFailPreparation(k, o, token)
      BY <3>7 DEF CanFailPreparation
    <3>8. CASE link_firing_submission(k) /\ firings[k].st = "accepted"
      BY <3>8 DEF link_firing_submission, Unlinked
    <3>9. CASE firings' = [firings EXCEPT ![k].live = FALSE]
      BY <3>0, <3>9 DEF FiringType
    <3> QED
      BY <3>1, <3>2, <3>3, <3>4, <3>5, <3>6, <3>7, <3>8, <3>9
  <2> QED
    BY <1>2, <2>1 DEF Settles
<1> QED
  BY <1>1, <1>2

LEMMA OccurrenceSettles ==
  ASSUME Inv, NEW p, NEW j \in DOMAIN firings, OccurrenceStep(p)
  PROVE  Settles(j)
<1>1. PICK k, t, a : k = proc[p].key /\ t = proc[p].ptok /\ a = proc[p].att
  OBVIOUS
<1>2. CASE UNCHANGED firings \/ AbandonPrepared(p) \/ AbandonRecovery(p)
  BY <1>1, <1>2, OutcomesStay DEF AbandonPrepared, AbandonRecovery
<1>3. CASE begin_firing_submission(k) \/ reject_firing_submission(k, a)
  BY <1>3, OutcomesStay
<1>4. CASE RepairBegin(p) \/ AcquirePreparation(p) \/ PrepareOccurrence(p)
  BY <1>1, <1>2, <1>3, <1>4, OutcomesStay
     DEF RepairBegin, AcquirePreparation, PrepareOccurrence
<1>5. CASE TerminateFiring(p) \/ LinkSubmission(p)
  BY <1>1, <1>2, <1>5, OutcomesStay DEF TerminateFiring, LinkSubmission, CanLink
<1>6. CASE recover_scheduled_occurrence(p) \/ RepairAccept(p) \/ RepairVerify(p)
  BY <1>2, <1>6 DEF recover_scheduled_occurrence, RepairAccept, RepairVerify
<1>7. CASE BeginAdmission(p) \/ AcceptReceipt(p) \/ AcceptDurable(p)
  BY <1>1, <1>2, <1>3, <1>7 DEF BeginAdmission, AcceptReceipt, AcceptDurable
<1>8. CASE CancelReceipt(p) \/ ConfirmAbsence(p) \/ Raise(p)
  BY <1>2, <1>8 DEF CancelReceipt, ConfirmAbsence, Raise, storeVars
<1> QED
  BY <1>4, <1>5, <1>6, <1>7, <1>8 DEF OccurrenceStep

LEMMA StepSettles ==
  ASSUME Inv, [Next]_vars, NEW j \in DOMAIN firings
  PROVE  Settles(j)
<1>1. CASE UNCHANGED firings
  BY <1>1 DEF Settles
<1>2. ASSUME NEW k, NEW status, NEW next, k \notin DOMAIN firings, claim_firing(k, status, next)
      PROVE  Settles(j)
  <2>1. firings'[j] = firings[j]
    BY <1>2 DEF claim_firing, WithFiring
  <2> QED
    BY <2>1 DEF Settles
<1>3. ASSUME NEW p \in Schedulers, SchedulerStep(p)
      PROVE  Settles(j)
  <2>1. CASE ClaimScheduled(p)
    BY <1>1, <1>2, <2>1 DEF ClaimScheduled
  <2>2. CASE tick(p) \/ ListUnlinked(p) \/ ReconcileOne(p) \/ DueSchedules(p) \/ ClaimEnds(p)
    BY <1>1, <2>2 DEF tick, ListUnlinked, ReconcileOne, DueSchedules, ClaimEnds, storeVars
  <2> QED
    BY <1>3, <2>1, <2>2, OccurrenceSettles DEF SchedulerStep
<1>4. ASSUME NEW g \in Triggers, TriggerStep(g)
      PROVE  Settles(j)
  <2>1. CASE trigger(g) \/ trigger_external(g)
    BY <1>1, <2>1 DEF trigger, trigger_external, storeVars
  <2>2. CASE trigger_record(g)
    BY <1>1, <1>2, <2>2 DEF trigger_record
  <2> QED
    BY <1>4, <2>1, <2>2, OccurrenceSettles DEF TriggerStep
<1>5. ASSUME NEW k \in DOMAIN firings, ExpirePreparation(k)
      PROVE  Settles(j)
  BY <1>5, OutcomesStay DEF ExpirePreparation
<1>6. CASE Administer
  BY <1>1, <1>6 DEF Administer, set_status, amend, transfer_timer_owner
<1>7. CASE \/ \E p \in Schedulers : request_drain(p)
           \/ \E p \in Procs : Crash(p)
           \/ \E k \in Keys : WorkEnds(k)
           \/ ClockTick \/ ExpireLeader \/ UNCHANGED vars
  BY <1>1, <1>7 DEF request_drain, Crash, WorkEnds, ClockTick, ExpireLeader, vars, storeVars
<1> QED
  BY <1>3, <1>4, <1>5, <1>6, <1>7 DEF Next

---------------------------------------------------------------------------
(* Cursors.  The record's cursor passes from one process to another: a     *)
(* claim writes what it computed from the occurrence before, a manual      *)
(* trigger writes back what it read.                                       *)

\* The schedule promises to record every occurrence, and its jitter leaves them
\* apart.
Steady ==
  /\ LittleJitter(spec)
  /\ spec.misfire # "skip"
  /\ spec.misfire = "catch_up" => spec.catch_up_max > 0

\* The cursors of the current revision: the record's, and those that processes
\* read.
Cursors ==
  {sched.cursor} \cup {proc[p].rec.cursor : p \in {q \in Procs : proc[q].rec.rev = sched.rev}}

\* Each nominal time is the next one after the one before it.
Follows(s, l) == \A i \in 1 .. (Len(l) - 1) : l[i + 1] = next_fire_after(s, l[i], l[i])

\* A process that compares the cursor claims no later occurrence than the one
\* the cursor is at; F is the set of claimed keys.
InHand(s, F, x) ==
  /\ (x.pc = "claim" \/ x.via = "claim") => x.exp # {}
  /\ x.exp = {} => Len(x.noms) <= 1
  /\ (x.exp # {} /\ x.noms \notin {<<>>, <<Raises>>}) =>
       /\ ~x.skip
       /\ Follows(s, x.noms)
       /\ x.exp = {Head(x.noms)} \/ <<x.rec.rev, Head(x.noms)>> \in F

CursorInv ==
  /\ \A p \in Procs : proc[p].rec.rev <= sched.rev
  /\ NoGaps(spec, DOMAIN firings, sched.rev, Cursors)
  /\ \A p \in Procs : InHand(spec, DOMAIN firings, proc[p])

\* A step keeps the invariant, and passes nothing on the way of the cursor.
CursorStep ==
  /\ CursorInv'
  /\ sched'.rev = sched.rev =>
        NoGaps(spec, DOMAIN firings', sched.rev, {sched.cursor, sched'.cursor})

\* What the invariant says of the cursors and of those who read them.
LEMMA CursorTypes ==
  ASSUME Inv
  PROVE  /\ spec \in Specs /\ sched.rev \in 1 .. MaxRev /\ sched.rev \in Nat /\ sched.rev # 0
         /\ sched.cursor \in Nat \cup {NoFire}
         /\ now \in Nat
         /\ Cursors \in SUBSET (Nat \cup {NoFire})
         /\ \A p \in Procs : /\ proc[p] \in Locals /\ Knows(proc[p])
                             /\ proc[p].rec.rev \in Nat
<1>1. /\ sched.rev \in 1 .. MaxRev /\ sched.cursor \in Nat \cup {NoFire}
      /\ spec \in Specs /\ now \in 0 .. MaxTime
  BY DEF Inv, TypeOK
<1>2. \A p \in Procs : /\ proc[p] \in Locals /\ Knows(proc[p])
                       /\ proc[p].rec.rev \in Nat /\ proc[p].rec.cursor \in Nat \cup {NoFire}
  BY Typed DEF Inv, Locals
<1> QED
  BY <1>1, <1>2, ScheduleAssumption DEF Cursors

\* One process moves; what it reads or writes keeps the occurrences without a
\* gap.
LEMMA PassOn ==
  ASSUME Inv, CursorInv, UNCHANGED spec, NEW p \in Procs, NEW x,
         proc' = [proc EXCEPT ![p] = x],
         sched'.rev = sched.rev, DOMAIN firings \subseteq DOMAIN firings',
         NEW D, NoGaps(spec, DOMAIN firings', sched.rev, D), Cursors \subseteq D,
         sched'.cursor \in D,
         \/ x.rec = proc[p].rec
         \/ x.rec.rev = 0
         \/ x.rec.rev = sched.rev /\ x.rec.cursor = sched.cursor,
         InHand(spec, DOMAIN firings', x)
  PROVE  CursorStep
<1>1. \A q \in Procs : proc'[q] = (IF q = p THEN x ELSE proc[q])
  BY Typed
<1>2. sched.cursor \in D
  BY DEF Cursors
<1>3. ASSUME NEW q \in Procs, proc'[q].rec.rev = sched.rev
      PROVE  proc'[q].rec.cursor \in D
  <2>1. CASE q # p \/ x.rec = proc[p].rec
    <3>1. proc'[q].rec = proc[q].rec
      BY <1>1, <2>1
    <3> QED
      BY <1>3, <3>1 DEF Cursors
  <2>2. CASE q = p /\ (x.rec.rev = 0 \/ (x.rec.rev = sched.rev /\ x.rec.cursor = sched.cursor))
    BY <1>1, <1>2, <1>3, <2>2, CursorTypes
  <2> QED
    BY <2>1, <2>2
<1>4. Cursors' \subseteq D
  BY <1>3 DEF Cursors
<1>5. \A q \in Procs : proc'[q].rec.rev <= sched'.rev
  BY <1>1, CursorTypes DEF CursorInv
<1>6. \A q \in Procs : InHand(spec, DOMAIN firings', proc'[q])
  <2>1. \A q \in Procs \ {p} : InHand(spec, DOMAIN firings', proc[q])
    BY DEF CursorInv, InHand
  <2> QED
    BY <1>1, <2>1
<1>7. NoGaps(spec, DOMAIN firings', sched.rev, Cursors')
  BY <1>4, NoGapsInFewer
<1>8. CursorInv'
  BY <1>5, <1>6, <1>7 DEF CursorInv
<1>9. NoGaps(spec, DOMAIN firings', sched.rev, {sched.cursor, sched'.cursor})
  BY <1>2, NoGapsInFewer
<1> QED
  BY <1>8, <1>9 DEF CursorStep

\* The cursor stays where it is.
LEMMA CursorRests ==
  ASSUME Inv, CursorInv, UNCHANGED spec, NEW p \in Procs, NEW x,
         proc' = [proc EXCEPT ![p] = x],
         UNCHANGED sched, DOMAIN firings' = DOMAIN firings,
         \/ x.rec = proc[p].rec
         \/ x.rec.rev = 0
         \/ x.rec.rev = sched.rev /\ x.rec.cursor = sched.cursor,
         InHand(spec, DOMAIN firings, x)
  PROVE  CursorStep
<1>1. NoGaps(spec, DOMAIN firings', sched.rev, Cursors) /\ InHand(spec, DOMAIN firings', x)
  BY DEF CursorInv
<1>2. sched'.cursor \in Cursors
  BY DEF Cursors
<1> QED
  BY <1>1, <1>2, PassOn

\* Nothing that the cursors depend on changes.
LEMMA CursorsSame ==
  ASSUME Inv, CursorInv, UNCHANGED <<spec, proc>>, sched'.rev = sched.rev,
         sched'.cursor = sched.cursor, DOMAIN firings' = DOMAIN firings
  PROVE  CursorStep
<1>1. Cursors' = Cursors
  BY DEF Cursors
<1>2. CursorInv'
  BY <1>1 DEF CursorInv
<1>3. NoGaps(spec, DOMAIN firings', sched.rev, {sched.cursor, sched'.cursor})
  <2>1. {sched.cursor, sched'.cursor} \subseteq Cursors
    BY DEF Cursors
  <2> QED
    BY <2>1, NoGapsInFewer DEF CursorInv
<1> QED
  BY <1>2, <1>3 DEF CursorStep

\* A process goes on with the record and the nominal times it has, or forgets
\* them.
Keeps(y, x) ==
  \/ /\ x.rec = y.rec /\ x.noms = y.noms /\ x.exp = y.exp /\ x.skip = y.skip
     /\ (x.pc = "claim" \/ x.via = "claim") => y.via = "claim"
  \/ x.rec.rev = 0 /\ x.noms = <<>> /\ x.pc # "claim" /\ x.via # "claim"

Stays(p) == \E x : proc' = [proc EXCEPT ![p] = x] /\ Keeps(proc[p], x)

\* Who keeps the record and the nominal times keeps what holds of them.
LEMMA KeepsHand ==
  ASSUME NEW s, NEW F, NEW y, NEW x, InHand(s, F, y), Keeps(y, x)
  PROVE  InHand(s, F, x) /\ (x.rec = y.rec \/ x.rec.rev = 0)
<1>1. CASE /\ x.rec = y.rec /\ x.noms = y.noms /\ x.exp = y.exp /\ x.skip = y.skip
           /\ (x.pc = "claim" \/ x.via = "claim") => y.via = "claim"
  <2>1. (x.pc = "claim" \/ x.via = "claim") => x.exp # {}
    BY <1>1 DEF InHand
  <2>2. x.exp = {} => Len(x.noms) <= 1
    BY <1>1 DEF InHand
  <2>3. (x.exp # {} /\ x.noms \notin {<<>>, <<Raises>>}) =>
           /\ ~x.skip
           /\ Follows(s, x.noms)
           /\ x.exp = {Head(x.noms)} \/ <<x.rec.rev, Head(x.noms)>> \in F
    BY <1>1 DEF InHand
  <2> QED
    BY <1>1, <2>1, <2>2, <2>3 DEF InHand
<1>2. CASE x.rec.rev = 0 /\ x.noms = <<>> /\ x.pc # "claim" /\ x.via # "claim"
  <2>1. Len(x.noms) <= 1
    BY <1>2
  <2> QED
    BY <1>2, <2>1 DEF InHand
<1> QED
  BY <1>1, <1>2 DEF Keeps

LEMMA StaysRests ==
  ASSUME Inv, CursorInv, NEW p \in Procs, Stays(p), UNCHANGED <<sched, spec>>,
         DOMAIN firings' = DOMAIN firings
  PROVE  CursorStep
<1>1. PICK x : proc' = [proc EXCEPT ![p] = x] /\ Keeps(proc[p], x)
  BY DEF Stays
<1>2. InHand(spec, DOMAIN firings, proc[p])
  BY DEF CursorInv
<1>3. InHand(spec, DOMAIN firings, x) /\ (x.rec = proc[p].rec \/ x.rec.rev = 0)
  BY <1>1, <1>2, KeepsHand
<1> QED
  BY <1>1, <1>3, CursorRests

LEMMA IdleForgets ==
  ASSUME NEW y, NEW x, x = Idle \/ x = [Idle EXCEPT !.pc = "done"]
  PROVE  Keeps(y, x)
BY DEF Idle, Keeps

\* How a process moves on, and how it leaves an occurrence.
LEMMA GotoStays ==
  ASSUME Inv, NEW p \in Procs, NEW pc, pc # "claim", Goto(p, pc)
  PROVE  Stays(p)
<1>1. PICK x : x = [proc[p] EXCEPT !.pc = pc]
  OBVIOUS
<1>2. Keeps(proc[p], x)
  <2>1. PICK y : y = proc[p]
    OBVIOUS
  <2>2. y \in Locals
    BY <2>1, Typed
  <2>3. x = [y EXCEPT !.pc = pc]
    BY <1>1, <2>1
  <2>4. Keeps(y, x)
    BY <2>2, <2>3 DEF Locals, Keeps
  <2> QED
    BY <2>1, <2>4
<1>3. proc' = [proc EXCEPT ![p] = x]
  BY <1>1, Zenon DEF Goto
<1> QED
  BY <1>2, <1>3 DEF Stays

LEMMA LeavingStays ==
  ASSUME Inv, NEW p \in Procs, Finish(p) \/ Abandon(p)
  PROVE  Stays(p)
<1>1. PICK y : y = proc[p]
  OBVIOUS
<1>2. y \in Locals
  BY <1>1, Typed
<1>3. ASSUME NEW pc, pc # "claim" \/ y.via = "claim",
             proc' = [proc EXCEPT ![p] = [ForgetKey(p) EXCEPT !.pc = pc]]
      PROVE  Stays(p)
  <2>1. PICK x : x = [ForgetKey(p) EXCEPT !.pc = pc]
    OBVIOUS
  <2>2. x = [y EXCEPT !.key = NoKey, !.ptok = 0, !.att = 0,
                      !.created = FALSE, !.guarded = FALSE, !.pc = pc]
    BY <1>1, <1>2, <2>1 DEF ForgetKey, Locals
  <2>3. /\ x.rec = y.rec /\ x.noms = y.noms /\ x.exp = y.exp /\ x.skip = y.skip
        /\ x.via = y.via /\ x.pc = pc
    BY <1>2, <2>2 DEF Locals
  <2>4. Keeps(y, x)
    BY <1>3, <2>3 DEF Keeps
  <2> QED
    BY <1>1, <1>3, <2>1, <2>4 DEF Stays
<1>4. ASSUME NEW x, x = Idle \/ x = [Idle EXCEPT !.pc = "done"], proc' = [proc EXCEPT ![p] = x]
      PROVE  Stays(p)
  BY <1>4, IdleForgets DEF Stays
<1>5. PICK i, d : i = Idle /\ d = [Idle EXCEPT !.pc = "done"]
  OBVIOUS
<1>6. CASE y.via = "reconcile"
  <2>1. proc' = [proc EXCEPT ![p] = [ForgetKey(p) EXCEPT !.pc = "reconcile"]]
    BY <1>1, <1>6, Zenon DEF Finish, Abandon
  <2> QED
    BY <1>3, <2>1
<1>7. CASE y.via = "claim"
  <2>1. proc[p].via # "reconcile" /\ proc[p].via = "claim"
    BY <1>1, <1>7
  <2>2. \/ proc' = [proc EXCEPT ![p] = [ForgetKey(p) EXCEPT !.pc = "claim"]]
        \/ proc' = [proc EXCEPT ![p] = Idle]
    BY <2>1, Zenon DEF Finish, Abandon
  <2>3. \/ proc' = [proc EXCEPT ![p] = [ForgetKey(p) EXCEPT !.pc = "claim"]]
        \/ proc' = [proc EXCEPT ![p] = i]
    BY <1>5, <2>2, Zenon
  <2> QED
    BY <1>3, <1>4, <1>5, <1>7, <2>3
<1>8. CASE y.via # "reconcile" /\ y.via # "claim"
  <2>1. proc[p].via # "reconcile" /\ proc[p].via # "claim"
    BY <1>1, <1>8
  <2>2. proc' = [proc EXCEPT ![p] = [Idle EXCEPT !.pc = "done"]]
    BY <2>1, Zenon DEF Finish, Abandon
  <2>3. proc' = [proc EXCEPT ![p] = d]
    BY <1>5, <2>2, Zenon
  <2> QED
    BY <1>4, <1>5, <2>3
<1> QED
  BY <1>6, <1>7, <1>8

\* An occurrence is brought to its run under its key, whatever the cursor.
LEMMA OccurrenceStays ==
  ASSUME Inv, NEW p \in Procs, OccurrenceStep(p)
  PROVE  Stays(p) /\ UNCHANGED <<sched, spec>> /\ DOMAIN firings' = DOMAIN firings
<1>1. PICK k, t, a : k = proc[p].key /\ t = proc[p].ptok /\ a = proc[p].att
  OBVIOUS
<1>2. AbandonPrepared(p) \/ AbandonRecovery(p) => Finish(p) \/ Abandon(p)
  BY DEF AbandonPrepared, AbandonRecovery
<1>3. Stays(p)
  <2>1. \A pc : pc # "claim" /\ Goto(p, pc) => Stays(p)
    BY GotoStays
  <2>2. Finish(p) \/ Abandon(p) \/ AbandonPrepared(p) \/ AbandonRecovery(p) => Stays(p)
    BY <1>2, LeavingStays
  <2>3. ASSUME NEW x, proc' = [proc EXCEPT ![p] = x], x.pc # "claim",
               \/ \E token : x = [proc[p] EXCEPT !.pc = "prepare", !.guarded = TRUE, !.ptok = token]
               \/ \E n : x = [proc[p] EXCEPT !.pc = "cp1", !.att = n]
               \/ \E b : x = [proc[p] EXCEPT !.pc = "dur", !.created = b]
        PROVE  Stays(p)
    <3>1. PICK y : y = proc[p]
      OBVIOUS
    <3>2. y \in Locals
      BY <3>1, Typed
    <3>3. /\ x.rec = y.rec /\ x.noms = y.noms /\ x.exp = y.exp /\ x.skip = y.skip
          /\ x.via = y.via
      BY <2>3, <3>1, <3>2 DEF Locals
    <3> QED
      BY <2>3, <3>1, <3>3 DEF Stays, Keeps
  <2>4. CASE AcquirePreparation(p)
    <3>1. CASE Finish(p)
      BY <2>2, <3>1
    <3>2. CASE proc' = [proc EXCEPT ![p].pc = "prepare", ![p].guarded = TRUE,
                                    ![p].ptok = PreparationToken(k, p)]
      <4>1. PICK token : token = PreparationToken(k, p)
        OBVIOUS
      <4>2. PICK x : x = [proc[p] EXCEPT !.pc = "prepare", !.guarded = TRUE, !.ptok = token]
        OBVIOUS
      <4>3. proc' = [proc EXCEPT ![p] = x]
        BY <3>2, <4>1, <4>2, Typed
      <4>4. x.pc # "claim"
        BY <4>2, Typed DEF Locals
      <4> QED
        BY <2>3, <4>2, <4>3, <4>4
    <3> QED
      BY <1>1, <2>4, <3>1, <3>2 DEF AcquirePreparation
  <2>5. CASE BeginAdmission(p)
    <3>1. CASE AbandonPrepared(p)
      BY <2>2, <3>1
    <3>2. CASE proc' = [proc EXCEPT ![p].pc = "cp1", ![p].att = NextAttempt(k)]
      <4>1. PICK n : n = NextAttempt(k)
        OBVIOUS
      <4>2. PICK x : x = [proc[p] EXCEPT !.pc = "cp1", !.att = n]
        OBVIOUS
      <4>3. proc' = [proc EXCEPT ![p] = x]
        BY <3>2, <4>1, <4>2, Typed
      <4>4. x.pc # "claim"
        BY <4>2, Typed DEF Locals
      <4> QED
        BY <2>3, <4>2, <4>3, <4>4
    <3> QED
      BY <1>1, <2>5, <3>1, <3>2 DEF BeginAdmission
  <2>6. CASE AcceptReceipt(p)
    <3>1. CASE AbandonPrepared(p) \/ Goto(p, "dur") \/ Goto(p, "raise")
      BY <2>1, <2>2, <3>1
    <3>2. CASE proc' = [proc EXCEPT ![p].pc = "dur", ![p].created = cp1[k] = "none"]
      <4>1. PICK b : b = (cp1[k] = "none")
        OBVIOUS
      <4>2. PICK x : x = [proc[p] EXCEPT !.pc = "dur", !.created = b]
        OBVIOUS
      <4>3. proc' = [proc EXCEPT ![p] = x]
        BY <3>2, <4>1, <4>2, Typed
      <4>4. x.pc # "claim"
        BY <4>2, Typed DEF Locals
      <4> QED
        BY <2>3, <4>2, <4>3, <4>4
    <3> QED
      BY <1>1, <2>6, <3>1, <3>2 DEF AcceptReceipt
  <2>7. CASE recover_scheduled_occurrence(p) \/ RepairBegin(p) \/ RepairAccept(p) \/ RepairVerify(p)
    BY <2>1, <2>2, <2>7
       DEF recover_scheduled_occurrence, RepairBegin, RepairAccept, RepairVerify
  <2>8. CASE PrepareOccurrence(p) \/ AcceptDurable(p) \/ CancelReceipt(p) \/ ConfirmAbsence(p)
    BY <2>1, <2>2, <2>8 DEF PrepareOccurrence, AcceptDurable, CancelReceipt, ConfirmAbsence
  <2>9. CASE TerminateFiring(p) \/ Raise(p) \/ LinkSubmission(p)
    BY <2>1, <2>2, <2>9 DEF TerminateFiring, Raise, LinkSubmission
  <2> QED
    BY <2>4, <2>5, <2>6, <2>7, <2>8, <2>9 DEF OccurrenceStep
<1>4. UNCHANGED <<sched, spec>>
  BY DEF OccurrenceStep, recover_scheduled_occurrence, RepairBegin, RepairAccept, RepairVerify,
         AcquirePreparation, PrepareOccurrence, BeginAdmission, AcceptReceipt, AcceptDurable,
         CancelReceipt, ConfirmAbsence, TerminateFiring, Raise, LinkSubmission, storeVars
<1>5. DOMAIN firings' = DOMAIN firings
  <2>1. AbandonPrepared(p) \/ AbandonRecovery(p) => DOMAIN firings' = DOMAIN firings
    BY DEF AbandonPrepared, AbandonRecovery, release_firing_preparation
  <2>2. \A j, b : \/ acquire_firing_preparation(j, b) \/ begin_firing_submission(j)
                  \/ reject_firing_submission(j, b) \/ fail_firing_preparation(j)
                  \/ fail_firing_after_compensated_submission(j, b) \/ link_firing_submission(j)
                  => DOMAIN firings' = DOMAIN firings
    BY DEF acquire_firing_preparation, begin_firing_submission, reject_firing_submission,
           fail_firing_preparation, fail_firing_after_compensated_submission,
           link_firing_submission
  <2>3. CASE RepairBegin(p) \/ AcquirePreparation(p) \/ PrepareOccurrence(p)
    BY <2>1, <2>2, <2>3 DEF RepairBegin, AcquirePreparation, PrepareOccurrence
  <2>4. CASE TerminateFiring(p) \/ LinkSubmission(p)
    BY <2>1, <2>2, <2>4 DEF TerminateFiring, LinkSubmission
  <2>5. CASE recover_scheduled_occurrence(p) \/ RepairAccept(p) \/ RepairVerify(p)
    BY <2>1, <2>5 DEF recover_scheduled_occurrence, RepairAccept, RepairVerify
  <2>6. CASE BeginAdmission(p) \/ AcceptReceipt(p) \/ AcceptDurable(p)
    BY <2>1, <2>2, <2>6 DEF BeginAdmission, AcceptReceipt, AcceptDurable
  <2>7. CASE CancelReceipt(p) \/ ConfirmAbsence(p) \/ Raise(p)
    BY <2>1, <2>7 DEF CancelReceipt, ConfirmAbsence, Raise, storeVars
  <2> QED
    BY <2>3, <2>4, <2>5, <2>6, <2>7 DEF OccurrenceStep
<1> QED
  BY <1>3, <1>4, <1>5

\* A pass of the scheduler that starts, looks on or ends.
LEMMA PassStays ==
  ASSUME Inv, NEW p \in Procs,
         tick(p) \/ ListUnlinked(p) \/ ReconcileOne(p) \/ ClaimEnds(p) \/ Crash(p)
  PROVE  Stays(p) /\ UNCHANGED <<sched, spec>> /\ DOMAIN firings' = DOMAIN firings
<1>1. PICK y : y = proc[p]
  OBVIOUS
<1>2. y \in Locals
  BY <1>1, Typed
<1>3. ASSUME NEW x, x = Idle \/ x = [Idle EXCEPT !.pc = "done"], proc' = [proc EXCEPT ![p] = x]
      PROVE  Stays(p)
  BY <1>3, IdleForgets DEF Stays
<1>4. CASE tick(p)
  <2>1. PICK x : x = [Idle EXCEPT !.pc = "list", !.tok = leader'.token, !.clk = now]
    OBVIOUS
  <2>2. proc' = [proc EXCEPT ![p] = x]
    BY <1>4, <2>1, Zenon DEF tick
  <2>3. Keeps(proc[p], x)
    BY <2>1 DEF Idle, Keeps
  <2> QED
    BY <1>4, <2>2, <2>3 DEF Stays, tick
<1>5. CASE ListUnlinked(p)
  <2>1. PICK t : t = IF sched.status = "deleted" THEN {} ELSE UnlinkedKeys
    OBVIOUS
  <2>2. PICK x : x = [proc[p] EXCEPT !.pc = "reconcile", !.todo = t]
    OBVIOUS
  <2>3. proc' = [proc EXCEPT ![p] = x]
    BY <1>5, <2>1, <2>2, Typed DEF ListUnlinked
  <2>4. Keeps(y, x)
    BY <1>1, <1>2, <2>2 DEF Locals, Keeps
  <2> QED
    BY <1>1, <1>5, <2>3, <2>4 DEF Stays, ListUnlinked, storeVars
<1>6. CASE ReconcileOne(p)
  <2>1. PICK k : proc' = [proc EXCEPT ![p].pc = "recover", ![p].key = k,
                                      ![p].todo = @ \ {k}, ![p].via = "reconcile"]
    BY <1>6 DEF ReconcileOne
  <2>2. PICK x : x = [proc[p] EXCEPT !.pc = "recover", !.key = k,
                                     !.todo = @ \ {k}, !.via = "reconcile"]
    OBVIOUS
  <2>3. proc' = [proc EXCEPT ![p] = x]
    BY <2>1, <2>2, Typed
  <2>4. Keeps(y, x)
    BY <1>1, <1>2, <2>2 DEF Locals, Keeps
  <2> QED
    BY <1>1, <1>6, <2>3, <2>4 DEF Stays, ReconcileOne, storeVars
<1>7. CASE ClaimEnds(p)
  BY <1>3, <1>7 DEF ClaimEnds, storeVars
<1>8. CASE Crash(p)
  <2>1. PICK x : x = IF p \in Schedulers THEN Idle ELSE [Idle EXCEPT !.pc = "done"]
    OBVIOUS
  <2>2. proc' = [proc EXCEPT ![p] = x] /\ (x = Idle \/ x = [Idle EXCEPT !.pc = "done"])
    BY <1>8, <2>1, Zenon DEF Crash
  <2> QED
    BY <1>3, <1>8, <2>2 DEF Crash, storeVars
<1> QED
  BY <1>4, <1>5, <1>6, <1>7, <1>8

\* The nominal times of a due schedule start at its cursor.
LEMMA NominalsStartAtDue ==
  ASSUME Inv, Steady, CursorInv, NEW clk \in Nat, Due(clk)
  PROVE  LET l == Nominals(clk) IN
         /\ ~MissedIsSkipped(clk)
         /\ Follows(spec, l)
         /\ l \notin {<<>>, <<Raises>>} => Head(l) = sched.cursor
<1>1. /\ sched.cursor \in Nat /\ spec \in Specs
  BY CursorTypes DEF Due
<1>2. OnSchedule(spec, sched.cursor)
  BY DEF CursorInv, NoGaps, Cursors, Due
<1>3. ~MissedIsSkipped(clk)
  BY DEF MissedIsSkipped, Steady
<1>4. CASE spec.misfire = "catch_up" /\ spec.catch_up_max > 0
  <2> DEFINE b == CatchUpStart(spec, sched.cursor)
  <2>1. b \in Nat /\ (next_fire_after(spec, b, b) # Raises => next_fire_after(spec, b, b) = sched.cursor)
    BY <1>1, <1>2, CatchUpStartsAtDue DEF Steady
  <2> HIDE DEF b
  <2>2. PICK l : l = catch_up_nominals(spec, b, clk)
    OBVIOUS
  <2>3. /\ l \in {<<Raises>>} \cup Seq(0 .. clk)
        /\ Follows(spec, l)
        /\ l \notin {<<Raises>>, <<>>} => l[1] = next_fire_after(spec, b, b)
    BY <1>1, <2>1, <2>2, CatchUpInstants DEF Follows
  <2>4. ASSUME l \notin {<<>>, <<Raises>>}
        PROVE  Head(l) = sched.cursor
    <3>1. l \in Seq(0 .. clk) /\ l # <<>>
      BY <2>3, <2>4
    <3>2. Head(l) = l[1] /\ l[1] \in 0 .. clk
      BY <3>1
    <3>3. l[1] # Raises
      BY <3>2 DEF Raises
    <3> QED
      BY <2>1, <2>3, <2>4, <3>2, <3>3
  <2>5. Nominals(clk) = l
    BY <1>4, <2>2 DEF Nominals, b
  <2> QED
    BY <1>3, <2>3, <2>4, <2>5
<1>5. CASE ~(spec.misfire = "catch_up" /\ spec.catch_up_max > 0)
  <2>1. PICK c : c = sched.cursor
    OBVIOUS
  <2>2. Nominals(clk) = <<c>>
    BY <1>5, <2>1 DEF Nominals
  <2>3. Follows(spec, <<c>>) /\ Head(<<c>>) = c
    BY DEF Follows
  <2> QED
    BY <1>3, <2>1, <2>2, <2>3
<1> QED
  BY <1>4, <1>5

\* A pass that finds the schedule due reads its cursor.
LEMMA DueCursor ==
  ASSUME Inv, Steady, CursorInv, NEW p \in Procs, DueSchedules(p)
  PROVE  CursorStep
<1>1. UNCHANGED <<sched, spec>> /\ DOMAIN firings' = DOMAIN firings
  BY DEF DueSchedules, storeVars
<1>2. PICK y : y = proc[p]
  OBVIOUS
<1>3. y \in Locals /\ y.clk \in Nat
  BY <1>2, Typed, ScheduleAssumption DEF Locals
<1>4. CASE Due(y.clk) /\ p \notin draining
  <2>1. PICK r, l, b, c : /\ r = [rev |-> sched.rev, gen |-> sched.gen, cursor |-> sched.cursor]
                          /\ l = Nominals(y.clk) /\ b = MissedIsSkipped(y.clk)
                          /\ c = sched.cursor
    OBVIOUS
  <2>2. PICK x : x = [y EXCEPT !.key = NoKey, !.ptok = 0, !.att = 0,
                               !.created = FALSE, !.guarded = FALSE,
                               !.pc = "claim", !.via = "claim", !.todo = {}, !.rec = r,
                               !.noms = l, !.exp = {c}, !.skip = b]
    OBVIOUS
  <2>3. proc' = [proc EXCEPT ![p] = [ForgetKey(p) EXCEPT
                    !.pc = "claim", !.via = "claim", !.todo = {}, !.rec = r,
                    !.noms = l, !.exp = {c}, !.skip = b]]
    BY <1>2, <1>4, <2>1, Zenon DEF DueSchedules
  <2>4. [ForgetKey(p) EXCEPT !.pc = "claim", !.via = "claim", !.todo = {}, !.rec = r,
                             !.noms = l, !.exp = {c}, !.skip = b] = x
    BY <1>2, <1>3, <2>2 DEF ForgetKey, Locals
  <2>5. proc' = [proc EXCEPT ![p] = x]
    BY <2>3, <2>4
  <2>6. x.rec = r /\ x.noms = l /\ x.exp = {c} /\ x.skip = b
    BY <1>3, <2>2 DEF Locals
  <2>7. /\ ~b /\ Follows(spec, l)
        /\ l \notin {<<>>, <<Raises>>} => Head(l) = c
    BY <1>3, <1>4, <2>1, NominalsStartAtDue
  <2>8. InHand(spec, DOMAIN firings, x)
    BY <2>6, <2>7 DEF InHand
  <2>9. x.rec.rev = sched.rev /\ x.rec.cursor = sched.cursor
    BY <2>1, <2>6
  <2> QED
    BY <1>1, <2>5, <2>8, <2>9, CursorRests
<1>5. CASE ~(Due(y.clk) /\ p \notin draining)
  <2>1. PICK i : i = Idle
    OBVIOUS
  <2>2. proc' = [proc EXCEPT ![p] = i]
    BY <1>2, <1>5, <2>1, Zenon DEF DueSchedules
  <2>3. Stays(p)
    BY <2>1, <2>2, IdleForgets DEF Stays
  <2> QED
    BY <1>1, <2>3, StaysRests
<1> QED
  BY <1>4, <1>5

\* The rest of the nominal times, once the first is dealt with.
LEMMA RestInHand ==
  ASSUME Inv, NEW p \in Procs, proc[p].pc \in {"claim", "trigger"},
         proc[p].noms \notin {<<>>, <<Raises>>},
         NEW F, InHand(spec, F, proc[p]),
         NEW x, x.noms = Tail(proc[p].noms), x.exp = {NextOf(p)}, x.skip = proc[p].skip,
         NEW G
  PROVE  InHand(spec, G, x)
<1>1. PICK l : l = proc[p].noms
  OBVIOUS
<1>2. l \in Seq(0 .. MaxTime) /\ l # <<>>
  <2>1. Knows(proc[p])
    BY CursorTypes
  <2> QED
    BY <1>1, <2>1 DEF Knows
<1>3. Len(l) \in Nat /\ Len(l) >= 1 /\ Head(l) = l[1]
  BY <1>2
<1>4. PICK t : t = Tail(l)
  OBVIOUS
<1>5. /\ Len(t) = Len(l) - 1
      /\ \A i \in 1 .. Len(t) : t[i] = l[i + 1]
  BY <1>2, <1>4
<1>6. ASSUME t # <<>>
      PROVE  ~x.skip /\ Follows(spec, t) /\ x.exp = {Head(t)}
  <2>1. Len(l) >= 2 /\ t[1] = l[2] /\ Head(t) = t[1]
    BY <1>2, <1>3, <1>4, <1>5, <1>6
  <2>2. proc[p].exp # {}
    BY <1>1, <2>1, <1>3 DEF InHand
  <2>3. ~proc[p].skip /\ Follows(spec, l)
    BY <1>1, <2>2 DEF InHand
  <2>4. l[2] = next_fire_after(spec, l[1], l[1])
    <3>1. 1 \in 1 .. (Len(l) - 1) /\ 1 + 1 = 2
      BY <1>3, <2>1
    <3> QED
      BY <2>3, <3>1 DEF Follows
  <2>5. NextOf(p) = next_fire_after(spec, l[1], l[1])
    BY <1>1, <1>3, <2>3 DEF NextOf
  <2>6. Follows(spec, t)
    <3>1. ASSUME NEW i \in 1 .. (Len(t) - 1)
          PROVE  t[i + 1] = next_fire_after(spec, t[i], t[i])
      <4>1. /\ i + 1 \in 1 .. (Len(l) - 1) /\ i \in 1 .. Len(t) /\ i + 1 \in 1 .. Len(t)
        BY <1>3, <1>5
      <4>2. l[(i + 1) + 1] = next_fire_after(spec, l[i + 1], l[i + 1])
        BY <2>3, <4>1 DEF Follows
      <4>3. t[i] = l[i + 1] /\ t[i + 1] = l[(i + 1) + 1]
        BY <1>5, <4>1
      <4> QED
        BY <4>2, <4>3
    <3> QED
      BY <3>1 DEF Follows
  <2> QED
    BY <2>1, <2>3, <2>4, <2>5, <2>6
<1>7. x.exp # {}
  OBVIOUS
<1> QED
  BY <1>1, <1>4, <1>6, <1>7 DEF InHand

\* The locals of a process that has dealt with a nominal time.
LEMMA ClaimDealt ==
  ASSUME Inv, CursorInv, NEW p \in Procs, proc[p].pc \in {"claim", "trigger"},
         proc[p].noms \notin {<<>>, <<Raises>>}, NEW k,
         proc' = [proc EXCEPT ![p] = AfterClaim(p)] \/ TakeOccurrence(p, k)
  PROVE  \E x : /\ proc' = [proc EXCEPT ![p] = x]
                /\ x.rec = proc[p].rec
                /\ \A G : InHand(spec, G, x)
<1>1. PICK y, n, t : y = proc[p] /\ n = NextOf(p) /\ t = Tail(proc[p].noms)
  OBVIOUS
<1>2. y \in Locals
  BY <1>1, Typed
<1>3. PICK x, z : /\ x = [y EXCEPT !.noms = t, !.exp = {n}]
                  /\ z = [y EXCEPT !.noms = t, !.exp = {n}, !.pc = "recover", !.key = k]
  OBVIOUS
<1>4. /\ x.rec = y.rec /\ x.noms = t /\ x.exp = {n} /\ x.skip = y.skip
      /\ z.rec = y.rec /\ z.noms = t /\ z.exp = {n} /\ z.skip = y.skip
  BY <1>2, <1>3 DEF Locals
<1>5. AfterClaim(p) = x
  BY <1>1, <1>3 DEF AfterClaim
<1>6. [AfterClaim(p) EXCEPT !.pc = "recover", !.key = k] = z
  BY <1>2, <1>3, <1>5 DEF Locals
<1>7. proc' = [proc EXCEPT ![p] = x] \/ proc' = [proc EXCEPT ![p] = z]
  BY <1>5, <1>6, Zenon DEF TakeOccurrence
<1>8. InHand(spec, DOMAIN firings, proc[p])
  BY DEF CursorInv
<1>9. \A G : InHand(spec, G, x) /\ InHand(spec, G, z)
  BY <1>1, <1>4, <1>8, RestInHand
<1> QED
  BY <1>1, <1>4, <1>7, <1>9

\* A nominal time that was claimed before, or that is refused.
LEMMA NothingPassed ==
  ASSUME Inv, CursorInv, NEW p \in Procs, proc[p].pc \in {"claim", "trigger"},
         proc[p].noms \notin {<<>>, <<Raises>>}, NEW k,
         proc' = [proc EXCEPT ![p] = AfterClaim(p)] \/ TakeOccurrence(p, k),
         UNCHANGED <<sched, spec, firings>>
  PROVE  CursorStep
<1>1. PICK x : /\ proc' = [proc EXCEPT ![p] = x]
               /\ x.rec = proc[p].rec
               /\ \A G : InHand(spec, G, x)
  BY ClaimDealt
<1> QED
  BY <1>1, CursorRests

\* A claim that compares the cursor records the occurrence the cursor is at.
LEMMA CursorMovesOn ==
  ASSUME Inv, Inv', Steady, CursorInv, UNCHANGED spec, NEW p \in Procs,
         proc[p].pc \in {"claim", "trigger"},
         proc[p].noms \notin {<<>>, <<Raises>>}, proc[p].exp # {},
         proc[p].rec.rev = sched.rev, ~ConflictingClaim(proc[p].exp),
         NEW k, k = <<proc[p].rec.rev, Head(proc[p].noms)>>, k \notin DOMAIN firings,
         NEW status, claim_firing(k, status, NextOf(p)), NextOf(p) # Raises,
         NEW x, proc' = [proc EXCEPT ![p] = x],
         x.rec = proc[p].rec \/ x.rec.rev = 0,
         InHand(spec, DOMAIN firings', x)
  PROVE  CursorStep
<1>1. PICK c, d : c = Head(proc[p].noms) /\ d = NextOf(p)
  OBVIOUS
<1>2. sched'.rev = sched.rev /\ sched'.cursor = d /\ DOMAIN firings' = DOMAIN firings \cup {k}
  <2>1. sched' = [sched EXCEPT !.cursor = d]
    BY <1>1 DEF claim_firing
  <2>2. sched \in [status : {"active", "paused", "deleted"}, rev : 1 .. MaxRev,
                   owner : {"local", "external"}, gen : 1 .. MaxGen,
                   cursor : Nat \cup {NoFire}]
    BY DEF Inv, TypeOK
  <2> QED
    BY <2>1, <2>2 DEF claim_firing, WithFiring
<1>3. /\ ~proc[p].skip
      /\ proc[p].exp = {c}
  <2>1. InHand(spec, DOMAIN firings, proc[p])
    BY DEF CursorInv
  <2> QED
    BY <1>1, <2>1 DEF InHand
<1>4. sched.cursor = c
  BY <1>3 DEF ConflictingClaim
<1>5. c \in Cursors /\ c # NoFire
  <2>1. c \in 0 .. MaxTime
    BY <1>1, ClaimMoves
  <2> QED
    BY <1>4, <2>1 DEF Cursors, NoFire
<1>6. d = next_fire_after(spec, c, c) /\ d # Raises
  BY <1>1, <1>3 DEF NextOf
<1>7. <<sched.rev, c>> \in DOMAIN firings' /\ DOMAIN firings \subseteq DOMAIN firings'
  BY <1>1, <1>2
<1>8. NoGaps(spec, DOMAIN firings', sched.rev, Cursors \cup {d})
  <2>1. NoGaps(spec, DOMAIN firings, sched.rev, Cursors)
    BY DEF CursorInv
  <2>2. PICK F, G, r, C : /\ F = DOMAIN firings /\ G = DOMAIN firings'
                          /\ r = sched.rev /\ C = Cursors
    OBVIOUS
  <2>3. C \in SUBSET (Nat \cup {NoFire}) /\ spec \in Specs /\ LittleJitter(spec)
    BY <2>2, CursorTypes DEF Steady
  <2>4. NoGaps(spec, G, r, C \cup {d})
    BY <1>5, <1>6, <1>7, <2>1, <2>2, <2>3, NoGapsAhead
  <2> QED
    BY <2>2, <2>4
<1>9. PICK D : D = Cursors \cup {d}
  OBVIOUS
<1>10. /\ NoGaps(spec, DOMAIN firings', sched.rev, D)
       /\ Cursors \subseteq D /\ sched'.cursor \in D
       /\ DOMAIN firings \subseteq DOMAIN firings'
  BY <1>2, <1>8, <1>9
<1>11. sched'.rev = sched.rev
  BY <1>2
<1> QED
  BY <1>10, <1>11, PassOn

\* A scheduler claims a nominal time, or passes over it.
LEMMA ClaimCursor ==
  ASSUME Inv, Inv', Steady, CursorInv, NEW p \in Procs, ClaimScheduled(p)
  PROVE  CursorStep
<1> DEFINE nominal == Head(proc[p].noms)
           k == <<proc[p].rec.rev, nominal>>
           status == ClaimStatus(nominal, proc[p].skip, Running)
<1>1. /\ proc[p].pc = "claim"
      /\ proc[p].noms \notin {<<>>, <<Raises>>}
      /\ NextOf(p) # Raises
      /\ UNCHANGED spec
  BY DEF ClaimScheduled, ClaimStops, At
<1>2. proc[p].exp # {}
  <2>1. InHand(spec, DOMAIN firings, proc[p])
    BY DEF CursorInv
  <2> QED
    BY <1>1, <2>1 DEF InHand
<1>3. CASE /\ proc' = [proc EXCEPT ![p] = AfterClaim(p)] \/ TakeOccurrence(p, k)
           /\ UNCHANGED <<sched, firings>>
  BY <1>1, <1>3, NothingPassed
<1>4. CASE /\ ~StaleClaim(proc[p].rec, "local")
           /\ k \notin DOMAIN firings
           /\ ~ConflictingClaim(proc[p].exp)
           /\ claim_firing(k, status, NextOf(p))
           /\ proc' = [proc EXCEPT ![p] = AfterClaim(p)] \/ TakeOccurrence(p, k)
  <2>1. PICK x : /\ proc' = [proc EXCEPT ![p] = x]
                 /\ x.rec = proc[p].rec
                 /\ \A G : InHand(spec, G, x)
    BY <1>1, <1>4, ClaimDealt
  <2>2. proc[p].rec.rev = sched.rev
    BY <1>4 DEF StaleClaim
  <2> QED
    BY <1>1, <1>2, <1>4, <2>1, <2>2, CursorMovesOn
<1> QED
  BY <1>3, <1>4 DEF ClaimScheduled

\* A manual trigger writes back the cursor it read under the same revision.
LEMMA CursorWrittenBack ==
  ASSUME Inv, CursorInv, UNCHANGED spec, NEW p \in Procs,
         proc[p].rec.rev = sched.rev,
         NEW k, NEW status, claim_firing(k, status, proc[p].rec.cursor),
         NEW x, proc' = [proc EXCEPT ![p] = x],
         x.rec = proc[p].rec \/ x.rec.rev = 0,
         InHand(spec, DOMAIN firings', x)
  PROVE  CursorStep
<1>1. PICK d : d = proc[p].rec.cursor
  OBVIOUS
<1>2. sched'.rev = sched.rev /\ sched'.cursor = d /\ DOMAIN firings \subseteq DOMAIN firings'
  <2>1. sched' = [sched EXCEPT !.cursor = d]
    BY <1>1 DEF claim_firing
  <2>2. sched \in [status : {"active", "paused", "deleted"}, rev : 1 .. MaxRev,
                   owner : {"local", "external"}, gen : 1 .. MaxGen,
                   cursor : Nat \cup {NoFire}]
    BY DEF Inv, TypeOK
  <2> QED
    BY <2>1, <2>2 DEF claim_firing, WithFiring
<1>3. d \in Cursors
  BY <1>1 DEF Cursors
<1>4. NoGaps(spec, DOMAIN firings', sched.rev, Cursors)
  BY <1>2, NoGapsInFewer DEF CursorInv
<1> QED
  BY <1>2, <1>3, <1>4, PassOn

\* A trigger records its occurrence, or returns.
LEMMA TriggerCursor ==
  ASSUME Inv, Inv', Steady, CursorInv, NEW g \in Procs, trigger_record(g)
  PROVE  CursorStep
<1> DEFINE nominal == Head(proc[g].noms)
           k == <<proc[g].rec.rev, nominal>>
           status == ClaimStatus(nominal, proc[g].skip, Running)
<1>1. /\ proc[g].pc = "trigger"
      /\ proc[g].noms \notin {<<>>, <<Raises>>}
      /\ UNCHANGED spec
  <2>1. proc[g].pc = "trigger" /\ UNCHANGED spec
    BY DEF trigger_record, At
  <2> QED
    BY <2>1, CursorTypes DEF Knows
<1>2. CASE (Finish(g) \/ Abandon(g)) /\ UNCHANGED <<sched, firings>>
  BY <1>1, <1>2, LeavingStays, StaysRests
<1>3. CASE TakeOccurrence(g, k) /\ UNCHANGED <<sched, firings>>
  BY <1>1, <1>3, NothingPassed
<1>4. CASE /\ ~(\/ StaleClaim(proc[g].rec, IF IsManual(g) THEN "local" ELSE "external")
                \/ ConflictingClaim(proc[g].exp)
                \/ TriggerNext(g) = Raises)
           /\ k \notin DOMAIN firings
           /\ claim_firing(k, status, TriggerNext(g))
           /\ TakeOccurrence(g, k) \/ Finish(g)
  <2>1. PICK x : /\ proc' = [proc EXCEPT ![g] = x]
                 /\ x.rec = proc[g].rec \/ x.rec.rev = 0
                 /\ InHand(spec, DOMAIN firings', x)
    <3>1. CASE TakeOccurrence(g, k)
      BY <1>1, <3>1, ClaimDealt
    <3>2. CASE Finish(g)
      <4>1. PICK x : proc' = [proc EXCEPT ![g] = x] /\ Keeps(proc[g], x)
        BY <3>2, LeavingStays DEF Stays
      <4>2. InHand(spec, DOMAIN firings', proc[g])
        <5>1. DOMAIN firings \subseteq DOMAIN firings'
          BY <1>4 DEF claim_firing, WithFiring
        <5> QED
          BY <5>1 DEF CursorInv, InHand
      <4> QED
        BY <4>1, <4>2, KeepsHand
    <3> QED
      BY <1>4, <3>1, <3>2
  <2>2. proc[g].rec.rev = sched.rev
    BY <1>4 DEF StaleClaim
  <2>3. CASE IsManual(g)
    <3>1. claim_firing(k, status, proc[g].rec.cursor)
      BY <1>4, <2>3 DEF TriggerNext
    <3> QED
      BY <1>1, <2>1, <2>2, <3>1, CursorWrittenBack
  <2>4. CASE ~IsManual(g)
    <3>1. /\ proc[g].exp # {} /\ NextOf(g) # Raises
          /\ claim_firing(k, status, NextOf(g))
          /\ ~ConflictingClaim(proc[g].exp)
      BY <1>4, <2>4 DEF TriggerNext, IsManual
    <3> QED
      BY <1>1, <1>4, <2>1, <2>2, <3>1, CursorMovesOn
  <2> QED
    BY <2>3, <2>4
<1> QED
  BY <1>2, <1>3, <1>4 DEF trigger_record

\* A trigger reads the record; an external one names its cursor or a nominal
\* time that was claimed before.
LEMMA ReadCursor ==
  ASSUME Inv, Steady, CursorInv, NEW g \in Procs, trigger(g) \/ trigger_external(g)
  PROVE  CursorStep
<1>1. UNCHANGED <<sched, spec, firings>>
  BY DEF trigger, trigger_external, storeVars
<1>2. PICK t, e, b : /\ ReadRecord(g, t, e, b)
                     /\ \/ e = {}
                        \/ /\ e = {sched.cursor} /\ ~b
                           /\ <<sched.rev, t>> \in DOMAIN firings \/ t = sched.cursor
  <2>1. CASE trigger(g)
    BY <2>1 DEF trigger
  <2>2. CASE trigger_external(g)
    <3>1. PICK t \in 0 .. MaxTime :
             /\ \/ <<sched.rev, t>> \in DOMAIN firings
                \/ sched.status = "active" /\ t = sched.cursor /\ t <= now + Minute
             /\ ReadRecord(g, t, {sched.cursor},
                        \/ spec.misfire = "skip" /\ t < now
                        \/ spec.misfire = "catch_up" /\ spec.catch_up_max = 0 /\ t <= now)
      BY <2>2 DEF trigger_external
    <3>2. ~(\/ spec.misfire = "skip" /\ t < now
            \/ spec.misfire = "catch_up" /\ spec.catch_up_max = 0 /\ t <= now)
      BY DEF Steady
    <3> QED
      BY <3>1, <3>2
  <2> QED
    BY <2>1, <2>2
<1>3. PICK r, c : r = [rev |-> sched.rev, gen |-> sched.gen, cursor |-> sched.cursor] /\ c = now
  OBVIOUS
<1>4. PICK x : x = [Idle EXCEPT !.pc = "trigger", !.via = "trigger", !.clk = c, !.rec = r,
                                !.noms = <<t>>, !.exp = e, !.skip = b]
  OBVIOUS
<1>5. proc' = [proc EXCEPT ![g] = x]
  BY <1>2, <1>3, <1>4, Zenon DEF ReadRecord
<1>6. /\ x.pc = "trigger" /\ x.via = "trigger" /\ x.rec = r
      /\ x.noms = <<t>> /\ x.exp = e /\ x.skip = b
  BY <1>4 DEF Idle
<1>7. x.rec.rev = sched.rev /\ x.rec.cursor = sched.cursor
  BY <1>3, <1>6
<1>8. Follows(spec, <<t>>) /\ Head(<<t>>) = t /\ Len(<<t>>) = 1
  BY DEF Follows
<1>9. InHand(spec, DOMAIN firings, x)
  <2>1. ~(x.pc = "claim" \/ x.via = "claim") /\ Len(x.noms) <= 1
    BY <1>6, <1>8
  <2>2. x.exp # {} => ~x.skip /\ Follows(spec, x.noms)
    BY <1>2, <1>6, <1>8
  <2>3. x.exp # {} => x.exp = {Head(x.noms)} \/ <<x.rec.rev, Head(x.noms)>> \in DOMAIN firings
    BY <1>2, <1>6, <1>7, <1>8
  <2> QED
    BY <2>1, <2>2, <2>3 DEF InHand
<1> QED
  BY <1>1, <1>5, <1>7, <1>9, CursorRests

\* An amended schedule starts over under a revision nobody has read.
LEMMA AdminCursor ==
  ASSUME Inv, Steady, CursorInv, Administer
  PROVE  CursorStep
<1>1. UNCHANGED <<spec, firings, proc>>
  BY DEF Administer, set_status, amend, transfer_timer_owner
<1>2. PICK s : s = sched
  OBVIOUS
<1>3. s \in [status : {"active", "paused", "deleted"}, rev : 1 .. MaxRev,
             owner : {"local", "external"}, gen : 1 .. MaxGen,
             cursor : Nat \cup {NoFire}]
  BY <1>2 DEF Inv, TypeOK
<1>4. CASE (\E status : set_status(status)) \/ (\E o : transfer_timer_owner(o))
  <2>1. sched'.rev = sched.rev /\ sched'.cursor = sched.cursor
    BY <1>2, <1>3, <1>4 DEF set_status, transfer_timer_owner
  <2> QED
    BY <1>1, <2>1, CursorsSame
<1>5. CASE /\ next_fire_after(spec, now, NoNominal) # Raises
           /\ amend(next_fire_after(spec, now, NoNominal), Running)
  <2>1. PICK c : c = next_fire_after(spec, now, NoNominal)
    OBVIOUS
  <2>3. sched'.rev = sched.rev + 1 /\ sched'.cursor = c /\ sched.rev \in Nat
    BY <1>2, <1>3, <1>5, <2>1, CursorTypes DEF amend
  <2>4. \A p \in Procs : proc[p].rec.rev \in Nat /\ proc[p].rec.rev <= sched.rev
    BY CursorTypes DEF CursorInv
  <2>5. Cursors' = {c}
    BY <1>1, <2>3, <2>4 DEF Cursors
  <2>6. c # NoFire => OnSchedule(spec, c) /\ c \in Int
    BY <1>5, <2>1, CursorTypes, FirstCursor DEF Steady
  <2>7. NoGaps(spec, DOMAIN firings', sched'.rev, {c})
    <3>1. ~(c # NoFire /\ (c = NoFire \/ c < c))
      BY <2>6
    <3> QED
      BY <2>6, <3>1 DEF NoGaps
  <2>8. \A p \in Procs : proc'[p].rec.rev <= sched'.rev
    BY <1>1, <2>3, <2>4
  <2>9. CursorInv'
    BY <1>1, <2>5, <2>7, <2>8 DEF CursorInv
  <2>10. sched'.rev # sched.rev
    BY <2>3
  <2> QED
    BY <2>9, <2>10 DEF CursorStep
<1> QED
  BY <1>4, <1>5 DEF Administer

\* A created schedule has one cursor.
LEMMA CursorStarts ==
  ASSUME Init, Steady
  PROVE  CursorInv
<1>1. Inv
  BY InitInv
<1>2. /\ proc = [p \in Procs |-> Idle] /\ spec \in Specs
      /\ next_fire_after(spec, 0, NoNominal) # Raises
  BY DEF Init
<1>3. PICK c : c = next_fire_after(spec, 0, NoNominal)
  OBVIOUS
<1>4. sched.rev = 1 /\ sched.cursor = c
  BY <1>3 DEF Init
<1>5. PICK i : i = Idle
  OBVIOUS
<1>6. /\ \A p \in Procs : proc[p] = i
      /\ i.rec.rev = 0 /\ i.noms = <<>> /\ i.pc # "claim" /\ i.via # "claim"
  BY <1>2, <1>5 DEF Idle
<1>7. Cursors = {c}
  BY <1>4, <1>6 DEF Cursors
<1>8. c # NoFire => OnSchedule(spec, c) /\ c \in Int
  BY <1>2, <1>3, FirstCursor DEF Steady
<1>9. NoGaps(spec, DOMAIN firings, sched.rev, {c})
  <2>1. ~(c # NoFire /\ (c = NoFire \/ c < c))
    BY <1>8
  <2> QED
    BY <1>8, <2>1 DEF NoGaps
<1>10. InHand(spec, DOMAIN firings, i)
  <2>1. Len(i.noms) <= 1
    BY <1>6
  <2> QED
    BY <1>6, <2>1 DEF InHand
<1> QED
  BY <1>4, <1>6, <1>7, <1>9, <1>10 DEF CursorInv

\* Every step of the system.
LEMMA StepKeepsCursor ==
  ASSUME Inv, Inv', Steady, CursorInv, [Next]_vars
  PROVE  CursorStep
<1>1. ASSUME NEW p \in Procs, OccurrenceStep(p)
      PROVE  CursorStep
  BY <1>1, OccurrenceStays, StaysRests
<1>2. ASSUME NEW p \in Schedulers, SchedulerStep(p)
      PROVE  CursorStep
  <2>1. p \in Procs
    BY DEF Procs
  <2>2. CASE tick(p) \/ ListUnlinked(p) \/ ReconcileOne(p) \/ ClaimEnds(p)
    BY <2>1, <2>2, PassStays, StaysRests
  <2> QED
    BY <1>1, <1>2, <2>1, <2>2, DueCursor, ClaimCursor DEF SchedulerStep
<1>3. ASSUME NEW g \in Triggers, TriggerStep(g)
      PROVE  CursorStep
  <2>1. g \in Procs
    BY DEF Procs
  <2> QED
    BY <1>1, <1>3, <2>1, ReadCursor, TriggerCursor DEF TriggerStep
<1>4. CASE \E p \in Procs : Crash(p)
  BY <1>4, PassStays, StaysRests
<1>5. CASE Administer
  BY <1>5, AdminCursor
<1>6. CASE \/ \E p \in Schedulers : request_drain(p)
           \/ \E k \in DOMAIN firings : ExpirePreparation(k)
           \/ \E k \in Keys : WorkEnds(k)
           \/ ClockTick \/ ExpireLeader \/ UNCHANGED vars
  <2>1. UNCHANGED <<sched, spec, proc>> /\ DOMAIN firings' = DOMAIN firings
    BY <1>6 DEF request_drain, ExpirePreparation, WorkEnds, ClockTick, ExpireLeader,
                vars, storeVars
  <2> QED
    BY <2>1, CursorsSame
<1> QED
  BY <1>2, <1>3, <1>4, <1>5, <1>6 DEF Next

\* The schedule of a behaviour is one and the same.
LEMMA SpecStays ==
  ASSUME [Next]_vars
  PROVE  UNCHANGED spec
<1>1. ASSUME NEW p, OccurrenceStep(p)
      PROVE  UNCHANGED spec
  BY <1>1 DEF OccurrenceStep, recover_scheduled_occurrence, RepairBegin, RepairAccept,
         RepairVerify, AcquirePreparation, PrepareOccurrence, BeginAdmission, AcceptReceipt,
         AcceptDurable, CancelReceipt, ConfirmAbsence, TerminateFiring, Raise,
         LinkSubmission, storeVars
<1>2. ASSUME NEW p, SchedulerStep(p) \/ TriggerStep(p)
      PROVE  UNCHANGED spec
  BY <1>1, <1>2 DEF SchedulerStep, TriggerStep, tick, ListUnlinked, ReconcileOne, DueSchedules,
         ClaimEnds, ClaimScheduled, trigger, trigger_external, trigger_record, storeVars
<1>3. CASE Administer
  BY <1>3 DEF Administer, set_status, amend, transfer_timer_owner
<1>4. CASE \/ \E p \in Procs : Crash(p)
           \/ \E p \in Schedulers : request_drain(p)
           \/ \E k \in DOMAIN firings : ExpirePreparation(k)
           \/ \E k \in Keys : WorkEnds(k)
           \/ ClockTick \/ ExpireLeader \/ UNCHANGED vars
  BY <1>4 DEF Crash, request_drain, ExpirePreparation, WorkEnds, ClockTick, ExpireLeader,
              vars, storeVars
<1> QED
  BY <1>2, <1>3, <1>4 DEF Next

\* What a step does not pass.
LEMMA StepPassesNothing ==
  ASSUME Inv, Inv', Steady => CursorInv, [Next]_vars, LittleJitter(spec),
         sched'.rev = sched.rev, spec.misfire # "skip",
         spec.misfire = "catch_up" => spec.catch_up_max > 0,
         sched.cursor # NoFire, sched'.cursor = NoFire \/ sched'.cursor > sched.cursor,
         NEW t \in Promised(spec, sched.cursor), sched'.cursor = NoFire \/ t < sched'.cursor
  PROVE  <<sched.rev, t>> \in DOMAIN firings'
<1>1. CursorInv /\ Steady
  BY DEF Steady
<1>2. NoGaps(spec, DOMAIN firings', sched.rev, {sched.cursor, sched'.cursor})
  BY <1>1, StepKeepsCursor DEF CursorStep
<1>3. PICK c, d : c = sched.cursor /\ d = sched'.cursor
  OBVIOUS
<1>4. c \in Nat /\ (d = NoFire \/ (d \in Nat /\ c < d))
  <2>1. c \in Nat \cup {NoFire}
    BY <1>3, CursorTypes
  <2>2. d \in Nat \cup {NoFire}
    <3>1. sched' \in [status : {"active", "paused", "deleted"}, rev : 1 .. MaxRev,
                      owner : {"local", "external"}, gen : 1 .. MaxGen,
                      cursor : Nat \cup {NoFire}]
      BY DEF Inv, TypeOK
    <3> QED
      BY <1>3, <3>1
  <2> QED
    BY <1>3, <2>1, <2>2 DEF NoFire
<1>5. Reached(spec, DOMAIN firings', sched.rev, c, d)
  BY <1>2, <1>3, <1>4 DEF NoGaps
<1> QED
  BY <1>3, <1>5 DEF Reached

---------------------------------------------------------------------------
(* The properties.                                                         *)

\* Every store record, clock reading and local of a process keeps its type:
\* no step writes a next occurrence that could not be computed into a cursor,
\* and a process only works on an occurrence that was claimed.
THEOREM SchedulerTypeCorrect == Spec => []TypeOK
BY SpecInv, PTL DEF Inv

\* An occurrence reported as failed has no live receipt, whatever attempts were
\* on their way: a receipt is accepted under an attempt recorded on the firing
\* (begin_firing_submission), which fails only without any
\* (fail_firing_preparation, fail_firing_after_compensated_submission).
THEOREM FailureFenced == Spec => []FailedIsFenced
<1>1. Inv => FailedIsFenced
  BY DEF Inv, FiringOK, FailedIsFenced
<1> QED
  BY <1>1, SpecInv, PTL

\* An accepted occurrence without a run belongs to the revision and the timer
\* generation of a schedule that is not deleted (claim_firing against delete,
\* amend and transfer_timer_owner).
THEOREM UnlinkedCurrency == Spec => []UnlinkedIsCurrent
BY SpecInv, PTL DEF Inv

\* With overlap = skip at most one occurrence is accepted and not ended: the
\* test of _has_inflight_firing and the claim are one step, and nothing puts an
\* ended occurrence back in flight.
THEOREM OneFlight == Spec => []OneInFlight
BY SpecInv, PTL DEF Inv

\* Late answers of slow attempts never change the outcome of an occurrence
\* (link_firing_submission, fail_firing_after_compensated_submission).
THEOREM SettledFinal == Spec => SettledIsFinal
<1>1. Inv /\ [Next]_vars => [ \A k \in DOMAIN firings :
          ~Unlinked(k) => /\ firings'[k].st = firings[k].st
                          /\ firings'[k].linked = firings[k].linked ]_vars
  BY StepSettles DEF Settles
<1> QED
  BY <1>1, SpecInv, PTL DEF Spec, SettledIsFinal

\* A schedule that records missed occurrences, and whose jitter leaves them
\* apart, never moves its cursor past an instant without a firing: a claim
\* writes the occurrence next to the one it records (_fire_due,
\* catch_up_nominals, trigger_external), and a manual trigger writes back a
\* cursor of the same revision.
THEOREM OccurrencesNotSkipped == Spec /\ LittleJitter(spec) => NothingSkipped
<1>1. Init => Inv /\ (Steady => CursorInv)
  BY InitInv, CursorStarts
<1>2. Inv /\ [Next]_vars => Inv'
  BY StepKeepsInv
<1>3. LittleJitter(spec) /\ [Next]_vars => LittleJitter(spec)'
  BY SpecStays
<1>4. Inv /\ Inv' /\ (Steady => CursorInv) /\ [Next]_vars => (Steady => CursorInv)'
  <2> SUFFICES ASSUME Inv, Inv', Steady => CursorInv, [Next]_vars, Steady'
               PROVE  CursorInv'
    OBVIOUS
  <2>1. Steady
    BY SpecStays DEF Steady
  <2> QED
    BY <2>1, StepKeepsCursor DEF CursorStep
<1>5. Inv /\ Inv' /\ (Steady => CursorInv) /\ LittleJitter(spec) /\ [Next]_vars =>
       [ LET c == sched.cursor
             d == sched'.cursor
         IN  (/\ sched'.rev = sched.rev
              /\ spec.misfire # "skip"
              /\ spec.misfire = "catch_up" => spec.catch_up_max > 0
              /\ c # NoFire
              /\ d = NoFire \/ d > c)
             => \A t \in Promised(spec, c) :
                   (d = NoFire \/ t < d) => <<sched.rev, t>> \in DOMAIN firings' ]_vars
  <2> SUFFICES ASSUME Inv, Inv', Steady => CursorInv, LittleJitter(spec), [Next]_vars,
                      sched'.rev = sched.rev, spec.misfire # "skip",
                      spec.misfire = "catch_up" => spec.catch_up_max > 0,
                      sched.cursor # NoFire,
                      sched'.cursor = NoFire \/ sched'.cursor > sched.cursor,
                      NEW t \in Promised(spec, sched.cursor),
                      sched'.cursor = NoFire \/ t < sched'.cursor
               PROVE  <<sched.rev, t>> \in DOMAIN firings'
    OBVIOUS
  <2> QED
    BY StepPassesNothing
<1> QED
  BY <1>1, <1>2, <1>3, <1>4, <1>5, PTL DEF Spec, NothingSkipped

\* What holds of the first and passes from each to the next holds of all up to n.
LEMMA UpTo ==
  ASSUME NEW n \in Nat, NEW G, 1 \in G, \A i \in 1 .. (n - 1) : i \in G => i + 1 \in G
  PROVE  \A i \in 1 .. n : i \in G
<1> DEFINE B == {i \in 1 .. n : i \notin G}
           R == OpToRel(<, Nat)
<1> SUFFICES ASSUME B # {}
             PROVE  FALSE
  OBVIOUS
<1>1. IsWellFoundedOn(R, Nat)
  BY NatLessThanWellFounded
<1>2. B \subseteq Nat
  OBVIOUS
<1> HIDE DEF R
<1>3. PICK x \in B : \A y \in B : ~(<<y, x>> \in R)
  BY <1>1, <1>2, WFMin
<1>4. \A y \in B : ~(y < x)
  BY <1>2, <1>3 DEF R, OpToRel
<1>5. x \in 2 .. n
  OBVIOUS
<1>6. x - 1 \notin B /\ x - 1 \in 1 .. (n - 1)
  BY <1>4, <1>5
<1>7. x - 1 \in G /\ (x - 1) + 1 = x
  BY <1>5, <1>6
<1> QED
  BY <1>3, <1>6, <1>7

\* A catch-up pass of _fire_due, which starts one interval or one minute before
\* the cursor and follows next_fire_after (catch_up_nominals), lists the missed
\* instants and no other, from the cursor on and in order: every one up to now,
\* or the first catch_up_max of them.
THEOREM CatchUpIsComplete ==
  ASSUME NEW s \in Specs, LittleJitter(s), s.catch_up_max > 0,
         NEW c \in Int, OnSchedule(s, c), NEW clk \in c .. MaxTime,
         NEW l, l = catch_up_nominals(s, CatchUpStart(s, c), clk), l # <<Raises>>
  PROVE  /\ Len(l) <= s.catch_up_max
         /\ \A i \in 1 .. Len(l) : l[i] \in Promised(s, c) /\ l[i] <= clk
         /\ \A i \in 1 .. (Len(l) - 1) : l[i] < l[i + 1]
         /\ \A t \in Promised(s, c) :
              t <= clk => \/ \E i \in 1 .. Len(l) : l[i] = t
                          \/ Len(l) = s.catch_up_max /\ l[Len(l)] < t
<1> DEFINE b == CatchUpStart(s, c)
           n == Len(l)
<1>1. c \in Nat /\ clk \in Nat /\ c <= clk /\ MaxTime \in Nat /\ clk <= MaxTime
  BY ScheduleAssumption, SpecFields DEF OnSchedule, InWindow
<1>2. s.catch_up_max \in Nat
  BY ScheduleAssumption DEF ScheduleSpec
<1>3. b \in Nat /\ (next_fire_after(s, b, b) # Raises => next_fire_after(s, b, b) = c)
  BY CatchUpStartsAtDue
<1> HIDE DEF b
<1>4. /\ l \in Seq(0 .. clk)
      /\ \A i \in 1 .. (n - 1) : l[i + 1] = next_fire_after(s, l[i], l[i])
      /\ l # <<>> => l[1] = next_fire_after(s, b, b)
      /\ n <= s.catch_up_max
      /\ n < s.catch_up_max =>
           LET m == IF l = <<>> THEN b ELSE l[n]
               d == next_fire_after(s, m, m)
           IN  d # Raises /\ (d = NoFire \/ d > clk)
  BY <1>1, <1>3, CatchUpInstants DEF b
<1>5. n \in Nat /\ (l # <<>> <=> n >= 1) /\ \A i \in 1 .. n : l[i] \in 0 .. clk
  BY <1>4
<1> HIDE DEF n
\* The pass finds the occurrence at the cursor.
<1>6. l # <<>>
  <2> SUFFICES ASSUME l = <<>>
               PROVE  FALSE
    OBVIOUS
  <2>1. n < s.catch_up_max
    BY <1>2, <1>5
  <2>2. PICK d : d = next_fire_after(s, b, b)
    OBVIOUS
  <2>3. d # Raises /\ (d = NoFire \/ d > clk)
    BY <1>4, <2>1, <2>2
  <2>4. d = c
    BY <1>3, <2>2, <2>3
  <2> QED
    BY <1>1, <2>3, <2>4 DEF NoFire
<1>7. l[1] = c
  <2>1. l[1] \in 0 .. clk
    BY <1>5, <1>6
  <2> QED
    BY <1>3, <1>4, <1>6, <2>1 DEF Raises
\* It goes on from occurrence to occurrence.
<1>8. ASSUME NEW x \in 0 .. clk, OnSchedule(s, x), SameGrid(s, c, x), x >= c,
             NEW y \in Int, y = next_fire_after(s, x, x), y # Raises, y # NoFire
      PROVE  y > x /\ y >= c /\ OnSchedule(s, y) /\ SameGrid(s, c, y)
  <2>1. y > x /\ OnSchedule(s, y) /\ SameGrid(s, x, y)
    BY <1>1, <1>8, NextOnSchedule
  <2>2. SameGrid(s, c, y)
    BY <1>1, <1>8, <2>1, OneGrid
  <2> QED
    BY <1>1, <1>8, <2>1, <2>2
<1> DEFINE G == {i \in 1 .. n : OnSchedule(s, l[i]) /\ SameGrid(s, c, l[i]) /\ l[i] >= c}
<1>9. \A i \in 1 .. n : i \in G
  <2>1. 1 \in G
    <3>1. SameGrid(s, c, c)
      <4>1. s.kind = "interval" => (c - c) % s.step = 0
        <5>1. s.step \in Nat \ {0} /\ c - c = 0
          BY <1>1, SpecFields
        <5> QED
          BY <5>1
      <4>2. s.kind # "interval" => CronMatch(s, c - s.jitter)
        BY SpecFields DEF OnSchedule
      <4> QED
        BY <4>1, <4>2 DEF SameGrid
    <3> QED
      BY <1>1, <1>5, <1>6, <1>7, <3>1
  <2>2. ASSUME NEW i \in 1 .. (n - 1), i \in G
        PROVE  i + 1 \in G
    <3>1. i \in 1 .. n /\ i + 1 \in 1 .. n
      BY <1>5
    <3>2. PICK x \in 0 .. clk, y \in 0 .. clk : x = l[i] /\ y = l[i + 1]
      BY <1>5, <3>1
    <3>3. y = next_fire_after(s, x, x) /\ y # Raises /\ y # NoFire /\ y \in Int
      BY <1>4, <3>2 DEF Raises, NoFire
    <3>4. OnSchedule(s, x) /\ SameGrid(s, c, x) /\ x >= c
      BY <2>2, <3>2
    <3>5. y >= c /\ OnSchedule(s, y) /\ SameGrid(s, c, y)
      BY <1>8, <3>3, <3>4
    <3> QED
      BY <3>1, <3>2, <3>5
  <2> HIDE DEF G
  <2> QED
    BY <1>5, <2>1, <2>2, UpTo
<1>10. \A i \in 1 .. n : l[i] \in Promised(s, c) /\ l[i] <= clk
  <2> SUFFICES ASSUME NEW i \in 1 .. n
               PROVE  l[i] \in Promised(s, c) /\ l[i] <= clk
    OBVIOUS
  <2>1. PICK x \in 0 .. clk : x = l[i]
    BY <1>5
  <2>2. OnSchedule(s, x) /\ SameGrid(s, c, x) /\ x >= c
    BY <1>9, <2>1
  <2>3. x \in c .. MaxTime /\ x <= clk
    BY <1>1, <2>2
  <2> QED
    BY <2>1, <2>2, <2>3, PromisedMeans DEF OnSchedule
<1>11. \A i \in 1 .. (n - 1) : l[i] < l[i + 1]
  <2> SUFFICES ASSUME NEW i \in 1 .. (n - 1)
               PROVE  l[i] < l[i + 1]
    OBVIOUS
  <2>1. i \in 1 .. n /\ i + 1 \in 1 .. n
    BY <1>5
  <2>2. PICK x \in 0 .. clk, y \in 0 .. clk : x = l[i] /\ y = l[i + 1]
    BY <1>5, <2>1
  <2>3. y = next_fire_after(s, x, x) /\ y # Raises /\ y # NoFire /\ y \in Int
    BY <1>4, <2>2 DEF Raises, NoFire
  <2>4. OnSchedule(s, x) /\ SameGrid(s, c, x) /\ x >= c
    BY <1>9, <2>1, <2>2
  <2> QED
    BY <1>8, <2>2, <2>3, <2>4
\* Nothing lies between an instant of the list and the next one.
<1>12. ASSUME NEW t \in Promised(s, c), NEW i \in 1 .. n, l[i] < t,
              NEW d, d = next_fire_after(s, l[i], l[i]), d # Raises
       PROVE  d # NoFire /\ t >= d
  <2>1. PICK x \in 0 .. clk : x = l[i]
    BY <1>5
  <2>2. OnSchedule(s, x) /\ SameGrid(s, c, x)
    BY <1>9, <2>1
  <2>3. t \in Int /\ InWindow(s, t) /\ SameGrid(s, c, t)
    BY <1>1, PromisedMeans
  <2>4. SameGrid(s, x, t)
    BY <1>1, <2>1, <2>2, <2>3, OneGrid
  <2> QED
    BY <1>12, <2>1, <2>2, <2>3, <2>4, NextOnSchedule
<1>13. ASSUME NEW t \in Promised(s, c), t <= clk, ~\E i \in 1 .. n : l[i] = t
       PROVE  n = s.catch_up_max /\ l[n] < t
  <2> DEFINE E == {i \in 1 .. n : l[i] < t}
  <2>1. t \in Int /\ t >= c
    BY <1>1, PromisedMeans
  <2>2. 1 \in E
    BY <1>1, <1>5, <1>6, <1>7, <1>13, <2>1
  <2>3. ASSUME NEW i \in 1 .. (n - 1), i \in E
        PROVE  i + 1 \in E
    <3>1. i \in 1 .. n /\ i + 1 \in 1 .. n
      BY <1>5
    <3>2. PICK y \in 0 .. clk : y = l[i + 1]
      BY <1>5, <3>1
    <3>3. y = next_fire_after(s, l[i], l[i]) /\ y # Raises
      BY <1>4, <3>2 DEF Raises
    <3>4. t >= y /\ t # y
      BY <1>12, <1>13, <2>3, <3>1, <3>2, <3>3
    <3> QED
      BY <2>1, <3>1, <3>2, <3>4
  <2> HIDE DEF E
  <2>4. n \in E
    <3>1. \A i \in 1 .. n : i \in E
      BY <1>5, <2>2, <2>3, UpTo
    <3> QED
      BY <1>5, <1>6, <3>1
  <2>5. l[n] < t /\ n \in 1 .. n
    BY <2>4 DEF E
  <2>6. ASSUME n < s.catch_up_max
        PROVE  FALSE
    <3>1. PICK d : d = next_fire_after(s, l[n], l[n])
      OBVIOUS
    <3>2. d # Raises /\ (d = NoFire \/ d > clk)
      BY <1>4, <1>6, <2>6, <3>1
    <3>3. d # NoFire /\ t >= d
      BY <1>12, <2>5, <3>1, <3>2
    <3>4. d \in Int
      BY <1>1, <1>5, <1>9, <2>5, <3>1, <3>2, <3>3, NextOnSchedule
    <3> QED
      BY <1>1, <1>13, <2>1, <3>2, <3>3, <3>4
  <2> QED
    BY <1>2, <1>4, <1>5, <2>5, <2>6
<1> QED
  BY <1>4, <1>10, <1>11, <1>13 DEF n
=============================================================================
