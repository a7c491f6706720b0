----------------------- MODULE ManagedAdmissionProofs -----------------------
(***************************************************************************)
(* The admission of one command, for any number of attempts, any faults    *)
(* and any number of reservations.  The three stores never meet in one     *)
(* step, so the argument is about what the calls hold between two of them: *)
(* a claim on a reservation (ChargeInv), and the duty to fence a row made  *)
(* from a receipt that is cancelled (FenceInv).                            *)
(***************************************************************************)
EXTENDS ManagedAdmission, SequenceTheorems, TLAPS

---------------------------------------------------------------------------
(* What the calls hold.                                                    *)

\* Where a call holds a claim, or held it until the worker settled the row.
Holding == {"inputs", "guard", "receipt", "receipt_error", "durable", "durable_error",
            "cancel_receipt", "look_again", "cancel_durable", "release_inputs", "abandon",
            "recheck", "restore", "last_check", "undo"}

\* Where a call stays that made the row: it gives its claim back no more.
Relying == {"durable_error", "last_check", "undo", "done"}

Active == Open \cup {"closed"}

\* A call that goes on holds the claim it was admitted for.
ClaimHeld(a) ==
  call[a].pc \in Holding =>
    /\ call[a].mine \in 1..Len(Reservations)
    /\ a \in Reservations[call[a].mine].claims \/ cp3.status = "settled"

\* What a call knows of the receipt is true still.
ReceiptSeen(a) ==
  /\ call[a].seen > 0 => cp1.status # "absent" /\ cp1.names = call[a].seen
  /\ call[a].pc \in {"check", "readmit", "recheck", "restore"} => call[a].seen > 0
  /\ call[a].pc \in {"recheck", "restore"} => call[a].mine = call[a].seen
  /\ call[a].pc \in {"durable", "durable_error"} =>
       cp1.status # "absent" /\ cp1.names = call[a].mine
  /\ call[a].pc = "rebind" => cp3.status # "absent"

CallsHold == \A a \in Attempt : ClaimHeld(a) /\ ReceiptSeen(a)

\* A receipt names a reservation that was made.
ReceiptNames ==
  /\ cp1.status = "absent" => cp1.names = 0
  /\ cp1.status # "absent" => cp1.names \in 1..Len(Reservations)

\* The reservation of a row has an owner that gives it back no more.
RowIsClaimed ==
  cp3.status \in Active =>
    \E a \in Attempt : call[a].pc \in Relying /\ a \in Reservations[cp3.names].claims

\* The first invariant: what keeps accepted work charged.
ChargeInv ==
  /\ TypeOK
  /\ Quota!Owned(Reservations)
  /\ ReceiptNames
  /\ RowMatchesReceipt
  /\ CallsHold
  /\ RowIsClaimed

---------------------------------------------------------------------------
(* Who made the receipt and the row.                                       *)

\* Who may say that it made the receipt, and when a call has a result.
CallOrigin(a) ==
  /\ call[a].created => cp1.status # "absent"
  /\ call[a].pc = "cancel_receipt" => call[a].created
  /\ call[a].result # "none" => call[a].pc = "done"

\* At most one call made the receipt.
OneCreator == \A a, b \in Attempt : call[a].created /\ call[b].created => a = b

\* Where the creator of a cancelled receipt is, which makes no row any more.
Compensating == {"look_again", "cancel_durable", "release_inputs", "abandon", "done"}

\* A receipt is cancelled by the user or by its creator.
ReceiptCancelled ==
  cp1.status = "cancel_requested" =>
    \/ user # "idle"
    \/ \E a \in Attempt : call[a].created /\ call[a].pc \in Compensating

\* The user cancels the row before the receipt.
UserCancelledRow == user # "idle" => cp3.status \notin {"absent", "open"}

\* Without faults, the creator that made its row never compensates.
CreatedRow ==
  faults = 0 /\ cp3.via = "created" =>
    /\ cp1.status = "cancel_requested" => cp3.status # "open"
    /\ \E a \in Attempt : call[a].created /\ call[a].pc = "done"

\* Where a call is that fences the row before it ends.
Fencing == {"last_check", "undo", "look_again", "cancel_durable"}

\* Without faults, a row restored from a cancelled receipt has a call to fence it.
RecoveredRow ==
  faults = 0 /\ cp3.via = "recovered" /\ cp1.status = "cancel_requested" /\ cp3.status = "open"
    => \E a \in Attempt : call[a].pc \in Fencing

\* The second invariant: what keeps cancelled work from running.
FenceInv ==
  /\ cp3.status # "absent" => cp3.via # "none"
  /\ \A a \in Attempt : CallOrigin(a)
  /\ OneCreator
  /\ ReceiptCancelled
  /\ UserCancelledRow
  /\ CreatedRow
  /\ RecoveredRow
---------------------------------------------------------------------------
(* The reservations of the command.                                        *)

\* What every step on the quota leaves to the attempts other than a.
LedgerMoves(a) ==
  /\ usage' \in [{"ws"} -> Nat]
  /\ reservations' \in [{"ws"} -> [{"key"} -> Seq(Quota!Reservation)]]
  /\ Quota!Owned(Reservations)'
  /\ Len(Reservations) <= Len(Reservations)'
  /\ \A b \in Attempt \ {a}, g \in 1..Len(Reservations) :
       b \in Reservations[g].claims => b \in Reservations[g].claims'

\* The types that the steps on the quota need.
LEMMA LedgerTypes ==
  ASSUME TypeOK
  PROVE  /\ usage \in [{"ws"} -> Nat] /\ usage["ws"] \in Nat
         /\ reservations \in [{"ws"} -> [{"key"} -> Seq(Quota!Reservation)]]
         /\ Reservations \in Seq(Quota!Reservation)
         /\ Len(Reservations) \in Nat
BY DEF TypeOK, Quota!TypeOK, Quota!LedgerTypeOK, Reservations

\* The command has one key.
LEMMA KeyChanged ==
  ASSUME TypeOK, NEW rs \in Seq(Quota!Reservation),
         reservations' = [reservations EXCEPT !["ws"]["key"] = rs]
  PROVE  /\ reservations' \in [{"ws"} -> [{"key"} -> Seq(Quota!Reservation)]]
         /\ Reservations' = rs
BY LedgerTypes DEF Reservations

\* A reservation is changed rightly if it stays the newest one with an owner, or
\* is released with none.
LEMMA ChangeOwned ==
  ASSUME TypeOK, Quota!Owned(Reservations), NEW g \in 1..Len(Reservations),
         NEW r \in Quota!Reservation,
         reservations' = [reservations EXCEPT !["ws"]["key"] = [@ EXCEPT ![g] = r]],
         \/ ~r.released /\ r.claims # {} /\ g = Len(Reservations)
         \/ r.released /\ r.claims = {}
  PROVE  /\ reservations' \in [{"ws"} -> [{"key"} -> Seq(Quota!Reservation)]]
         /\ Quota!Owned(Reservations)'
         /\ Len(Reservations)' = Len(Reservations)
         /\ \A h \in 1..Len(Reservations) :
              Reservations[h]' = IF h = g THEN r ELSE Reservations[h]
<1>1. Reservations \in Seq(Quota!Reservation) /\ Len(Reservations) \in Nat
  BY LedgerTypes
<1> DEFINE rs == [Reservations EXCEPT ![g] = r]
<1>2. /\ rs \in Seq(Quota!Reservation)
      /\ Len(rs) = Len(Reservations)
      /\ \A h \in 1..Len(Reservations) : rs[h] = IF h = g THEN r ELSE Reservations[h]
  BY <1>1, ExceptSeq
<1>3. reservations' = [reservations EXCEPT !["ws"]["key"] = rs]
  BY DEF Reservations
<1> HIDE DEF rs
<1>4. /\ reservations' \in [{"ws"} -> [{"key"} -> Seq(Quota!Reservation)]]
      /\ Reservations' = rs
  BY <1>2, <1>3, KeyChanged
<1>5. Quota!Owned(Reservations)'
  BY <1>1, <1>2, <1>4 DEF Quota!Owned
<1> QED
  BY <1>2, <1>4, <1>5

\* A terminal release leaves no owner.
LEMMA ReleaseStep ==
  ASSUME TypeOK, Quota!Owned(Reservations), NEW g \in 1..Len(Reservations),
         Quota!Release("ws", "key", g)
  PROVE  /\ usage' \in [{"ws"} -> Nat]
         /\ reservations' \in [{"ws"} -> [{"key"} -> Seq(Quota!Reservation)]]
         /\ Quota!Owned(Reservations)'
         /\ Len(Reservations)' = Len(Reservations)
         /\ \A h \in 1..Len(Reservations) : h # g => Reservations[h]' = Reservations[h]
<1>1. /\ Reservations \in Seq(Quota!Reservation) /\ usage \in [{"ws"} -> Nat]
      /\ usage["ws"] \in Nat
  BY LedgerTypes
<1>2. Reservations[g] \in Quota!Reservation
  BY <1>1
<1>3. PICK r : r = [Reservations[g] EXCEPT !.claims = {}, !.released = TRUE]
  OBVIOUS
<1>4. r \in Quota!Reservation /\ r.released /\ r.claims = {}
  BY <1>2, <1>3 DEF Quota!Reservation
<1>5. reservations' = [reservations EXCEPT !["ws"]["key"] = [@ EXCEPT ![g] = r]]
  <2>1. reservations' = [reservations EXCEPT !["ws"]["key"][g].claims = {},
                                             !["ws"]["key"][g].released = TRUE]
    BY Zenon DEF Quota!Release
  <2>2. PICK S, K, s, k, R :
          S = {"ws"} /\ K = {"key"} /\ s = "ws" /\ k = "key" /\ R = reservations
    OBVIOUS
  <2>3. /\ R \in [S -> [K -> Seq(Quota!Reservation)]] /\ s \in S /\ k \in K
        /\ g \in 1..Len(R[s][k])
        /\ r = [R[s][k][g] EXCEPT !.claims = {}, !.released = TRUE]
    BY <1>3, <2>2, LedgerTypes DEF Reservations
  <2>4. [R EXCEPT ![s][k][g].claims = {}, ![s][k][g].released = TRUE]
          = [R EXCEPT ![s][k] = [R[s][k] EXCEPT ![g] = r]]
    BY <2>3
  <2> QED
    BY <2>1, <2>2, <2>4, Zenon
<1>6. /\ reservations' \in [{"ws"} -> [{"key"} -> Seq(Quota!Reservation)]]
      /\ Quota!Owned(Reservations)'
      /\ Len(Reservations)' = Len(Reservations)
      /\ \A h \in 1..Len(Reservations) :
           Reservations[h]' = IF h = g THEN r ELSE Reservations[h]
  BY <1>4, <1>5, ChangeOwned
<1>7. Reservations[g].units \in Nat
  BY <1>2 DEF Quota!Reservation
<1>8. usage' = [usage EXCEPT !["ws"] = IF usage["ws"] > Reservations[g].units
                                       THEN usage["ws"] - Reservations[g].units ELSE 0]
  BY DEF Quota!Release, Quota!Uncharge, Reservations
<1>9. usage' \in [{"ws"} -> Nat]
  BY <1>1, <1>7, <1>8
<1> QED
  BY <1>6, <1>9

\* An attempt that gives its claim back leaves the others theirs.
LEMMA AbandonStep ==
  ASSUME TypeOK, Quota!Owned(Reservations), NEW a \in Attempt,
         NEW g \in 1..Len(Reservations), Quota!Abandon("ws", "key", g, a)
  PROVE  LedgerMoves(a)
<1>1. /\ Reservations \in Seq(Quota!Reservation) /\ usage \in [{"ws"} -> Nat]
      /\ Len(Reservations) \in Nat
  BY LedgerTypes
<1>2. Reservations[g] \in Quota!Reservation /\ a \in Reservations[g].claims
  BY <1>1 DEF Quota!Abandon, Reservations
<1>3. ~Reservations[g].released /\ g = Len(Reservations)
  BY <1>1, <1>2 DEF Quota!Owned, Quota!Reservation
<1>4. CASE Reservations[g].claims = {a}
  <2>1. Quota!Release("ws", "key", g)
    BY <1>4 DEF Quota!Abandon, Reservations
  <2>2. /\ usage' \in [{"ws"} -> Nat]
        /\ reservations' \in [{"ws"} -> [{"key"} -> Seq(Quota!Reservation)]]
        /\ Quota!Owned(Reservations)'
        /\ Len(Reservations)' = Len(Reservations)
        /\ \A h \in 1..Len(Reservations) : h # g => Reservations[h]' = Reservations[h]
    BY <2>1, ReleaseStep
  <2>3. ASSUME NEW b \in Attempt \ {a}, NEW h \in 1..Len(Reservations),
               b \in Reservations[h].claims
        PROVE  b \in Reservations[h].claims'
    BY <1>4, <2>2, <2>3
  <2> QED
    BY <1>1, <2>2, <2>3 DEF LedgerMoves
<1>5. CASE Reservations[g].claims # {a}
  <2>1. PICK r : r = [Reservations[g] EXCEPT !.claims = @ \ {a}]
    OBVIOUS
  <2>2. /\ r \in Quota!Reservation /\ ~r.released /\ r.claims # {}
        /\ r.claims = Reservations[g].claims \ {a}
    BY <1>2, <1>3, <1>5, <2>1 DEF Quota!Reservation
  <2>3. reservations' = [reservations EXCEPT !["ws"]["key"] = [@ EXCEPT ![g] = r]]
    BY <1>1, <1>5, <2>1, LedgerTypes DEF Quota!Abandon, Reservations
  <2>4. /\ reservations' \in [{"ws"} -> [{"key"} -> Seq(Quota!Reservation)]]
        /\ Quota!Owned(Reservations)'
        /\ Len(Reservations)' = Len(Reservations)
        /\ \A h \in 1..Len(Reservations) :
             Reservations[h]' = IF h = g THEN r ELSE Reservations[h]
    BY <1>3, <2>2, <2>3, ChangeOwned
  <2>5. usage' = usage
    BY <1>5 DEF Quota!Abandon, Reservations
  <2> QED
    BY <1>1, <2>2, <2>4, <2>5 DEF LedgerMoves
<1> QED
  BY <1>4, <1>5

\* An admission joins the charged reservation or makes a new one, and takes
\* nobody's claim.
LEMMA AdmitStep ==
  ASSUME TypeOK, Quota!Owned(Reservations), NEW a \in Attempt, Admit(a)
  PROVE  /\ LedgerMoves(a)
         /\ AdmittedTo \in 1..Len(Reservations')
         /\ a \in Reservations'[AdmittedTo].claims
<1>1. /\ Reservations \in Seq(Quota!Reservation) /\ usage \in [{"ws"} -> Nat]
      /\ usage["ws"] \in Nat /\ Len(Reservations) \in Nat
  BY LedgerTypes
<1>2. AdmittedTo = Len(Reservations)'
  BY DEF AdmittedTo, Reservations
<1>3. CASE Quota!Join("ws", "key", 1, a)
  <2>0. PICK g : g = Len(Reservations)
    OBVIOUS
  <2>1. g \in 1..Len(Reservations) /\ ~Reservations[g].released
    BY <1>1, <1>3, <2>0 DEF Quota!Join, Quota!Charged, Quota!Made, Reservations
  <2>2. Reservations[g] \in Quota!Reservation
    BY <1>1, <2>1
  <2>3. PICK r : r = [Reservations[g] EXCEPT !.claims = @ \cup {a}]
    OBVIOUS
  <2>4. /\ r \in Quota!Reservation /\ ~r.released /\ r.claims # {}
        /\ r.claims = Reservations[g].claims \cup {a}
    BY <2>1, <2>2, <2>3 DEF Quota!Reservation
  <2>5. reservations' = [reservations EXCEPT !["ws"]["key"] = [@ EXCEPT ![g] = r]]
    BY <1>1, <1>3, <2>0, <2>3, LedgerTypes DEF Quota!Join, Quota!Made, Reservations
  <2>6. usage' = usage
    BY <1>3 DEF Quota!Join
  <2>7. /\ reservations' \in [{"ws"} -> [{"key"} -> Seq(Quota!Reservation)]]
        /\ Quota!Owned(Reservations)'
        /\ Len(Reservations)' = Len(Reservations)
        /\ \A h \in 1..Len(Reservations) :
             Reservations[h]' = IF h = g THEN r ELSE Reservations[h]
    BY <2>0, <2>1, <2>4, <2>5, ChangeOwned
  <2>8. AdmittedTo = g
    BY <1>2, <2>0, <2>7
  <2>9. a \in Reservations'[AdmittedTo].claims
    BY <2>1, <2>4, <2>7, <2>8
  <2> QED
    BY <1>1, <1>2, <2>1, <2>4, <2>6, <2>7, <2>8, <2>9 DEF LedgerMoves
<1>4. CASE Quota!Reserve("ws", "key", 1, a)
  <2>1. PICK r : r = [units |-> 1, claims |-> {a}, released |-> FALSE]
    OBVIOUS
  <2>2. r \in Quota!Reservation /\ ~r.released /\ r.claims = {a}
    BY <2>1 DEF Quota!Reservation
  <2>3. Len(Reservations) = 0 \/ Reservations[Len(Reservations)].released
    BY <1>1, <1>4 DEF Quota!Reserve, Quota!Charged, Quota!Made, Reservations
  <2>4. reservations' = [reservations EXCEPT !["ws"]["key"] = Append(Reservations, r)]
    BY <1>4, <2>1 DEF Quota!Reserve, Reservations
  <2>5. Append(Reservations, r) \in Seq(Quota!Reservation)
    BY <1>1, <2>2
  <2>6. /\ reservations' \in [{"ws"} -> [{"key"} -> Seq(Quota!Reservation)]]
        /\ Reservations' = Append(Reservations, r)
    BY <2>4, <2>5, KeyChanged
  <2>7. /\ Len(Reservations)' = Len(Reservations) + 1
        /\ Reservations'[Len(Reservations) + 1] = r
        /\ \A h \in 1..Len(Reservations) : Reservations[h]' = Reservations[h]
    <3>1. PICK rs : rs = Reservations
      OBVIOUS
    <3>2. /\ Len(Append(rs, r)) = Len(rs) + 1
          /\ Append(rs, r)[Len(rs) + 1] = r
          /\ \A h \in 1..Len(rs) : Append(rs, r)[h] = rs[h]
      BY <1>1, <2>2, <3>1, AppendProperties
    <3> QED
      BY <2>6, <3>1, <3>2
  <2>8. Quota!Owned(Reservations)'
    <3> SUFFICES ASSUME NEW h \in 1..Len(Reservations)'
                 PROVE  /\ ~Reservations[h].released' =>
                             h = Len(Reservations)' /\ Reservations[h].claims' # {}
                        /\ Reservations[h].released' => Reservations[h].claims' = {}
      BY DEF Quota!Owned
    <3>1. CASE h \in 1..Len(Reservations)
      BY <1>1, <2>3, <2>7, <3>1 DEF Quota!Owned
    <3>2. CASE h = Len(Reservations) + 1
      BY <2>2, <2>7, <2>6, <3>2
    <3> QED
      BY <1>1, <2>7, <3>1, <3>2
  <2>9. usage' = [usage EXCEPT !["ws"] = @ + 1]
    BY <1>4 DEF Quota!Reserve
  <2>10. usage' \in [{"ws"} -> Nat]
    BY <1>1, <2>9
  <2>11. a \in Reservations'[AdmittedTo].claims
    BY <1>1, <1>2, <2>2, <2>6, <2>7
  <2> QED
    BY <1>1, <1>2, <2>6, <2>7, <2>8, <2>10, <2>11 DEF LedgerMoves
<1> QED
  BY <1>3, <1>4 DEF Admit

---------------------------------------------------------------------------
(* The calls.                                                              *)

\* A step of a moves no other call.
Moved(a) ==
  /\ call' \in [Attempt -> CallState]
  /\ \A b \in Attempt \ {a} : call'[b] = call[b]

Kept(a) ==
  /\ call'[a].seen = call[a].seen
  /\ call'[a].mine = call[a].mine
  /\ call'[a].created = call[a].created

\* Goto changes one place of one call.
LEMMA GotoMoves ==
  ASSUME call \in [Attempt -> CallState], NEW a \in Attempt, NEW pc \in Step, Goto(a, pc)
  PROVE  /\ Moved(a) /\ Kept(a)
         /\ call'[a].pc = pc /\ call'[a].result = call[a].result
         /\ call'[a].definite = call[a].definite
<1>1. PICK c : c = call[a]
  OBVIOUS
<1>2. PICK d : d = [c EXCEPT !.pc = pc]
  OBVIOUS
<1>3. c \in CallState
  BY <1>1
<1>4. /\ d \in CallState /\ d.pc = pc /\ d.seen = c.seen /\ d.mine = c.mine
      /\ d.created = c.created /\ d.definite = c.definite /\ d.result = c.result
  BY <1>2, <1>3 DEF CallState
<1>5. call' = [call EXCEPT ![a] = d]
  BY <1>1, <1>2 DEF Goto
<1> QED
  BY <1>1, <1>4, <1>5 DEF Moved, Kept

\* A call that ends keeps what it held.
LEMMA EndsMoves ==
  ASSUME call \in [Attempt -> CallState], NEW a \in Attempt, NEW r \in Result, Ends(a, r)
  PROVE  Moved(a) /\ Kept(a) /\ call'[a].pc = "done" /\ call'[a].result = r
<1>1. PICK c : c = call[a]
  OBVIOUS
<1>2. PICK d : d = [c EXCEPT !.pc = "done", !.result = r]
  OBVIOUS
<1>3. c \in CallState
  BY <1>1
<1>4. /\ d \in CallState /\ d.pc = "done" /\ d.seen = c.seen /\ d.mine = c.mine
      /\ d.created = c.created /\ d.result = r
  BY <1>2, <1>3 DEF CallState, Step
<1>5. call' = [call EXCEPT ![a] = d]
  BY <1>1, <1>2 DEF Ends
<1> QED
  BY <1>1, <1>4, <1>5 DEF Moved, Kept

\* A store call that raises changes the place and what kind of error it was.
LEMMA RaisesMoves ==
  ASSUME call \in [Attempt -> CallState], NEW a \in Attempt, NEW pc \in Step,
         NEW definite \in BOOLEAN, Raises(a, pc, definite)
  PROVE  /\ Moved(a) /\ Kept(a)
         /\ call'[a].pc = pc /\ call'[a].result = call[a].result
         /\ call'[a].definite = definite
<1>1. PICK c : c = call[a]
  OBVIOUS
<1>2. PICK d : d = [c EXCEPT !.pc = pc, !.definite = definite]
  OBVIOUS
<1>3. c \in CallState
  BY <1>1
<1>4. /\ d \in CallState /\ d.pc = pc /\ d.seen = c.seen /\ d.mine = c.mine
      /\ d.created = c.created /\ d.definite = definite /\ d.result = c.result
  BY <1>2, <1>3 DEF CallState
<1>5. call' = [call EXCEPT ![a] = d]
  BY <1>1, <1>2 DEF Raises
<1> QED
  BY <1>1, <1>4, <1>5 DEF Moved, Kept

\* A fault is counted.
LEMMA FaultBounded ==
  ASSUME TypeOK, NEW kind, Fault(kind)
  PROVE  faults' \in 0..MaxFaults /\ faults' # 0
BY AdmissionAssumption DEF TypeOK, Fault

---------------------------------------------------------------------------
(* What a step owes to the first invariant.                                *)

\* The stores go on, and take nothing back.
Onward ==
  /\ cp1.status # "absent" => cp1'.status # "absent" /\ cp1'.names = cp1.names
  /\ cp3.status # "absent" => cp3'.status # "absent" /\ cp3'.names = cp3.names
  /\ cp3.status = "settled" => cp3'.status = "settled"

Receipt == [status : {"absent", "accepted", "cancel_requested"}, names : Nat]

Row == [status : {"absent", "closed", "settled"} \cup Open, names : Nat,
        via : {"none", "created", "replayed", "recovered"}]

StoresTyped ==
  /\ cp1' \in Receipt /\ cp3' \in Row /\ leased' \in BOOLEAN
  /\ user' \in {"idle", "cancelled", "acknowledged"} /\ faults' \in 0..MaxFaults

\* A step that leaves the quota alone keeps what the quota owes.
LEMMA LedgerStays ==
  ASSUME TypeOK, Quota!Owned(Reservations), NEW a, UNCHANGED quotaVars
  PROVE  LedgerMoves(a) /\ Reservations' = Reservations
<1>1. usage' = usage /\ reservations' = reservations
  BY DEF quotaVars
<1>2. Reservations' = Reservations
  BY <1>1 DEF Reservations
<1>3. Quota!Owned(Reservations)'
  BY <1>2 DEF Quota!Owned
<1> QED
  BY <1>1, <1>2, <1>3, LedgerTypes DEF LedgerMoves

\* A step of one call.
LEMMA ChargeStep ==
  ASSUME ChargeInv, NEW a \in Attempt, Moved(a), LedgerMoves(a), Onward, StoresTyped,
         call[a].pc \in Relying /\ cp3.status # "absent" =>
           call'[a].pc \in Relying /\ UNCHANGED quotaVars,
         \/ cp3'.status \in Active => cp3.status \in Active
         \/ call'[a].pc \in Relying /\ a \in Reservations'[cp3'.names].claims,
         ReceiptNames', RowMatchesReceipt', ClaimHeld(a)', ReceiptSeen(a)'
  PROVE  ChargeInv'
<1>1. /\ TypeOK /\ ReceiptNames /\ RowMatchesReceipt /\ CallsHold /\ RowIsClaimed
      /\ Quota!Owned(Reservations)
  BY DEF ChargeInv
<1>2. Len(Reservations) \in Nat /\ Len(Reservations)' \in Nat
  BY <1>1, LedgerTypes DEF LedgerMoves, Reservations
<1>3. TypeOK'
  BY <1>1 DEF TypeOK, Quota!TypeOK, Quota!LedgerTypeOK, LedgerMoves, Moved, StoresTyped,
              Receipt, Row
<1>4. CallsHold'
  <2> SUFFICES ASSUME NEW b \in Attempt, b # a PROVE ClaimHeld(b)' /\ ReceiptSeen(b)'
    BY DEF CallsHold
  <2>1. call'[b] = call[b] /\ ClaimHeld(b) /\ ReceiptSeen(b)
    BY <1>1 DEF Moved, CallsHold
  <2>2. ClaimHeld(b)'
    BY <1>2, <2>1 DEF ClaimHeld, LedgerMoves, Onward
  <2>3. ReceiptSeen(b)'
    BY <2>1 DEF ReceiptSeen, Onward
  <2> QED
    BY <2>2, <2>3
<1>5. RowIsClaimed'
  <2> SUFFICES ASSUME cp3'.status \in Active
               PROVE  \E b \in Attempt :
                        call'[b].pc \in Relying /\ b \in Reservations'[cp3'.names].claims
    BY DEF RowIsClaimed
  <2>1. CASE cp3.status \in Active
    <3>1. PICK b \in Attempt :
            call[b].pc \in Relying /\ b \in Reservations[cp3.names].claims
      BY <1>1, <2>1 DEF RowIsClaimed
    <3>2. cp3.status # "absent"
      BY <2>1 DEF Active, Open
    <3>3. cp3'.names = cp3.names /\ cp3.names \in 1..Len(Reservations)
      BY <1>1, <3>2 DEF Onward, RowMatchesReceipt, ReceiptNames
    <3>4. CASE b = a
      <4>1. call'[b].pc \in Relying /\ Reservations' = Reservations
        BY <3>1, <3>2, <3>4 DEF quotaVars, Reservations
      <4> QED
        BY <3>1, <3>3, <4>1
    <3>5. CASE b # a
      <4>1. call'[b] = call[b]
        BY <3>5 DEF Moved
      <4>2. b \in Reservations[cp3.names].claims => b \in Reservations'[cp3.names].claims
        BY <3>3, <3>5 DEF LedgerMoves
      <4> QED
        BY <3>1, <3>3, <4>1, <4>2
    <3> QED
      BY <3>4, <3>5
  <2>2. CASE call'[a].pc \in Relying /\ a \in Reservations'[cp3'.names].claims
    BY <2>2
  <2> QED
    BY <2>1, <2>2
<1> QED
  BY <1>3, <1>4, <1>5 DEF ChargeInv, LedgerMoves

\* A step of one call that leaves quota, receipt and row alone.
LEMMA QuietStep ==
  ASSUME ChargeInv, NEW a \in Attempt, Moved(a), Kept(a),
         UNCHANGED <<usage, reservations, cp1, cp3, user>>,
         leased' \in BOOLEAN, faults' \in 0..MaxFaults,
         call[a].pc \in Relying /\ cp3.status # "absent" => call'[a].pc \in Relying,
         call'[a].pc \in Holding => call[a].pc \in Holding,
         ReceiptSeen(a)'
  PROVE  ChargeInv'
<1>1. /\ TypeOK /\ ReceiptNames /\ RowMatchesReceipt /\ CallsHold
      /\ Quota!Owned(Reservations)
  BY DEF ChargeInv
<1>2. LedgerMoves(a) /\ Reservations' = Reservations
  BY <1>1, LedgerStays DEF quotaVars
<1>3. Onward
  BY DEF Onward
<1>4. StoresTyped
  BY <1>1 DEF StoresTyped, TypeOK, Receipt, Row
<1>5. ReceiptNames' /\ RowMatchesReceipt'
  BY <1>1, <1>2 DEF ReceiptNames, RowMatchesReceipt
<1>6. ClaimHeld(a)'
  <2>1. ClaimHeld(a)
    BY <1>1 DEF CallsHold
  <2> QED
    BY <1>2, <2>1 DEF ClaimHeld, Kept
<1>7. call[a].pc \in Relying /\ cp3.status # "absent" =>
        call'[a].pc \in Relying /\ UNCHANGED quotaVars
  BY DEF quotaVars
<1>8. cp3'.status \in Active => cp3.status \in Active
  OBVIOUS
<1> QED
  BY <1>2, <1>3, <1>4, <1>5, <1>6, <1>7, <1>8, ChargeStep

\* A step of the worker or the user.
LEMMA StoreStep ==
  ASSUME ChargeInv, UNCHANGED <<usage, reservations, call, leased, faults>>, Onward,
         cp1' \in Receipt, cp3' \in Row, user' \in {"idle", "cancelled", "acknowledged"},
         cp1'.names = cp1.names,
         cp1'.status = "absent" => cp1.status = "absent",
         cp1.status = "absent" => cp1'.status = "absent",
         cp3'.status = "absent" => cp3.status = "absent",
         cp3.status = "absent" => cp3'.status = "absent",
         cp3'.status \in Active => cp3.status \in Active
  PROVE  ChargeInv'
<1>1. /\ TypeOK /\ ReceiptNames /\ RowMatchesReceipt /\ CallsHold /\ RowIsClaimed
      /\ Quota!Owned(Reservations)
  BY DEF ChargeInv
<1>2. Reservations' = Reservations
  BY DEF Reservations
<1>3. TypeOK'
  BY <1>1 DEF TypeOK, Quota!TypeOK, Quota!LedgerTypeOK, Receipt, Row
<1>4. Quota!Owned(Reservations)'
  BY <1>1, <1>2 DEF Quota!Owned
<1>5. ReceiptNames' /\ RowMatchesReceipt'
  BY <1>1, <1>2 DEF ReceiptNames, RowMatchesReceipt, Onward
<1>6. CallsHold'
  BY <1>1, <1>2 DEF CallsHold, ClaimHeld, ReceiptSeen, Onward
<1>7. RowIsClaimed'
  <2>1. cp3.status \in Active => cp3'.names = cp3.names
    BY DEF Onward, Active, Open
  <2> QED
    BY <1>1, <1>2, <2>1 DEF RowIsClaimed
<1> QED
  BY <1>3, <1>4, <1>5, <1>6, <1>7 DEF ChargeInv

---------------------------------------------------------------------------
(* The steps of a call keep the first invariant.                           *)

\* What the first invariant says of one call and of the stores.
LEMMA CallTypes ==
  ASSUME ChargeInv, NEW a \in Attempt
  PROVE  /\ TypeOK /\ Quota!Owned(Reservations) /\ ReceiptNames /\ RowMatchesReceipt
         /\ ClaimHeld(a) /\ ReceiptSeen(a)
         /\ call \in [Attempt -> CallState] /\ call[a] \in CallState
         /\ call[a].seen \in Nat /\ call[a].mine \in Nat
         /\ cp1 \in Receipt /\ cp3 \in Row /\ leased \in BOOLEAN
         /\ user \in {"idle", "cancelled", "acknowledged"} /\ faults \in 0..MaxFaults
         /\ Len(Reservations) \in Nat
<1>1. TypeOK /\ CallsHold
  BY DEF ChargeInv
<1>2. call \in [Attempt -> CallState] /\ call[a] \in CallState
  BY <1>1 DEF TypeOK
<1>3. call[a].seen \in Nat /\ call[a].mine \in Nat
  BY <1>2 DEF CallState
<1> QED
  BY <1>1, <1>2, <1>3, LedgerTypes DEF ChargeInv, CallsHold, TypeOK, Receipt, Row

\* A quiet step to another place.
LEMMA QuietGoto ==
  ASSUME ChargeInv, NEW a \in Attempt, NEW pc \in Step, Goto(a, pc),
         UNCHANGED <<usage, reservations, cp1, cp3, user>>,
         leased' \in BOOLEAN, faults' \in 0..MaxFaults,
         call[a].pc \in Relying /\ cp3.status # "absent" => pc \in Relying,
         pc \in Holding => call[a].pc \in Holding,
         pc \notin {"check", "readmit", "recheck", "restore", "durable", "durable_error",
                    "rebind"}
  PROVE  ChargeInv'
<1>1. ReceiptSeen(a) /\ call \in [Attempt -> CallState]
  BY CallTypes
<1>2. Moved(a) /\ Kept(a) /\ call'[a].pc = pc
  BY <1>1, GotoMoves
<1>3. ReceiptSeen(a)'
  BY <1>1, <1>2 DEF ReceiptSeen, Kept
<1> QED
  BY <1>2, <1>3, QuietStep

\* A call may end at any point.
LEMMA QuietEnd ==
  ASSUME ChargeInv, NEW a \in Attempt, NEW r \in Result, Ends(a, r),
         UNCHANGED <<usage, reservations, cp1, cp3, user>>,
         leased' \in BOOLEAN, faults' \in 0..MaxFaults
  PROVE  ChargeInv'
<1>1. ReceiptSeen(a) /\ call \in [Attempt -> CallState]
  BY CallTypes
<1>2. Moved(a) /\ Kept(a) /\ call'[a].pc = "done"
  BY <1>1, EndsMoves
<1>3. ReceiptSeen(a)'
  BY <1>1, <1>2 DEF ReceiptSeen, Kept
<1> QED
  BY <1>2, <1>3, QuietStep DEF Relying, Holding

\* Lookup.
LEMMA LookupMoves ==
  ASSUME ChargeInv, NEW a \in Attempt, LookupReceipt(a)
  PROVE  /\ Moved(a) /\ call'[a].pc = "looked" /\ call'[a].seen = cp1.names
         /\ call'[a].mine = call[a].mine /\ call'[a].created = call[a].created
         /\ call'[a].result = call[a].result
<1>1. PICK c : c = call[a]
  OBVIOUS
<1>2. PICK d : d = [c EXCEPT !.pc = "looked", !.seen = cp1.names]
  OBVIOUS
<1>3. /\ d \in CallState /\ d.pc = "looked" /\ d.seen = cp1.names /\ d.mine = c.mine
      /\ d.created = c.created /\ d.result = c.result
  BY <1>1, <1>2, CallTypes DEF CallState, Step, Receipt
<1>4. call' = [call EXCEPT ![a] = d]
  BY <1>1, <1>2 DEF LookupReceipt
<1> QED
  BY <1>1, <1>3, <1>4, CallTypes DEF Moved

\* The receipt that was read stays the receipt of the command.
LEMMA LookupReceiptKeeps ==
  ASSUME ChargeInv, NEW a \in Attempt, LookupReceipt(a) PROVE ChargeInv'
<1>1. /\ ReceiptNames /\ cp1 \in Receipt /\ leased \in BOOLEAN /\ ReceiptSeen(a)
      /\ TypeOK /\ Quota!Owned(Reservations) /\ RowMatchesReceipt
  BY CallTypes
<1>2. /\ Moved(a) /\ call'[a].pc = "looked" /\ call'[a].seen = cp1.names
      /\ call'[a].mine = call[a].mine
  BY LookupMoves
<1>3. UNCHANGED <<usage, reservations, cp1, cp3, user, leased, faults>>
  BY DEF LookupReceipt, quotaVars, storeVars
<1>4. ReceiptSeen(a)'
  BY <1>1, <1>2, <1>3 DEF ReceiptSeen, ReceiptNames, Receipt
<1>5. ClaimHeld(a)'
  BY <1>2 DEF ClaimHeld, Holding
<1>6. LedgerMoves(a) /\ Reservations' = Reservations
  BY <1>1, <1>3, LedgerStays DEF quotaVars
<1>7. ReceiptNames' /\ RowMatchesReceipt' /\ Onward
  BY <1>1, <1>3, <1>6 DEF ReceiptNames, RowMatchesReceipt, Onward
<1>8. StoresTyped
  BY <1>3, CallTypes DEF StoresTyped
<1>9. call[a].pc \notin Relying
  BY DEF LookupReceipt, At, Relying
<1> QED
  BY <1>2, <1>3, <1>4, <1>5, <1>6, <1>7, <1>8, <1>9, ChargeStep

\* What was found decides where the call goes.
LEMMA LookupDurableKeeps ==
  ASSUME ChargeInv, NEW a \in Attempt, LookupDurable(a) PROVE ChargeInv'
<1>1. /\ ReceiptSeen(a) /\ call \in [Attempt -> CallState] /\ call[a].seen \in Nat
      /\ leased \in BOOLEAN /\ faults \in 0..MaxFaults
  BY CallTypes
<1>2. call[a].pc = "looked" /\ UNCHANGED <<usage, reservations, cp1, cp3, user, leased, faults>>
  BY DEF LookupDurable, At, quotaVars, storeVars
<1>3. CASE Ends(a, "accepted")
  BY <1>1, <1>2, <1>3, QuietEnd DEF Result
<1>4. CASE Goto(a, "check") /\ call[a].seen > 0
  <2>1. Moved(a) /\ Kept(a) /\ call'[a].pc = "check"
    BY <1>1, <1>4, GotoMoves DEF Step
  <2>2. ReceiptSeen(a)'
    BY <1>1, <1>2, <1>4, <2>1 DEF ReceiptSeen, Kept
  <2> QED
    BY <1>1, <1>2, <2>1, <2>2, QuietStep DEF Relying, Holding
<1>5. CASE Goto(a, "rebind") /\ cp3.status # "absent"
  <2>1. Moved(a) /\ Kept(a) /\ call'[a].pc = "rebind"
    BY <1>1, <1>5, GotoMoves DEF Step
  <2>2. ReceiptSeen(a)'
    BY <1>1, <1>2, <1>5, <2>1 DEF ReceiptSeen, Kept
  <2> QED
    BY <1>1, <1>2, <2>1, <2>2, QuietStep DEF Relying, Holding
<1>6. CASE Goto(a, "gate")
  BY <1>1, <1>2, <1>6, QuietGoto DEF Step, Relying, Holding
<1>7. \/ Ends(a, "accepted")
      \/ Goto(a, "check") /\ call[a].seen > 0
      \/ Goto(a, "rebind") /\ cp3.status # "absent"
      \/ Goto(a, "gate")
  BY DEF LookupDurable
<1> QED
  BY <1>3, <1>4, <1>5, <1>6, <1>7

\* The row was found, so its receipt exists: rebinding finds it.
LEMMA RebindKeeps ==
  ASSUME ChargeInv, NEW a \in Attempt, Rebind(a) PROVE ChargeInv'
<1>1. ReceiptSeen(a) /\ RowMatchesReceipt /\ leased \in BOOLEAN /\ faults \in 0..MaxFaults
  BY CallTypes
<1>2. call[a].pc = "rebind" /\ UNCHANGED <<usage, reservations, cp3, user, leased, faults>>
  BY DEF Rebind, At, quotaVars
<1>3. cp1.status # "absent"
  BY <1>1, <1>2 DEF ReceiptSeen, RowMatchesReceipt
<1>4. cp1' = cp1
  BY <1>3 DEF Rebind
<1>5. Ends(a, "accepted") \/ Ends(a, "rejected")
  BY DEF Rebind
<1>6. CASE Ends(a, "accepted")
  BY <1>1, <1>2, <1>4, <1>6, QuietEnd DEF Result
<1>7. CASE Ends(a, "rejected")
  BY <1>1, <1>2, <1>4, <1>7, QuietEnd DEF Result
<1> QED
  BY <1>5, <1>6, <1>7

\* A call that was admitted holds a claim where it goes.
LEMMA AdmittedStep ==
  ASSUME ChargeInv, NEW a \in Attempt, Admit(a), Moved(a),
         UNCHANGED <<cp1, cp3, leased, user>>, faults' \in 0..MaxFaults,
         call[a].pc \notin Relying,
         call'[a].pc \in Holding => call'[a].mine = AdmittedTo,
         ReceiptSeen(a)'
  PROVE  ChargeInv'
<1>1. /\ TypeOK /\ Quota!Owned(Reservations) /\ ReceiptNames /\ RowMatchesReceipt
      /\ Len(Reservations) \in Nat
  BY CallTypes
<1>2. /\ LedgerMoves(a)
      /\ AdmittedTo \in 1..Len(Reservations')
      /\ a \in Reservations'[AdmittedTo].claims
  BY <1>1, AdmitStep
<1>3. Len(Reservations)' = Len(Reservations')
  OBVIOUS
<1>4. ClaimHeld(a)'
  BY <1>2 DEF ClaimHeld
<1>5. ReceiptNames'
  <2>1. Len(Reservations') \in Nat
    BY <1>2, LedgerTypes DEF LedgerMoves, Reservations
  <2> QED
    BY <1>1, <1>2, <2>1 DEF ReceiptNames, LedgerMoves
<1>6. RowMatchesReceipt' /\ Onward
  BY <1>1 DEF RowMatchesReceipt, Onward
<1>7. StoresTyped
  BY CallTypes DEF StoresTyped
<1> QED
  BY <1>2, <1>4, <1>5, <1>6, <1>7, ChargeStep

\* An admission names a reservation.
LEMMA AdmittedIndex ==
  ASSUME ChargeInv, NEW a \in Attempt, Admit(a)
  PROVE  AdmittedTo \in Nat
<1>1. AdmittedTo \in 1..Len(Reservations') /\ LedgerMoves(a)
  BY CallTypes, AdmitStep
<1>2. Len(Reservations') \in Nat
  BY <1>1 DEF LedgerMoves, Reservations
<1> QED
  BY <1>1, <1>2

\* A call that passes the gate remembers its reservation.
LEMMA GateMoves ==
  ASSUME ChargeInv, NEW a \in Attempt, Admit(a),
         call' = [call EXCEPT ![a].pc = "inputs", ![a].mine = AdmittedTo]
  PROVE  /\ Moved(a) /\ call'[a].pc = "inputs" /\ call'[a].mine = AdmittedTo
         /\ call'[a].seen = call[a].seen /\ call'[a].created = call[a].created
         /\ call'[a].result = call[a].result
<1>1. PICK c, g : c = call[a] /\ g = AdmittedTo
  OBVIOUS
<1>2. PICK d : d = [c EXCEPT !.pc = "inputs", !.mine = g]
  OBVIOUS
<1>3. c \in CallState /\ g \in Nat
  BY <1>1, CallTypes, AdmittedIndex
<1>4. /\ d \in CallState /\ d.pc = "inputs" /\ d.mine = g /\ d.seen = c.seen
      /\ d.created = c.created /\ d.result = c.result
  BY <1>2, <1>3 DEF CallState, Step
<1>5. call' = [call EXCEPT ![a] = d]
  BY <1>1, <1>2
<1> QED
  BY <1>1, <1>4, <1>5, CallTypes DEF Moved

\* The gate admits, refuses, or fails after it admitted.
LEMMA GateKeeps ==
  ASSUME ChargeInv, NEW a \in Attempt, Gate(a) PROVE ChargeInv'
<1>1. /\ TypeOK /\ ReceiptSeen(a) /\ leased \in BOOLEAN /\ faults \in 0..MaxFaults
      /\ Quota!Owned(Reservations) /\ call \in [Attempt -> CallState]
      /\ call[a] \in CallState
  BY CallTypes
<1>2. call[a].pc = "gate" /\ UNCHANGED <<cp1, cp3, leased, user>>
  BY DEF Gate, At, storeVars
<1>3. call[a].pc \notin Relying
  BY <1>2 DEF Relying
<1>4. CASE Admit(a) /\ call' = [call EXCEPT ![a].pc = "inputs", ![a].mine = AdmittedTo]
            /\ UNCHANGED faults
  <2>1. /\ Moved(a) /\ call'[a].pc = "inputs" /\ call'[a].mine = AdmittedTo
        /\ call'[a].seen = call[a].seen
    BY <1>4, GateMoves
  <2>2. ReceiptSeen(a)'
    BY <1>1, <1>2, <2>1 DEF ReceiptSeen
  <2> QED
    BY <1>1, <1>2, <1>3, <1>4, <2>1, <2>2, AdmittedStep
<1>5. CASE Ends(a, "rejected") /\ UNCHANGED <<quotaVars, faults>>
  BY <1>1, <1>2, <1>5, QuietEnd DEF Result, quotaVars
<1>6. CASE Admit(a) /\ Fault("admit") /\ Ends(a, "uncertain")
  <2>1. Moved(a) /\ Kept(a) /\ call'[a].pc = "done"
    BY <1>1, <1>6, EndsMoves DEF Result
  <2>2. faults' \in 0..MaxFaults
    BY <1>1, <1>6, FaultBounded
  <2>3. ReceiptSeen(a)'
    BY <1>1, <1>2, <2>1 DEF ReceiptSeen, Kept
  <2>4. call'[a].pc \notin Holding
    BY <2>1 DEF Holding
  <2> QED
    BY <1>2, <1>3, <1>6, <2>1, <2>2, <2>3, <2>4, AdmittedStep
<1> QED
  BY <1>4, <1>5, <1>6 DEF Gate

\* Leasing and releasing inputs moves no claim.
LEMMA InputsKeep ==
  ASSUME ChargeInv, NEW a \in Attempt,
         ProtectInputs(a) \/ AcceptanceGuard(a) \/ ReleaseInputs(a)
  PROVE  ChargeInv'
<1>1. TypeOK /\ leased \in BOOLEAN /\ faults \in 0..MaxFaults
  BY CallTypes
<1>2. UNCHANGED <<usage, reservations, cp1, cp3, user>>
  BY DEF ProtectInputs, AcceptanceGuard, ReleaseInputs, quotaVars, storeVars
<1>3. call[a].pc \in {"inputs", "guard", "release_inputs"}
  BY DEF ProtectInputs, AcceptanceGuard, ReleaseInputs, At
<1>4. leased' \in BOOLEAN /\ faults' \in 0..MaxFaults
  BY <1>1, FaultBounded DEF ProtectInputs, AcceptanceGuard, ReleaseInputs, storeVars
<1>5. \/ Goto(a, "guard") \/ Goto(a, "abandon") \/ Goto(a, "receipt")
      \/ Goto(a, "release_inputs") \/ Ends(a, "uncertain")
  BY DEF ProtectInputs, AcceptanceGuard, ReleaseInputs
<1>6. call[a].pc \in Holding /\ call[a].pc \notin Relying
  BY <1>3 DEF Holding, Relying
<1>7. ASSUME NEW pc \in {"guard", "abandon", "receipt", "release_inputs"}, Goto(a, pc)
      PROVE  ChargeInv'
  BY <1>2, <1>4, <1>6, <1>7, QuietGoto DEF Step
<1>8. CASE Ends(a, "uncertain")
  BY <1>2, <1>4, <1>8, QuietEnd DEF Result
<1> QED
  BY <1>5, <1>7, <1>8

\* The receipt is made, or found, and names the reservation that is held.
LEMMA PutReceiptStep ==
  ASSUME ChargeInv, NEW a \in Attempt, call[a].pc = "receipt", Moved(a),
         call'[a].seen = call[a].seen, call'[a].mine = call[a].mine,
         PutReceipt(a) \/ UNCHANGED cp1,
         UNCHANGED <<usage, reservations, cp3, leased, user>>, faults' \in 0..MaxFaults,
         call'[a].pc \in {"durable", "receipt_error"},
         call'[a].pc = "durable" => cp1'.status # "absent" /\ cp1'.names = call[a].mine
  PROVE  ChargeInv' /\ Onward
<1>1. /\ TypeOK /\ Quota!Owned(Reservations) /\ ReceiptNames /\ RowMatchesReceipt
      /\ ClaimHeld(a) /\ ReceiptSeen(a) /\ cp1 \in Receipt /\ call[a].mine \in Nat
      /\ Len(Reservations) \in Nat
  BY CallTypes
<1>2. LedgerMoves(a) /\ Reservations' = Reservations
  BY <1>1, LedgerStays DEF quotaVars
<1>3. call[a].mine \in 1..Len(Reservations)
  BY <1>1 DEF ClaimHeld, Holding
<1>4. \/ cp1' = cp1
      \/ cp1.status = "absent" /\ cp1' = [status |-> "accepted", names |-> call[a].mine]
  BY DEF PutReceipt
<1>5. cp1' \in Receipt /\ ReceiptNames'
  BY <1>1, <1>2, <1>3, <1>4 DEF Receipt, ReceiptNames
<1>6. RowMatchesReceipt' /\ Onward
  BY <1>1, <1>4 DEF RowMatchesReceipt, Onward
<1>7. StoresTyped
  BY <1>5, CallTypes DEF StoresTyped
<1>8. ClaimHeld(a)'
  BY <1>1, <1>2 DEF ClaimHeld, Holding
<1>9. ReceiptSeen(a)'
  BY <1>1, <1>6 DEF ReceiptSeen, Onward
<1>10. call[a].pc \notin Relying
  BY DEF Relying
<1> QED
  BY <1>2, <1>5, <1>6, <1>7, <1>8, <1>9, <1>10, ChargeStep

\* A call whose receipt was accepted remembers whether it made it.
LEMMA ReceiptMoves ==
  ASSUME ChargeInv, NEW a \in Attempt,
         call' = [call EXCEPT ![a].pc = "durable", ![a].created = cp1.status = "absent"]
  PROVE  /\ Moved(a) /\ call'[a].pc = "durable" /\ call'[a].mine = call[a].mine
         /\ call'[a].seen = call[a].seen /\ call'[a].created = (cp1.status = "absent")
         /\ call'[a].result = call[a].result
<1>1. PICK c, new : c = call[a] /\ new = (cp1.status = "absent")
  OBVIOUS
<1>2. PICK d : d = [c EXCEPT !.pc = "durable", !.created = new]
  OBVIOUS
<1>3. c \in CallState /\ new \in BOOLEAN
  BY <1>1, CallTypes
<1>4. /\ d \in CallState /\ d.pc = "durable" /\ d.mine = c.mine /\ d.seen = c.seen
      /\ d.created = new /\ d.result = c.result
  BY <1>2, <1>3 DEF CallState, Step
<1>5. call' = [call EXCEPT ![a] = d]
  BY <1>1, <1>2
<1> QED
  BY <1>1, <1>4, <1>5, CallTypes DEF Moved

\* The receipt is made, found or refused, or its answer is lost.
LEMMA AcceptReceiptKeeps ==
  ASSUME ChargeInv, NEW a \in Attempt, AcceptReceipt(a) PROVE ChargeInv'
<1>1. /\ TypeOK /\ call \in [Attempt -> CallState] /\ call[a] \in CallState
      /\ faults \in 0..MaxFaults
  BY CallTypes
<1>2. call[a].pc = "receipt" /\ UNCHANGED <<usage, reservations, cp3, leased, user>>
  BY DEF AcceptReceipt, At, quotaVars
<1>3. CASE /\ cp1.status = "absent" \/ cp1.names = call[a].mine
           /\ PutReceipt(a)
           /\ call' = [call EXCEPT ![a].pc = "durable", ![a].created = cp1.status = "absent"]
           /\ UNCHANGED faults
  <2>1. /\ Moved(a) /\ call'[a].pc = "durable" /\ call'[a].mine = call[a].mine
        /\ call'[a].seen = call[a].seen
    BY <1>3, ReceiptMoves
  <2>2. cp1'.status # "absent" /\ cp1'.names = call[a].mine
    BY <1>3 DEF PutReceipt
  <2> QED
    BY <1>1, <1>2, <1>3, <2>1, <2>2, PutReceiptStep
<1>4. ASSUME NEW definite \in BOOLEAN, Raises(a, "receipt_error", definite),
             PutReceipt(a) \/ UNCHANGED cp1, faults' \in 0..MaxFaults
      PROVE  ChargeInv'
  <2>1. Moved(a) /\ Kept(a) /\ call'[a].pc = "receipt_error"
    BY <1>1, <1>4, RaisesMoves DEF Step
  <2> QED
    BY <1>2, <1>4, <2>1, PutReceiptStep DEF Kept
<1>5. CASE /\ cp1.status # "absent" /\ cp1.names # call[a].mine
           /\ Raises(a, "receipt_error", TRUE)
           /\ UNCHANGED <<cp1, faults>>
  BY <1>1, <1>4, <1>5
<1>6. CASE /\ Fault("receipt")
           /\ Raises(a, "receipt_error", FALSE)
           /\ PutReceipt(a) \/ UNCHANGED cp1
  BY <1>1, <1>4, <1>6, FaultBounded
<1> QED
  BY <1>3, <1>5, <1>6 DEF AcceptReceipt

\* A receipt that is found counts only if it names this call's reservation.
LEMMA ReconcileReceiptKeeps ==
  ASSUME ChargeInv, NEW a \in Attempt, ReconcileReceipt(a) PROVE ChargeInv'
<1>1. /\ TypeOK /\ ReceiptSeen(a) /\ leased \in BOOLEAN /\ faults \in 0..MaxFaults
      /\ call \in [Attempt -> CallState]
  BY CallTypes
<1>2. /\ call[a].pc = "receipt_error"
      /\ UNCHANGED <<usage, reservations, cp1, cp3, user, leased>>
  BY DEF ReconcileReceipt, At, quotaVars, storeVars
<1>3. faults' \in 0..MaxFaults
  BY <1>1, FaultBounded DEF ReconcileReceipt
<1>4. call[a].pc \in Holding /\ call[a].pc \notin Relying
  BY <1>2 DEF Holding, Relying
<1>5. CASE Goto(a, "durable") /\ cp1.status # "absent" /\ cp1.names = call[a].mine
  <2>1. Moved(a) /\ Kept(a) /\ call'[a].pc = "durable"
    BY <1>1, <1>5, GotoMoves DEF Step
  <2>2. ReceiptSeen(a)'
    BY <1>1, <1>2, <1>5, <2>1 DEF ReceiptSeen, Kept
  <2> QED
    BY <1>1, <1>2, <1>3, <1>4, <2>1, <2>2, QuietStep
<1>6. CASE Goto(a, "release_inputs")
  BY <1>1, <1>2, <1>3, <1>4, <1>6, QuietGoto DEF Step
<1>7. CASE Ends(a, "uncertain")
  BY <1>1, <1>2, <1>3, <1>7, QuietEnd DEF Result
<1>8. \/ Goto(a, "durable") /\ cp1.status # "absent" /\ cp1.names = call[a].mine
      \/ Goto(a, "release_inputs")
      \/ Ends(a, "uncertain")
  BY DEF ReconcileReceipt
<1> QED
  BY <1>5, <1>6, <1>7, <1>8

\* A row is made of the reservation the call holds, which its receipt names.
LEMMA PutRowStep ==
  ASSUME ChargeInv, NEW a \in Attempt, call[a].pc \in {"durable", "restore"},
         Moved(a), Kept(a), NEW via \in {"created", "replayed", "recovered"},
         \/ UNCHANGED cp3
         \/ PutRow(call[a].mine, via) /\ call'[a].pc \in Relying,
         UNCHANGED <<usage, reservations, cp1, leased, user>>, faults' \in 0..MaxFaults,
         ReceiptSeen(a)'
  PROVE  ChargeInv'
<1>1. /\ TypeOK /\ Quota!Owned(Reservations) /\ ReceiptNames /\ RowMatchesReceipt
      /\ ClaimHeld(a) /\ ReceiptSeen(a) /\ cp3 \in Row /\ call[a].mine \in Nat
  BY CallTypes
<1>2. LedgerMoves(a) /\ Reservations' = Reservations
  BY <1>1, LedgerStays DEF quotaVars
<1>3. call[a].pc \in Holding /\ call[a].pc \notin Relying
  BY DEF Holding, Relying
<1>4. cp1.status # "absent" /\ cp1.names = call[a].mine
  BY <1>1 DEF ReceiptSeen
<1>5. \/ cp3' = cp3
      \/ /\ cp3.status = "absent" /\ call'[a].pc \in Relying
         /\ cp3' = [status |-> "open", names |-> call[a].mine, via |-> via]
  BY DEF PutRow
<1>6. cp3' \in Row /\ RowMatchesReceipt' /\ Onward
  BY <1>1, <1>4, <1>5 DEF Row, Open, RowMatchesReceipt, Onward
<1>7. ReceiptNames'
  BY <1>1, <1>2 DEF ReceiptNames
<1>8. StoresTyped
  BY <1>6, CallTypes DEF StoresTyped
<1>9. ClaimHeld(a)'
  BY <1>1, <1>2, <1>3, <1>6 DEF ClaimHeld, Kept, Onward
<1>10. \/ cp3'.status \in Active => cp3.status \in Active
       \/ call'[a].pc \in Relying /\ a \in Reservations'[cp3'.names].claims
  BY <1>1, <1>2, <1>3, <1>5 DEF ClaimHeld
<1> QED
  BY <1>2, <1>3, <1>6, <1>7, <1>8, <1>9, <1>10, ChargeStep

\* The row is made, found or refused, or its answer is lost.
LEMMA AcceptRowKeeps ==
  ASSUME ChargeInv, NEW a \in Attempt, AcceptRow(a) PROVE ChargeInv'
<1>1. /\ TypeOK /\ ReceiptSeen(a) /\ call \in [Attempt -> CallState]
      /\ faults \in 0..MaxFaults
  BY CallTypes
<1>2. call[a].pc = "durable" /\ UNCHANGED <<usage, reservations, cp1, leased, user>>
  BY DEF AcceptRow, At, quotaVars
<1>3. PICK via \in {"created", "replayed"} : via = IF call[a].created THEN "created" ELSE "replayed"
  OBVIOUS
<1>4. CASE PutRow(call[a].mine, via) /\ Ends(a, "accepted") /\ UNCHANGED faults
  <2>1. Moved(a) /\ Kept(a) /\ call'[a].pc = "done"
    BY <1>1, <1>4, EndsMoves DEF Result
  <2>2. ReceiptSeen(a)'
    BY <1>1, <1>2, <2>1 DEF ReceiptSeen, Kept
  <2> QED
    BY <1>1, <1>2, <1>4, <2>1, <2>2, PutRowStep DEF Relying
<1>5. ASSUME NEW definite \in BOOLEAN, Raises(a, "durable_error", definite),
             PutRow(call[a].mine, via) \/ UNCHANGED cp3, faults' \in 0..MaxFaults
      PROVE  ChargeInv'
  <2>1. Moved(a) /\ Kept(a) /\ call'[a].pc = "durable_error"
    BY <1>1, <1>5, RaisesMoves DEF Step
  <2>2. ReceiptSeen(a)'
    BY <1>1, <1>2, <2>1 DEF ReceiptSeen, Kept
  <2> QED
    BY <1>2, <1>5, <2>1, <2>2, PutRowStep DEF Relying
<1>6. CASE Raises(a, "durable_error", TRUE) /\ UNCHANGED <<cp3, faults>>
  BY <1>1, <1>5, <1>6
<1>7. CASE /\ Fault("durable") /\ Raises(a, "durable_error", FALSE)
           /\ PutRow(call[a].mine, via) \/ UNCHANGED cp3
  BY <1>1, <1>5, <1>7, FaultBounded
<1> QED
  BY <1>3, <1>4, <1>6, <1>7 DEF AcceptRow, AcceptDurable

\* Only a call whose row was refused and is not there goes on to compensate.
LEMMA ReconcileRowKeeps ==
  ASSUME ChargeInv, NEW a \in Attempt, ReconcileRow(a) PROVE ChargeInv'
<1>1. TypeOK /\ leased \in BOOLEAN /\ faults \in 0..MaxFaults
  BY CallTypes
<1>2. /\ call[a].pc = "durable_error"
      /\ UNCHANGED <<usage, reservations, cp1, cp3, user, leased>>
  BY DEF ReconcileRow, At, quotaVars, storeVars
<1>3. faults' \in 0..MaxFaults
  BY <1>1, FaultBounded DEF ReconcileRow
<1>4. ASSUME NEW r \in Result, Ends(a, r) PROVE ChargeInv'
  BY <1>1, <1>2, <1>3, <1>4, QuietEnd
<1>5. CASE Goto(a, "cancel_receipt") /\ cp3.status = "absent"
  BY <1>1, <1>2, <1>3, <1>5, QuietGoto DEF Step, Holding
<1>6. \/ Ends(a, "uncertain") \/ Ends(a, "accepted") \/ Ends(a, "rejected")
      \/ Goto(a, "cancel_receipt") /\ cp3.status = "absent"
  <2>1. CASE Fault("read") /\ Ends(a, "uncertain")
    BY <2>1
  <2>2. CASE cp3.status # "absent"
    BY <2>2 DEF ReconcileRow
  <2>3. CASE cp3.status = "absent" /\ ~call[a].definite
    BY <2>3 DEF ReconcileRow
  <2>4. CASE cp3.status = "absent" /\ call[a].definite
    BY <2>4 DEF ReconcileRow
  <2> QED
    BY <2>1, <2>2, <2>3, <2>4
<1> QED
  BY <1>4, <1>5, <1>6 DEF Result

\* A cancelled receipt names the reservation it named.
LEMMA CancelReceiptKeeps ==
  ASSUME ChargeInv, NEW a \in Attempt, CancelReceipt(a) PROVE ChargeInv'
<1>1. /\ TypeOK /\ Quota!Owned(Reservations) /\ ReceiptNames /\ RowMatchesReceipt
      /\ ClaimHeld(a) /\ ReceiptSeen(a) /\ cp1 \in Receipt /\ leased \in BOOLEAN
      /\ faults \in 0..MaxFaults /\ call \in [Attempt -> CallState]
  BY CallTypes
<1>2. /\ call[a].pc = "cancel_receipt"
      /\ UNCHANGED <<usage, reservations, cp3, user, leased>>
  BY DEF CancelReceipt, At, quotaVars
<1>3. CASE cp1' = CancelledReceipt /\ Goto(a, "look_again") /\ UNCHANGED faults
  <2>1. Moved(a) /\ Kept(a) /\ call'[a].pc = "look_again"
    BY <1>1, <1>3, GotoMoves DEF Step
  <2>2. LedgerMoves(a) /\ Reservations' = Reservations
    BY <1>1, <1>2, LedgerStays DEF quotaVars
  <2>3. /\ cp1' \in Receipt /\ cp1'.names = cp1.names
        /\ cp1.status = "absent" => cp1'.status = "absent"
        /\ cp1.status # "absent" => cp1'.status # "absent"
    BY <1>1, <1>3 DEF CancelledReceipt, Receipt
  <2>4. RowMatchesReceipt' /\ ReceiptNames' /\ Onward
    BY <1>1, <1>2, <2>2, <2>3 DEF RowMatchesReceipt, ReceiptNames, Onward
  <2>5. StoresTyped
    BY <1>2, <1>3, <2>3, CallTypes DEF StoresTyped
  <2>6. ClaimHeld(a)'
    BY <1>1, <1>2, <2>1, <2>2 DEF ClaimHeld, Kept, Holding
  <2>7. ReceiptSeen(a)'
    BY <1>1, <2>1, <2>3 DEF ReceiptSeen, Kept
  <2>8. call[a].pc \notin Relying
    BY <1>2 DEF Relying
  <2>9. cp3'.status \in Active => cp3.status \in Active
    BY <1>2
  <2> QED
    BY <2>1, <2>2, <2>4, <2>5, <2>6, <2>7, <2>8, <2>9, ChargeStep
<1>4. CASE UNCHANGED cp1 /\ Ends(a, "uncertain") /\ Fault("cancel")
  BY <1>1, <1>2, <1>4, QuietEnd, FaultBounded DEF Result
<1> QED
  BY <1>3, <1>4 DEF CancelReceipt

\* The second look changes nothing.
LEMMA LookAgainKeeps ==
  ASSUME ChargeInv, NEW a \in Attempt, LookAgain(a) PROVE ChargeInv'
<1>1. TypeOK /\ leased \in BOOLEAN /\ faults \in 0..MaxFaults
  BY CallTypes
<1>2. /\ call[a].pc = "look_again"
      /\ UNCHANGED <<usage, reservations, cp1, cp3, user, leased>>
  BY DEF LookAgain, At, quotaVars, storeVars
<1>3. faults' \in 0..MaxFaults
  BY <1>1, FaultBounded DEF LookAgain
<1>4. ASSUME NEW pc \in {"release_inputs", "cancel_durable"}, Goto(a, pc) PROVE ChargeInv'
  BY <1>1, <1>2, <1>3, <1>4, QuietGoto DEF Step, Relying, Holding
<1>5. CASE Ends(a, "uncertain")
  BY <1>1, <1>2, <1>3, <1>5, QuietEnd DEF Result
<1>6. \/ Goto(a, "release_inputs") \/ Goto(a, "cancel_durable") \/ Ends(a, "uncertain")
  BY DEF LookAgain
<1> QED
  BY <1>4, <1>5, <1>6

\* A cancelled row is the same row.
LEMMA RowCancelled ==
  ASSUME cp3 \in Row, cp3' = CancelledRow \/ UNCHANGED cp3
  PROVE  /\ cp3' \in Row /\ cp3'.names = cp3.names /\ cp3'.via = cp3.via
         /\ cp3'.status # cp3.status => cp3.status = "open" /\ cp3'.status = "cancelling"
<1>1. CASE cp3' = CancelledRow
  BY <1>1 DEF CancelledRow, Row, Open
<1> QED
  BY <1>1

\* A cancelled row keeps its reservation, and its call keeps its claim.
LEMMA CancelRowStep ==
  ASSUME ChargeInv, NEW a \in Attempt, CancelDurable(a) \/ UndoRow(a) PROVE ChargeInv'
<1>1. /\ TypeOK /\ Quota!Owned(Reservations) /\ ReceiptNames /\ RowMatchesReceipt
      /\ ClaimHeld(a) /\ ReceiptSeen(a) /\ cp3 \in Row /\ leased \in BOOLEAN
      /\ faults \in 0..MaxFaults /\ call \in [Attempt -> CallState]
  BY CallTypes
<1>2. /\ call[a].pc \in {"cancel_durable", "undo"}
      /\ UNCHANGED <<usage, reservations, cp1, user, leased>>
  BY DEF CancelDurable, UndoRow, At, quotaVars
<1>3. /\ cp3' = CancelledRow \/ UNCHANGED cp3
      /\ faults' \in 0..MaxFaults
  BY <1>1, FaultBounded DEF CancelDurable, UndoRow, CancelRowSuppressed
<1>4. /\ cp3' \in Row /\ cp3'.names = cp3.names
      /\ cp3'.status # cp3.status => cp3.status = "open" /\ cp3'.status = "cancelling"
  BY <1>1, <1>3, RowCancelled
<1>5. /\ Moved(a) /\ Kept(a) /\ call'[a].pc \in {"release_inputs", "done"}
      /\ call[a].pc = "undo" => call'[a].pc = "done"
  <2>1. CASE CancelDurable(a)
    <3>1. call[a].pc = "cancel_durable" /\ Goto(a, "release_inputs")
      BY <2>1 DEF CancelDurable, At
    <3> QED
      BY <1>1, <3>1, GotoMoves DEF Step
  <2>2. CASE UndoRow(a)
    <3>1. Ends(a, "rejected")
      BY <2>2 DEF UndoRow
    <3> QED
      BY <1>1, <3>1, EndsMoves DEF Result
  <2> QED
    BY <2>1, <2>2
<1>6. LedgerMoves(a) /\ Reservations' = Reservations
  BY <1>1, <1>2, LedgerStays DEF quotaVars
<1>7. RowMatchesReceipt' /\ ReceiptNames' /\ Onward
  BY <1>1, <1>2, <1>4, <1>6 DEF RowMatchesReceipt, ReceiptNames, Onward
<1>8. StoresTyped
  BY <1>2, <1>3, <1>4, CallTypes DEF StoresTyped
<1>9. ClaimHeld(a)'
  BY <1>1, <1>2, <1>4, <1>5, <1>6 DEF ClaimHeld, Kept, Holding
<1>10. ReceiptSeen(a)'
  BY <1>1, <1>2, <1>5 DEF ReceiptSeen, Kept
<1>11. call[a].pc \in Relying => call'[a].pc \in Relying /\ UNCHANGED quotaVars
  BY <1>2, <1>5 DEF Relying, quotaVars
<1>12. cp3'.status \in Active => cp3.status \in Active
  BY <1>4 DEF Active, Open
<1> QED
  BY <1>5, <1>6, <1>7, <1>8, <1>9, <1>10, <1>11, <1>12, ChargeStep

\* A call that gives its claim back made no row that is active.
LEMMA AbandonClaimKeeps ==
  ASSUME ChargeInv, NEW a \in Attempt, AbandonClaim(a) PROVE ChargeInv'
<1>1. /\ TypeOK /\ Quota!Owned(Reservations) /\ ReceiptNames /\ RowMatchesReceipt
      /\ ClaimHeld(a) /\ ReceiptSeen(a) /\ faults \in 0..MaxFaults
      /\ call \in [Attempt -> CallState]
  BY CallTypes
<1>2. call[a].pc = "abandon" /\ UNCHANGED <<cp1, cp3, leased, user>>
  BY DEF AbandonClaim, At, storeVars
<1>3. faults' \in 0..MaxFaults
  BY <1>1, FaultBounded DEF AbandonClaim
<1>4. Moved(a) /\ Kept(a) /\ call'[a].pc = "done"
  <2>1. Ends(a, "rejected") \/ Ends(a, "uncertain")
    BY DEF AbandonClaim
  <2> QED
    BY <1>1, <2>1, EndsMoves DEF Result
<1>5. call[a].mine \in 1..Len(Reservations)
  BY <1>1, <1>2 DEF ClaimHeld, Holding
<1>6. LedgerMoves(a)
  <2>1. CASE UNCHANGED quotaVars
    BY <1>1, <2>1, LedgerStays
  <2>2. CASE Quota!Abandon("ws", "key", call[a].mine, a)
    BY <1>1, <1>5, <2>2, AbandonStep
  <2> QED
    BY <2>1, <2>2 DEF AbandonClaim
<1>7. ReceiptNames' /\ RowMatchesReceipt' /\ Onward
  <2>1. Len(Reservations) \in Nat /\ Len(Reservations') \in Nat
    BY <1>1, <1>6, LedgerTypes DEF LedgerMoves, Reservations
  <2> QED
    BY <1>1, <1>2, <1>6, <2>1
    DEF ReceiptNames, RowMatchesReceipt, Onward, LedgerMoves
<1>8. StoresTyped
  BY <1>2, <1>3, CallTypes DEF StoresTyped
<1>9. ClaimHeld(a)' /\ ReceiptSeen(a)'
  BY <1>1, <1>2, <1>4 DEF ClaimHeld, ReceiptSeen, Kept, Holding
<1>10. call[a].pc \notin Relying
  BY <1>2 DEF Relying
<1> QED
  BY <1>2, <1>4, <1>6, <1>7, <1>8, <1>9, <1>10, ChargeStep

\* A receipt that is alive is recovered from.
LEMMA CheckReceiptKeeps ==
  ASSUME ChargeInv, NEW a \in Attempt, CheckReceipt(a) PROVE ChargeInv'
<1>1. /\ TypeOK /\ ReceiptSeen(a) /\ leased \in BOOLEAN /\ faults \in 0..MaxFaults
      /\ call \in [Attempt -> CallState]
  BY CallTypes
<1>2. /\ call[a].pc = "check"
      /\ UNCHANGED <<usage, reservations, cp1, cp3, user, leased, faults>>
  BY DEF CheckReceipt, At, quotaVars, storeVars
<1>3. CASE Goto(a, "readmit")
  <2>1. Moved(a) /\ Kept(a) /\ call'[a].pc = "readmit"
    BY <1>1, <1>3, GotoMoves DEF Step
  <2>2. ReceiptSeen(a)'
    BY <1>1, <1>2, <2>1 DEF ReceiptSeen, Kept
  <2> QED
    BY <1>1, <1>2, <2>1, <2>2, QuietStep DEF Relying, Holding
<1>4. CASE Ends(a, "rejected")
  BY <1>1, <1>2, <1>4, QuietEnd DEF Result
<1> QED
  BY <1>3, <1>4 DEF CheckReceipt, RequireLiveReceipt

\* A call that was admitted again goes on only with the receipt's reservation.
LEMMA ReadmitMoves ==
  ASSUME ChargeInv, NEW a \in Attempt, Admit(a),
         call' = [call EXCEPT ![a].mine = AdmittedTo,
                    ![a].pc = IF AdmittedTo = call[a].seen THEN "recheck" ELSE "abandon"]
  PROVE  /\ Moved(a) /\ call'[a].pc \in {"recheck", "abandon"}
         /\ call'[a].mine = AdmittedTo /\ call'[a].seen = call[a].seen
         /\ call'[a].pc = "recheck" => AdmittedTo = call[a].seen
         /\ call'[a].created = call[a].created /\ call'[a].result = call[a].result
<1>1. PICK c, g, pc : /\ c = call[a] /\ g = AdmittedTo
                      /\ pc = IF g = c.seen THEN "recheck" ELSE "abandon"
  OBVIOUS
<1>2. PICK d : d = [c EXCEPT !.mine = g, !.pc = pc]
  OBVIOUS
<1>3. c \in CallState /\ g \in Nat
  BY <1>1, CallTypes, AdmittedIndex
<1>4. pc \in {"recheck", "abandon"} /\ (pc = "recheck" => g = c.seen)
  BY <1>1
<1>5. /\ d \in CallState /\ d.pc = pc /\ d.mine = g /\ d.seen = c.seen
      /\ d.created = c.created /\ d.result = c.result
  BY <1>2, <1>3, <1>4 DEF CallState, Step
<1>6. call' = [call EXCEPT ![a] = d]
  BY <1>1, <1>2
<1> QED
  BY <1>1, <1>4, <1>5, <1>6, CallTypes DEF Moved

\* A recovery claims the receipt's own reservation, or gives up the other one.
LEMMA ReadmitKeeps ==
  ASSUME ChargeInv, NEW a \in Attempt, Readmit(a) PROVE ChargeInv'
<1>1. /\ TypeOK /\ ReceiptSeen(a) /\ leased \in BOOLEAN /\ faults \in 0..MaxFaults
      /\ Quota!Owned(Reservations) /\ call \in [Attempt -> CallState]
      /\ call[a] \in CallState
  BY CallTypes
<1>2. call[a].pc = "readmit" /\ UNCHANGED <<cp1, cp3, leased, user, faults>>
  BY DEF Readmit, At, storeVars
<1>3. call[a].pc \notin Relying
  BY <1>2 DEF Relying
<1>4. CASE /\ Admit(a)
           /\ call' = [call EXCEPT ![a].mine = AdmittedTo,
                         ![a].pc = IF AdmittedTo = call[a].seen THEN "recheck" ELSE "abandon"]
  <2>1. /\ Moved(a) /\ call'[a].pc \in {"recheck", "abandon"}
        /\ call'[a].mine = AdmittedTo /\ call'[a].seen = call[a].seen
        /\ call'[a].pc = "recheck" => AdmittedTo = call[a].seen
    BY <1>4, ReadmitMoves
  <2>2. ReceiptSeen(a)'
    BY <1>1, <1>2, <2>1 DEF ReceiptSeen
  <2> QED
    BY <1>1, <1>2, <1>3, <1>4, <2>1, <2>2, AdmittedStep
<1>5. CASE Ends(a, "rejected") /\ UNCHANGED quotaVars
  BY <1>1, <1>2, <1>5, QuietEnd DEF Result, quotaVars
<1> QED
  BY <1>4, <1>5 DEF Readmit

\* The second check of a recovery changes nothing.
LEMMA RecheckReceiptKeeps ==
  ASSUME ChargeInv, NEW a \in Attempt, RecheckReceipt(a) PROVE ChargeInv'
<1>1. /\ TypeOK /\ ReceiptSeen(a) /\ leased \in BOOLEAN /\ faults \in 0..MaxFaults
      /\ call \in [Attempt -> CallState]
  BY CallTypes
<1>2. /\ call[a].pc = "recheck"
      /\ UNCHANGED <<usage, reservations, cp1, cp3, user, leased, faults>>
  BY DEF RecheckReceipt, At, quotaVars, storeVars
<1>3. call[a].pc \in Holding /\ call[a].pc \notin Relying
  BY <1>2 DEF Holding, Relying
<1>4. CASE Goto(a, "restore")
  <2>1. Moved(a) /\ Kept(a) /\ call'[a].pc = "restore"
    BY <1>1, <1>4, GotoMoves DEF Step
  <2>2. ReceiptSeen(a)'
    BY <1>1, <1>2, <2>1 DEF ReceiptSeen, Kept
  <2> QED
    BY <1>1, <1>2, <1>3, <2>1, <2>2, QuietStep
<1>5. CASE Goto(a, "abandon")
  BY <1>1, <1>2, <1>3, <1>5, QuietGoto DEF Step
<1> QED
  BY <1>4, <1>5 DEF RecheckReceipt, RequireLiveReceipt

\* The row is restored on the reservation that the recovery claims.
LEMMA RestoreRowKeeps ==
  ASSUME ChargeInv, NEW a \in Attempt, RestoreRow(a) PROVE ChargeInv'
<1>1. /\ TypeOK /\ ReceiptSeen(a) /\ call \in [Attempt -> CallState]
      /\ faults \in 0..MaxFaults /\ leased \in BOOLEAN
  BY CallTypes
<1>2. call[a].pc = "restore" /\ UNCHANGED <<usage, reservations, cp1, leased, user>>
  BY DEF RestoreRow, At, quotaVars
<1>3. call[a].seen = call[a].mine
  BY <1>1, <1>2 DEF ReceiptSeen
<1>4. CASE PutRow(call[a].mine, "recovered") /\ Goto(a, "last_check") /\ UNCHANGED faults
  <2>1. Moved(a) /\ Kept(a) /\ call'[a].pc = "last_check"
    BY <1>1, <1>4, GotoMoves DEF Step
  <2>2. ReceiptSeen(a)'
    BY <1>1, <1>2, <2>1 DEF ReceiptSeen, Kept
  <2> QED
    BY <1>1, <1>2, <1>4, <2>1, <2>2, PutRowStep DEF Relying
<1>5. CASE Goto(a, "abandon") /\ UNCHANGED <<cp3, faults>>
  BY <1>1, <1>2, <1>5, QuietGoto DEF Step, Relying, Holding
<1>6. CASE /\ Fault("durable") /\ Ends(a, "uncertain")
           /\ PutRow(call[a].mine, "recovered") \/ UNCHANGED cp3
  <2>1. Moved(a) /\ Kept(a) /\ call'[a].pc = "done"
    BY <1>1, <1>6, EndsMoves DEF Result
  <2>2. ReceiptSeen(a)'
    BY <1>1, <1>2, <2>1 DEF ReceiptSeen, Kept
  <2>3. faults' \in 0..MaxFaults
    BY <1>1, <1>6, FaultBounded
  <2> QED
    BY <1>1, <1>2, <1>6, <2>1, <2>2, <2>3, PutRowStep DEF Relying
<1> QED
  BY <1>3, <1>4, <1>5, <1>6 DEF RestoreRow, AcceptDurable

\* A call that crashes or ends after its row was made keeps its claim.
LEMMA LastCheckKeeps ==
  ASSUME ChargeInv, NEW a \in Attempt, LastCheck(a) \/ Crash(a) PROVE ChargeInv'
<1>1. TypeOK /\ leased \in BOOLEAN /\ faults \in 0..MaxFaults
  BY CallTypes
<1>2. /\ UNCHANGED <<usage, reservations, cp1, cp3, user, leased>>
      /\ faults' \in 0..MaxFaults
  BY <1>1, FaultBounded DEF LastCheck, Crash, quotaVars, storeVars
<1>3. ASSUME NEW r \in Result, Ends(a, r) PROVE ChargeInv'
  BY <1>1, <1>2, <1>3, QuietEnd
<1>4. CASE call[a].pc = "last_check" /\ Goto(a, "undo")
  BY <1>1, <1>2, <1>4, QuietGoto DEF Step, Relying, Holding
<1>5. \/ Ends(a, "accepted") \/ Ends(a, "crashed")
      \/ call[a].pc = "last_check" /\ Goto(a, "undo")
  BY DEF LastCheck, Crash, RequireLiveReceipt, At
<1> QED
  BY <1>3, <1>4, <1>5 DEF Result

---------------------------------------------------------------------------
(* The steps of the worker and the user keep it.                           *)

\* What the first invariant says of the stores.
LEMMA StoreTypes ==
  ASSUME ChargeInv
  PROVE  /\ TypeOK /\ Quota!Owned(Reservations) /\ ReceiptNames /\ RowMatchesReceipt
         /\ cp1 \in Receipt /\ cp3 \in Row
         /\ user \in {"idle", "cancelled", "acknowledged"}
BY DEF ChargeInv, TypeOK, Receipt, Row

\* A row that its worker closed is charged still.
LEMMA WorkerClosesKeeps == ASSUME ChargeInv, WorkerCloses PROVE ChargeInv'
<1>1. PICK row : row = cp3
  OBVIOUS
<1>2. row \in Row /\ row.status \in Open
  BY <1>1, StoreTypes DEF WorkerCloses
<1>3. PICK closed : closed = [row EXCEPT !.status = "closed"]
  OBVIOUS
<1>4. closed \in Row /\ closed.status = "closed" /\ closed.names = row.names
  BY <1>2, <1>3 DEF Row
<1>5. cp3' = closed /\ UNCHANGED <<usage, reservations, call, leased, faults, cp1, user>>
  BY <1>1, <1>3 DEF WorkerCloses, quotaVars
<1>6. Onward
  BY <1>1, <1>2, <1>4, <1>5 DEF Onward, Open
<1> QED
  BY <1>1, <1>2, <1>4, <1>5, <1>6, StoreTypes, StoreStep DEF Active, Open

\* The worker releases the reservation for everyone who claims it still.
LEMMA WorkerSettlesKeeps == ASSUME ChargeInv, WorkerSettles PROVE ChargeInv'
<1>1. PICK row : row = cp3
  OBVIOUS
<1>2. row \in Row /\ row.status = "closed"
  BY <1>1, StoreTypes DEF WorkerSettles
<1>3. PICK settled : settled = [row EXCEPT !.status = "settled"]
  OBVIOUS
<1>4. settled \in Row /\ settled.status = "settled" /\ settled.names = row.names
  BY <1>2, <1>3 DEF Row
<1>5. cp3' = settled /\ UNCHANGED <<call, leased, faults, cp1, user>>
  BY <1>1, <1>3 DEF WorkerSettles
<1>6. /\ ReceiptNames /\ RowMatchesReceipt /\ CallsHold /\ TypeOK
      /\ Quota!Owned(Reservations)
  BY StoreTypes DEF ChargeInv
<1>7. cp3.names \in 1..Len(Reservations) /\ Len(Reservations) \in Nat
  BY <1>1, <1>2, <1>6, LedgerTypes DEF ReceiptNames, RowMatchesReceipt
<1>8. /\ usage' \in [{"ws"} -> Nat]
      /\ reservations' \in [{"ws"} -> [{"key"} -> Seq(Quota!Reservation)]]
      /\ Quota!Owned(Reservations)'
      /\ Len(Reservations') = Len(Reservations)
  <2>1. CASE UNCHANGED quotaVars
    <3>1. Reservations' = Reservations /\ LedgerMoves(NoClaim)
      BY <1>6, <2>1, LedgerStays
    <3> QED
      BY <3>1 DEF LedgerMoves
  <2>2. CASE Quota!Release("ws", "key", cp3.names)
    BY <1>6, <1>7, <2>2, ReleaseStep
  <2> QED
    BY <2>1, <2>2 DEF WorkerSettles
<1>9. TypeOK'
  BY <1>4, <1>5, <1>6, <1>8 DEF TypeOK, Quota!TypeOK, Quota!LedgerTypeOK, Row
<1>10. ReceiptNames' /\ RowMatchesReceipt'
  BY <1>1, <1>2, <1>4, <1>5, <1>6, <1>8 DEF ReceiptNames, RowMatchesReceipt
<1>11. CallsHold'
  BY <1>1, <1>2, <1>4, <1>5, <1>6, <1>8 DEF CallsHold, ClaimHeld, ReceiptSeen
<1>12. RowIsClaimed'
  BY <1>4, <1>5 DEF RowIsClaimed, Active, Open
<1> QED
  BY <1>8, <1>9, <1>10, <1>11, <1>12 DEF ChargeInv

\* A row that the user cancelled is charged still.
LEMMA UserCancelsKeeps == ASSUME ChargeInv, UserCancels PROVE ChargeInv'
<1>1. cp3 \in Row /\ cp3' = CancelledRow
  BY StoreTypes DEF UserCancels
<1>2. /\ cp3' \in Row /\ cp3'.names = cp3.names
      /\ cp3'.status # cp3.status => cp3.status = "open" /\ cp3'.status = "cancelling"
  BY <1>1, RowCancelled
<1>3. UNCHANGED <<usage, reservations, call, leased, faults, cp1>> /\ user' = "cancelled"
  BY DEF UserCancels, quotaVars
<1>4. Onward
  BY <1>2, <1>3 DEF Onward
<1> QED
  BY <1>2, <1>3, <1>4, StoreTypes, StoreStep DEF Active, Open

\* A receipt that the user cancelled names the same reservation.
LEMMA UserCancelsReceiptKeeps == ASSUME ChargeInv, UserCancelsReceipt PROVE ChargeInv'
<1>1. /\ UNCHANGED <<usage, reservations, call, leased, faults, cp3>>
      /\ user' = "acknowledged" /\ cp1' = CancelledReceipt
  BY DEF UserCancelsReceipt, quotaVars
<1>2. /\ cp1' \in Receipt /\ cp1'.names = cp1.names
      /\ cp1.status = "absent" => cp1'.status = "absent"
      /\ cp1'.status = "absent" => cp1.status = "absent"
  BY <1>1, StoreTypes DEF CancelledReceipt, Receipt
<1>3. Onward
  BY <1>1, <1>2 DEF Onward
<1> QED
  BY <1>1, <1>2, <1>3, StoreTypes, StoreStep

---------------------------------------------------------------------------
(* The first invariant.                                                    *)

\* No attempt was made yet.
LEMMA ChargeInit == Init => ChargeInv
<1> SUFFICES ASSUME Init PROVE ChargeInv
  OBVIOUS
<1>1. Reservations = <<>> /\ Len(Reservations) = 0
  BY DEF Init, Quota!Init, Reservations
<1>2. /\ usage \in [{"ws"} -> Nat]
      /\ reservations \in [{"ws"} -> [{"key"} -> Seq(Quota!Reservation)]]
  <2>1. <<>> \in Seq(Quota!Reservation)
    OBVIOUS
  <2> QED
    BY <2>1 DEF Init, Quota!Init
<1>3. Quota!TypeOK
  BY <1>2 DEF Quota!TypeOK, Quota!LedgerTypeOK
<1>4. call \in [Attempt -> CallState]
  <2>1. [pc |-> "idle", seen |-> 0, mine |-> 0, created |-> FALSE,
         definite |-> FALSE, result |-> "none"] \in CallState
    BY DEF CallState, Step, Result
  <2> QED
    BY <2>1 DEF Init
<1>5. TypeOK
  <2>1. faults \in 0..MaxFaults
    BY AdmissionAssumption DEF Init
  <2> QED
    BY <1>3, <1>4, <2>1 DEF Init, TypeOK
<1>6. Quota!Owned(Reservations)
  BY <1>1 DEF Quota!Owned
<1>7. CallsHold
  BY DEF Init, CallsHold, ClaimHeld, ReceiptSeen, Holding
<1> QED
  BY <1>5, <1>6, <1>7
  DEF Init, ChargeInv, ReceiptNames, RowMatchesReceipt, RowIsClaimed, Active, Open

\* Every step keeps the first invariant.
LEMMA ChargeNext == ASSUME ChargeInv, [Next]_vars PROVE ChargeInv'
<1>1. ASSUME NEW a \in Attempt, CallNext(a) PROVE ChargeInv'
  BY <1>1, LookupReceiptKeeps, LookupDurableKeeps, RebindKeeps, GateKeeps, InputsKeep,
     AcceptReceiptKeeps, ReconcileReceiptKeeps, AcceptRowKeeps, ReconcileRowKeeps,
     CancelReceiptKeeps, LookAgainKeeps, CancelRowStep, AbandonClaimKeeps,
     CheckReceiptKeeps, ReadmitKeeps, RecheckReceiptKeeps, RestoreRowKeeps, LastCheckKeeps
  DEF CallNext
<1>2. CASE Environment
  BY <1>2, LastCheckKeeps, WorkerClosesKeeps, WorkerSettlesKeeps, UserCancelsKeeps,
     UserCancelsReceiptKeeps
  DEF Environment
<1>3. CASE UNCHANGED vars
  <2>1. UNCHANGED <<usage, reservations, cp1, cp3, leased, call, user, faults>>
    BY <1>3 DEF vars
  <2>2. Onward
    BY <2>1 DEF Onward
  <2> QED
    BY <2>1, <2>2, StoreTypes, StoreStep
<1> QED
  BY <1>1, <1>2, <1>3 DEF Next

\* The inductive invariant of the charge: every call that goes on holds a claim on
\* the reservation it names, and so does the call that made the row.
THEOREM ChargeInvariant == Spec => []ChargeInv
<1>1. ChargeInv /\ [Next]_vars => ChargeInv'
  BY ChargeNext
<1> QED
  BY ChargeInit, <1>1, PTL DEF Spec

\* The stores, and the locals of every call of submit_run, keep their types.
THEOREM AdmissionTypeCorrect == Spec => []TypeOK
BY ChargeInvariant, PTL DEF ChargeInv

\* However attempts overlap, fail, compensate, recover or crash, the reservation of
\* work that the durable store accepted stays charged until its worker settles it:
\* the call that made the row gave its claim back to nobody.
THEOREM AcceptedCharged == Spec => []AcceptedIsCharged
<1>1. ASSUME ChargeInv PROVE AcceptedIsCharged
  <2> SUFFICES ASSUME cp3.status \in Active PROVE ~Reservations[cp3.names].released
    BY DEF AcceptedIsCharged, ChargedFor, Active
  <2>1. Reservations[cp3.names].claims # {}
    BY <1>1 DEF ChargeInv, RowIsClaimed
  <2>2. cp3.status # "absent"
    BY DEF Active, Open
  <2>3. cp3.names \in 1..Len(Reservations)
    BY <1>1, <2>2 DEF ChargeInv, RowMatchesReceipt, ReceiptNames
  <2> QED
    BY <1>1, <2>1, <2>3 DEF ChargeInv, Quota!Owned
<1> QED
  BY <1>1, ChargeInvariant, PTL

\* The worker releases the reservation that the receipt's admission charged, however
\* the row and the receipt came about.
THEOREM RowMatches == Spec => []RowMatchesReceipt
BY ChargeInvariant, PTL DEF ChargeInv

---------------------------------------------------------------------------
(* What a step owes to the second invariant.                               *)

\* A call goes on, and is still where the invariant counts on it.
Proceeds(a) ==
  /\ Moved(a)
  /\ call[a].pc # "done"
  /\ call[a].pc \in Compensating => call'[a].pc \in Compensating
  /\ call'[a].pc = "cancel_receipt" => call'[a].created
  /\ call'[a].result # "none" => call'[a].pc = "done"
  /\ faults' = 0 => faults = 0

\* A call that goes on has no result yet.
LEMMA NotDone ==
  ASSUME FenceInv, NEW a \in Attempt, call[a].pc # "done"
  PROVE  call[a].result = "none"
BY DEF FenceInv, CallOrigin

\* A step of a call that leaves receipt and row alone.
LEMMA QuietFence ==
  ASSUME FenceInv, NEW a \in Attempt, Proceeds(a), call'[a].created = call[a].created,
         UNCHANGED <<cp1, cp3, user>>,
         faults' = 0 /\ cp1.status = "cancel_requested" /\ cp3.status = "open" =>
           (call[a].pc \in Fencing => call'[a].pc \in Fencing)
  PROVE  FenceInv'
<1>1. /\ \A b \in Attempt : CallOrigin(b)
      /\ OneCreator /\ ReceiptCancelled /\ UserCancelledRow /\ CreatedRow /\ RecoveredRow
      /\ cp3.status # "absent" => cp3.via # "none"
  BY DEF FenceInv
<1>2. ASSUME NEW b \in Attempt, b # a PROVE call'[b] = call[b]
  BY <1>2 DEF Proceeds, Moved
<1>3. ASSUME NEW b \in Attempt PROVE call'[b].created = call[b].created
  BY <1>2
<1>4. ASSUME NEW b \in Attempt PROVE CallOrigin(b)'
  BY <1>1, <1>2 DEF CallOrigin, Proceeds
<1>5. OneCreator'
  BY <1>1, <1>3 DEF OneCreator
<1>6. ReceiptCancelled'
  <2> SUFFICES ASSUME cp1.status = "cancel_requested", user = "idle"
               PROVE  \E b \in Attempt : call'[b].created /\ call'[b].pc \in Compensating
    BY DEF ReceiptCancelled
  <2>1. PICK b \in Attempt : call[b].created /\ call[b].pc \in Compensating
    BY <1>1 DEF ReceiptCancelled
  <2>2. call'[b].created /\ call'[b].pc \in Compensating
    BY <1>2, <1>3, <2>1 DEF Proceeds
  <2> QED
    BY <2>2
<1>7. UserCancelledRow'
  BY <1>1 DEF UserCancelledRow
<1>8. CreatedRow'
  <2> SUFFICES ASSUME faults' = 0, cp3.via = "created"
               PROVE  /\ cp1.status = "cancel_requested" => cp3.status # "open"
                      /\ \E b \in Attempt : call'[b].created /\ call'[b].pc = "done"
    BY DEF CreatedRow
  <2>1. faults = 0
    BY DEF Proceeds
  <2>2. PICK b \in Attempt : call[b].created /\ call[b].pc = "done"
    BY <1>1, <2>1 DEF CreatedRow
  <2>3. b # a
    BY <2>2 DEF Proceeds
  <2> QED
    BY <1>1, <1>2, <2>1, <2>2, <2>3 DEF CreatedRow
<1>9. RecoveredRow'
  <2> SUFFICES ASSUME faults' = 0, cp3.via = "recovered", cp1.status = "cancel_requested",
                      cp3.status = "open"
               PROVE  \E b \in Attempt : call'[b].pc \in Fencing
    BY DEF RecoveredRow
  <2>1. faults = 0
    BY DEF Proceeds
  <2>2. PICK b \in Attempt : call[b].pc \in Fencing
    BY <1>1, <2>1 DEF RecoveredRow
  <2>3. call'[b].pc \in Fencing
    BY <1>2, <2>2
  <2> QED
    BY <2>3
<1> QED
  BY <1>1, <1>4, <1>5, <1>6, <1>7, <1>8, <1>9 DEF FenceInv

\* The receipt is made by at most one call.
LEMMA PutReceiptFence ==
  ASSUME FenceInv, NEW a \in Attempt, Proceeds(a), call[a].pc = "receipt",
         \/ cp1' = cp1
         \/ cp1.status = "absent" /\ cp1'.status = "accepted",
         call'[a].created => cp1'.status # "absent",
         call'[a].created => call[a].created \/ cp1.status = "absent",
         UNCHANGED <<cp3, user>>
  PROVE  FenceInv'
<1>1. /\ \A b \in Attempt : CallOrigin(b)
      /\ OneCreator /\ ReceiptCancelled /\ UserCancelledRow /\ CreatedRow /\ RecoveredRow
      /\ cp3.status # "absent" => cp3.via # "none"
  BY DEF FenceInv
<1>2. ASSUME NEW b \in Attempt, b # a PROVE call'[b] = call[b]
  BY <1>2 DEF Proceeds, Moved
<1>3. ASSUME NEW b \in Attempt PROVE CallOrigin(b)'
  BY <1>1, <1>2 DEF CallOrigin, Proceeds
<1>4. OneCreator'
  <2> SUFFICES ASSUME NEW b \in Attempt, NEW c \in Attempt,
                      call'[b].created, call'[c].created
               PROVE  b = c
    BY DEF OneCreator
  <2>1. CASE cp1.status = "absent"
    BY <1>1, <1>2, <2>1 DEF CallOrigin
  <2>2. CASE cp1.status # "absent"
    BY <1>1, <1>2, <2>2 DEF OneCreator
  <2> QED
    BY <2>1, <2>2
<1>5. cp1'.status = "cancel_requested" => cp1' = cp1
  OBVIOUS
<1>6. ReceiptCancelled'
  <2> SUFFICES ASSUME cp1'.status = "cancel_requested", user = "idle"
               PROVE  \E b \in Attempt : call'[b].created /\ call'[b].pc \in Compensating
    BY DEF ReceiptCancelled
  <2>1. PICK b \in Attempt : call[b].created /\ call[b].pc \in Compensating
    BY <1>1, <1>5 DEF ReceiptCancelled
  <2>2. b # a
    BY <2>1 DEF Compensating
  <2> QED
    BY <1>2, <2>1, <2>2
<1>7. UserCancelledRow'
  BY <1>1 DEF UserCancelledRow
<1>8. CreatedRow'
  <2> SUFFICES ASSUME faults' = 0, cp3.via = "created"
               PROVE  /\ cp1'.status = "cancel_requested" => cp3.status # "open"
                      /\ \E b \in Attempt : call'[b].created /\ call'[b].pc = "done"
    BY DEF CreatedRow
  <2>1. faults = 0
    BY DEF Proceeds
  <2>2. PICK b \in Attempt : call[b].created /\ call[b].pc = "done"
    BY <1>1, <2>1 DEF CreatedRow
  <2>3. b # a
    BY <2>2
  <2> QED
    BY <1>1, <1>2, <1>5, <2>1, <2>2, <2>3 DEF CreatedRow
<1>9. RecoveredRow'
  <2> SUFFICES ASSUME faults' = 0, cp3.via = "recovered", cp1'.status = "cancel_requested",
                      cp3.status = "open"
               PROVE  \E b \in Attempt : call'[b].pc \in Fencing
    BY DEF RecoveredRow
  <2>1. faults = 0
    BY DEF Proceeds
  <2>2. PICK b \in Attempt : call[b].pc \in Fencing
    BY <1>1, <1>5, <2>1 DEF RecoveredRow
  <2>3. b # a
    BY <2>2 DEF Fencing
  <2> QED
    BY <1>2, <2>2, <2>3
<1> QED
  BY <1>1, <1>3, <1>4, <1>6, <1>7, <1>8, <1>9 DEF FenceInv

\* The creator cancels its receipt, looks again, and has made no row.
LEMMA CancelReceiptFence ==
  ASSUME FenceInv, NEW a \in Attempt, Proceeds(a), call'[a].created = call[a].created,
         call[a].pc = "cancel_receipt", call'[a].pc = "look_again",
         cp1.status # "absent" => cp1'.status # "absent",
         UNCHANGED <<cp3, user>>
  PROVE  FenceInv'
<1>1. /\ \A b \in Attempt : CallOrigin(b)
      /\ OneCreator /\ UserCancelledRow /\ CreatedRow
      /\ cp3.status # "absent" => cp3.via # "none"
  BY DEF FenceInv
<1>2. ASSUME NEW b \in Attempt, b # a PROVE call'[b] = call[b]
  BY <1>2 DEF Proceeds, Moved
<1>3. ASSUME NEW b \in Attempt PROVE call'[b].created = call[b].created
  BY <1>2
<1>4. ASSUME NEW b \in Attempt PROVE CallOrigin(b)'
  BY <1>1, <1>2 DEF CallOrigin, Proceeds
<1>5. OneCreator'
  BY <1>1, <1>3 DEF OneCreator
<1>6. call[a].created
  BY <1>1 DEF CallOrigin
<1>7. ReceiptCancelled' /\ UserCancelledRow' /\ RecoveredRow'
  BY <1>1, <1>6 DEF ReceiptCancelled, UserCancelledRow, RecoveredRow, Compensating, Fencing
<1>8. CreatedRow'
  <2> SUFFICES ASSUME faults' = 0, cp3.via = "created" PROVE FALSE
    BY DEF CreatedRow
  <2>1. faults = 0
    BY DEF Proceeds
  <2>2. PICK b \in Attempt : call[b].created /\ call[b].pc = "done"
    BY <1>1, <2>1 DEF CreatedRow
  <2> QED
    BY <1>1, <1>6, <2>2 DEF OneCreator
<1> QED
  BY <1>1, <1>4, <1>5, <1>7, <1>8 DEF FenceInv

\* A row that is made from a new receipt is made before the receipt can be
\* cancelled; one that is restored is checked again.
LEMMA PutRowFence ==
  ASSUME FenceInv, NEW a \in Attempt, Proceeds(a), call'[a].created = call[a].created,
         cp3.status = "absent", call[a].pc \in {"durable", "restore"},
         cp3'.status = "open", cp3'.via # "none",
         cp3'.via = "created" =>
           call[a].created /\ (faults' = 0 => call'[a].pc = "done"),
         cp3'.via = "recovered" => (faults' = 0 => call'[a].pc \in Fencing),
         UNCHANGED <<cp1, user>>
  PROVE  FenceInv'
<1>1. /\ \A b \in Attempt : CallOrigin(b)
      /\ OneCreator /\ ReceiptCancelled /\ UserCancelledRow
  BY DEF FenceInv
<1>2. ASSUME NEW b \in Attempt, b # a PROVE call'[b] = call[b]
  BY <1>2 DEF Proceeds, Moved
<1>3. ASSUME NEW b \in Attempt PROVE call'[b].created = call[b].created
  BY <1>2
<1>4. ASSUME NEW b \in Attempt PROVE CallOrigin(b)'
  BY <1>1, <1>2 DEF CallOrigin, Proceeds
<1>5. OneCreator'
  BY <1>1, <1>3 DEF OneCreator
<1>6. user = "idle" /\ UserCancelledRow'
  BY <1>1 DEF UserCancelledRow
<1>7. ASSUME cp1.status = "cancel_requested"
      PROVE  \E b \in Attempt : b # a /\ call[b].created /\ call[b].pc \in Compensating
  <2>1. PICK b \in Attempt : call[b].created /\ call[b].pc \in Compensating
    BY <1>1, <1>6, <1>7 DEF ReceiptCancelled
  <2>2. b # a
    BY <2>1 DEF Compensating
  <2> QED
    BY <2>1, <2>2
<1>8. ReceiptCancelled'
  BY <1>2, <1>7 DEF ReceiptCancelled
<1>9. CreatedRow'
  <2> SUFFICES ASSUME faults' = 0, cp3'.via = "created"
               PROVE  /\ cp1.status # "cancel_requested"
                      /\ \E b \in Attempt : call'[b].created /\ call'[b].pc = "done"
    BY DEF CreatedRow
  <2> QED
    BY <1>1, <1>7 DEF OneCreator
<1>10. RecoveredRow'
  BY DEF RecoveredRow
<1> QED
  BY <1>4, <1>5, <1>6, <1>8, <1>9, <1>10 DEF FenceInv

\* The row was cancelled, or a fault kept it.
LEMMA CancelRowFence ==
  ASSUME FenceInv, NEW a \in Attempt, Proceeds(a), call'[a].created = call[a].created,
         cp3'.via = cp3.via,
         cp3'.status # cp3.status => cp3.status = "open" /\ cp3'.status = "cancelling",
         faults' = 0 => cp3'.status # "open",
         UNCHANGED <<cp1, user>>
  PROVE  FenceInv'
<1>1. /\ \A b \in Attempt : CallOrigin(b)
      /\ OneCreator /\ ReceiptCancelled /\ UserCancelledRow /\ CreatedRow
      /\ cp3.status # "absent" => cp3.via # "none"
  BY DEF FenceInv
<1>2. ASSUME NEW b \in Attempt, b # a PROVE call'[b] = call[b]
  BY <1>2 DEF Proceeds, Moved
<1>3. ASSUME NEW b \in Attempt PROVE call'[b].created = call[b].created
  BY <1>2
<1>4. ASSUME NEW b \in Attempt PROVE CallOrigin(b)'
  BY <1>1, <1>2 DEF CallOrigin, Proceeds
<1>5. OneCreator'
  BY <1>1, <1>3 DEF OneCreator
<1>6. ReceiptCancelled'
  <2> SUFFICES ASSUME cp1.status = "cancel_requested", user = "idle"
               PROVE  \E b \in Attempt : call'[b].created /\ call'[b].pc \in Compensating
    BY DEF ReceiptCancelled
  <2>1. PICK b \in Attempt : call[b].created /\ call[b].pc \in Compensating
    BY <1>1 DEF ReceiptCancelled
  <2>2. call'[b].created /\ call'[b].pc \in Compensating
    BY <1>2, <1>3, <2>1 DEF Proceeds
  <2> QED
    BY <2>2
<1>7. UserCancelledRow' /\ RecoveredRow'
  BY <1>1 DEF UserCancelledRow, RecoveredRow
<1>8. CreatedRow'
  <2> SUFFICES ASSUME faults' = 0, cp3.via = "created"
               PROVE  \E b \in Attempt : call'[b].created /\ call'[b].pc = "done"
    BY DEF CreatedRow
  <2>1. PICK b \in Attempt : call[b].created /\ call[b].pc = "done"
    BY <1>1 DEF CreatedRow, Proceeds
  <2>2. b # a
    BY <2>1 DEF Proceeds
  <2> QED
    BY <1>2, <2>1, <2>2
<1> QED
  BY <1>1, <1>4, <1>5, <1>6, <1>7, <1>8 DEF FenceInv

---------------------------------------------------------------------------
(* The steps keep the second invariant.                                    *)

\* Faults are never taken back.
LEMMA FaultsCount ==
  ASSUME ChargeInv, UNCHANGED faults \/ \E kind \in FaultKind : Fault(kind)
  PROVE  faults' = 0 => faults = 0
BY StoreTypes, FaultBounded

\* A quiet step from a place where the invariant does not need the call.
LEMMA FenceGoto ==
  ASSUME ChargeInv, FenceInv, NEW a \in Attempt, NEW pc \in Step, Goto(a, pc),
         call[a].pc # "done", pc # "cancel_receipt",
         call[a].pc \in Compensating => pc \in Compensating,
         call[a].pc \in Fencing /\ cp1.status = "cancel_requested" /\ cp3.status = "open" =>
           pc \in Fencing,
         UNCHANGED <<cp1, cp3, user>>, faults' = 0 => faults = 0
  PROVE  FenceInv'
<1>1. Moved(a) /\ Kept(a) /\ call'[a].pc = pc /\ call'[a].result = call[a].result
  BY CallTypes, GotoMoves
<1>2. Proceeds(a)
  BY <1>1, NotDone DEF Proceeds
<1> QED
  BY <1>1, <1>2, QuietFence DEF Kept

\* A call may end where it has nothing to fence.
LEMMA FenceEnd ==
  ASSUME ChargeInv, FenceInv, NEW a \in Attempt, NEW r \in Result, Ends(a, r),
         call[a].pc # "done",
         UNCHANGED <<cp1, cp3, user>>, faults' = 0 => faults = 0,
         faults' = 0 /\ cp1.status = "cancel_requested" /\ cp3.status = "open" =>
           call[a].pc \notin Fencing
  PROVE  FenceInv'
<1>1. Moved(a) /\ Kept(a) /\ call'[a].pc = "done"
  BY CallTypes, EndsMoves
<1>2. Proceeds(a)
  BY <1>1 DEF Proceeds, Compensating
<1> QED
  BY <1>1, <1>2, QuietFence DEF Kept

\* Steps away from places the invariant does not count on.
LEMMA LookupFence ==
  ASSUME ChargeInv, FenceInv, NEW a \in Attempt, LookupReceipt(a) \/ LookupDurable(a)
  PROVE  FenceInv'
<1>1. /\ call[a].pc \in {"idle", "looked"}
      /\ UNCHANGED <<cp1, cp3, user, faults>>
  BY DEF LookupReceipt, LookupDurable, At, storeVars
<1>2. call[a].pc # "done" /\ call[a].pc \notin Compensating /\ call[a].pc \notin Fencing
  BY <1>1 DEF Compensating, Fencing
<1>3. CASE LookupReceipt(a)
  <2>1. /\ Moved(a) /\ call'[a].pc = "looked" /\ call'[a].created = call[a].created
        /\ call'[a].result = call[a].result
    BY <1>3, LookupMoves
  <2>2. Proceeds(a)
    BY <1>1, <1>2, <2>1, NotDone DEF Proceeds
  <2> QED
    BY <1>1, <1>2, <2>1, <2>2, QuietFence
<1>4. CASE LookupDurable(a)
  <2>1. Ends(a, "accepted") \/ Goto(a, "check") \/ Goto(a, "rebind") \/ Goto(a, "gate")
    BY <1>4 DEF LookupDurable
  <2>2. ASSUME NEW pc \in {"check", "rebind", "gate"}, Goto(a, pc) PROVE FenceInv'
    BY <1>1, <1>2, <2>2, FenceGoto DEF Step
  <2>3. CASE Ends(a, "accepted")
    BY <1>1, <1>2, <2>3, FenceEnd DEF Result
  <2> QED
    BY <2>1, <2>2, <2>3
<1> QED
  BY <1>3, <1>4

\* Rebinding finds the receipt.
LEMMA RebindFence ==
  ASSUME ChargeInv, FenceInv, NEW a \in Attempt, Rebind(a) PROVE FenceInv'
<1>1. call[a].pc = "rebind" /\ UNCHANGED <<cp3, user, faults>>
  BY DEF Rebind, At
<1>2. cp1.status # "absent"
  BY <1>1, CallTypes DEF ReceiptSeen, RowMatchesReceipt
<1>3. cp1' = cp1
  BY <1>2 DEF Rebind
<1>4. call[a].pc # "done" /\ call[a].pc \notin Fencing
  BY <1>1 DEF Fencing
<1>5. ASSUME NEW r \in Result, Ends(a, r) PROVE FenceInv'
  BY <1>1, <1>3, <1>4, <1>5, FenceEnd
<1>6. Ends(a, "accepted") \/ Ends(a, "rejected")
  BY DEF Rebind
<1> QED
  BY <1>5, <1>6 DEF Result

\* Admissions touch neither receipt nor row.
LEMMA AdmitFence ==
  ASSUME ChargeInv, FenceInv, NEW a \in Attempt, Gate(a) \/ Readmit(a) PROVE FenceInv'
<1>1. call[a].pc \in {"gate", "readmit"} /\ UNCHANGED <<cp1, cp3, user>>
  BY DEF Gate, Readmit, At, storeVars
<1>2. call[a].pc # "done" /\ call[a].pc \notin Compensating /\ call[a].pc \notin Fencing
  BY <1>1 DEF Compensating, Fencing
<1>3. faults' = 0 => faults = 0
  BY FaultsCount DEF Gate, Readmit, FaultKind
<1>4. CASE /\ Admit(a)
           /\ call' = [call EXCEPT ![a].pc = "inputs", ![a].mine = AdmittedTo]
  <2>1. /\ Moved(a) /\ call'[a].pc = "inputs" /\ call'[a].created = call[a].created
        /\ call'[a].result = call[a].result
    BY <1>4, GateMoves
  <2>2. Proceeds(a)
    BY <1>2, <1>3, <2>1, NotDone DEF Proceeds
  <2> QED
    BY <1>1, <1>2, <2>1, <2>2, QuietFence
<1>5. CASE /\ Admit(a)
           /\ call' = [call EXCEPT ![a].mine = AdmittedTo,
                         ![a].pc = IF AdmittedTo = call[a].seen THEN "recheck" ELSE "abandon"]
  <2>1. /\ Moved(a) /\ call'[a].pc \in {"recheck", "abandon"}
        /\ call'[a].created = call[a].created /\ call'[a].result = call[a].result
    BY <1>5, ReadmitMoves
  <2>2. Proceeds(a)
    BY <1>2, <1>3, <2>1, NotDone DEF Proceeds
  <2> QED
    BY <1>1, <1>2, <2>1, <2>2, QuietFence
<1>6. ASSUME NEW r \in Result, Ends(a, r) PROVE FenceInv'
  BY <1>1, <1>2, <1>3, <1>6, FenceEnd
<1> QED
  BY <1>4, <1>5, <1>6 DEF Gate, Readmit, Result

\* Nor do the steps on inputs, claims and checks.
LEMMA InputsFence ==
  ASSUME ChargeInv, FenceInv, NEW a \in Attempt,
         \/ ProtectInputs(a) \/ AcceptanceGuard(a) \/ ReleaseInputs(a)
         \/ ReconcileReceipt(a) \/ AbandonClaim(a) \/ CheckReceipt(a) \/ RecheckReceipt(a)
  PROVE  FenceInv'
<1>1. /\ call[a].pc \in {"inputs", "guard", "release_inputs", "receipt_error", "abandon",
                         "check", "recheck"}
      /\ UNCHANGED <<cp1, cp3, user>>
  BY DEF ProtectInputs, AcceptanceGuard, ReleaseInputs, ReconcileReceipt, AbandonClaim,
         CheckReceipt, RecheckReceipt, At, storeVars
<1>2. call[a].pc # "done" /\ call[a].pc \notin Fencing
  BY <1>1 DEF Fencing
<1>3. faults' = 0 => faults = 0
  BY FaultsCount
  DEF ProtectInputs, AcceptanceGuard, ReleaseInputs, ReconcileReceipt, AbandonClaim,
      CheckReceipt, RecheckReceipt, FaultKind
<1>4. \/ \E pc \in {"guard", "abandon", "receipt", "release_inputs", "durable", "readmit",
                    "restore"} :
           Goto(a, pc) /\ (call[a].pc \in Compensating => pc \in Compensating)
      \/ \E r \in Result : Ends(a, r)
  <2>1. CASE ProtectInputs(a) \/ AcceptanceGuard(a)
    BY <2>1 DEF ProtectInputs, AcceptanceGuard, At, Compensating
  <2>2. CASE ReleaseInputs(a)
    BY <2>2 DEF ReleaseInputs, Compensating, Result
  <2>3. CASE ReconcileReceipt(a)
    BY <2>3 DEF ReconcileReceipt, At, Compensating, Result
  <2>4. CASE AbandonClaim(a)
    BY <2>4 DEF AbandonClaim, Result
  <2>5. CASE CheckReceipt(a)
    BY <2>5 DEF CheckReceipt, RequireLiveReceipt, At, Compensating, Result
  <2>6. CASE RecheckReceipt(a)
    BY <2>6 DEF RecheckReceipt, RequireLiveReceipt, At, Compensating
  <2> QED
    BY <2>1, <2>2, <2>3, <2>4, <2>5, <2>6
<1>5. ASSUME NEW pc \in {"guard", "abandon", "receipt", "release_inputs", "durable",
                         "readmit", "restore"},
             Goto(a, pc), call[a].pc \in Compensating => pc \in Compensating
      PROVE  FenceInv'
  BY <1>1, <1>2, <1>3, <1>5, FenceGoto DEF Step
<1>6. ASSUME NEW r \in Result, Ends(a, r) PROVE FenceInv'
  BY <1>1, <1>2, <1>3, <1>6, FenceEnd
<1> QED
  BY <1>4, <1>5, <1>6

\* The first accepted receipt has its creator.
LEMMA AcceptReceiptFence ==
  ASSUME ChargeInv, FenceInv, NEW a \in Attempt, AcceptReceipt(a) PROVE FenceInv'
<1>1. call[a].pc = "receipt" /\ UNCHANGED <<cp3, user>>
  BY DEF AcceptReceipt, At
<1>2. call[a].pc # "done" /\ call[a].pc \notin Compensating
  BY <1>1 DEF Compensating
<1>3. faults' = 0 => faults = 0
  BY FaultsCount DEF AcceptReceipt, FaultKind
<1>4. \/ cp1' = cp1
      \/ cp1.status = "absent" /\ cp1'.status = "accepted"
  <2>1. PutReceipt(a) \/ UNCHANGED cp1
    BY Zenon DEF AcceptReceipt
  <2> QED
    BY <2>1 DEF PutReceipt
<1>5. CASE /\ PutReceipt(a)
           /\ call' = [call EXCEPT ![a].pc = "durable", ![a].created = cp1.status = "absent"]
  <2>1. /\ Moved(a) /\ call'[a].pc = "durable"
        /\ call'[a].created = (cp1.status = "absent") /\ call'[a].result = call[a].result
    BY <1>5, ReceiptMoves
  <2>2. Proceeds(a)
    BY <1>2, <1>3, <2>1, NotDone DEF Proceeds
  <2>3. call'[a].created => cp1'.status # "absent"
    BY <1>5, <2>1 DEF PutReceipt
  <2> QED
    BY <1>1, <1>4, <2>1, <2>2, <2>3, PutReceiptFence
<1>6. ASSUME NEW definite \in BOOLEAN, Raises(a, "receipt_error", definite)
      PROVE  FenceInv'
  <2>1. /\ Moved(a) /\ Kept(a) /\ call'[a].pc = "receipt_error"
        /\ call'[a].result = call[a].result
    BY <1>6, CallTypes, RaisesMoves DEF Step
  <2>2. Proceeds(a)
    BY <1>2, <1>3, <2>1, NotDone DEF Proceeds
  <2>3. call[a].created => cp1.status # "absent"
    BY DEF FenceInv, CallOrigin
  <2>4. call'[a].created => cp1'.status # "absent"
    BY <1>4, <2>1, <2>3 DEF Kept
  <2> QED
    BY <1>1, <1>4, <2>1, <2>2, <2>4, PutReceiptFence DEF Kept
<1> QED
  BY <1>5, <1>6 DEF AcceptReceipt

\* A new row comes from its receipt's creator, from a replay or from a recovery.
LEMMA RowStepFence ==
  ASSUME ChargeInv, FenceInv, NEW a \in Attempt, AcceptRow(a) \/ RestoreRow(a)
  PROVE  FenceInv'
<1>1. call[a].pc \in {"durable", "restore"} /\ UNCHANGED <<cp1, user>>
  BY DEF AcceptRow, RestoreRow, At
<1>2. /\ call[a].pc # "done" /\ call[a].pc \notin Compensating
      /\ call[a].pc \notin Fencing
  BY <1>1 DEF Compensating, Fencing
<1>3. faults' = 0 => faults = 0
  BY FaultsCount DEF AcceptRow, RestoreRow, AcceptDurable, FaultKind
<1>4. /\ Moved(a) /\ Kept(a)
      /\ call'[a].pc \in {"done", "durable_error", "last_check", "abandon"}
      /\ call'[a].pc = "done" \/ call'[a].result = call[a].result
      /\ AcceptRow(a) => call'[a].pc = "done" \/ faults' # 0 \/ UNCHANGED cp3
      /\ RestoreRow(a) => call'[a].pc = "last_check" \/ faults' # 0 \/ UNCHANGED cp3
  <2>1. /\ call \in [Attempt -> CallState]
        /\ \A kind \in FaultKind : Fault(kind) => faults' # 0
    BY CallTypes, FaultBounded
  <2>2. CASE AcceptRow(a)
    <3>1. \/ Ends(a, "accepted")
          \/ Raises(a, "durable_error", TRUE) /\ UNCHANGED cp3
          \/ Raises(a, "durable_error", FALSE) /\ faults' # 0
      BY <2>1, <2>2 DEF AcceptRow, AcceptDurable, FaultKind
    <3>2. ~RestoreRow(a)
      BY <2>2 DEF AcceptRow, RestoreRow, At
    <3> QED
      BY <2>1, <3>1, <3>2, EndsMoves, RaisesMoves DEF Step, Result
  <2>3. CASE RestoreRow(a)
    <3>1. \/ Goto(a, "last_check")
          \/ Goto(a, "abandon") /\ UNCHANGED cp3
          \/ Ends(a, "uncertain") /\ faults' # 0
      BY <2>1, <2>3 DEF RestoreRow, AcceptDurable, FaultKind
    <3>2. ~AcceptRow(a)
      BY <2>3 DEF AcceptRow, RestoreRow, At
    <3> QED
      BY <2>1, <3>1, <3>2, EndsMoves, GotoMoves DEF Step, Result
  <2> QED
    BY <2>2, <2>3
<1>5. Proceeds(a)
  BY <1>2, <1>3, <1>4, NotDone DEF Proceeds
<1>6. CASE cp3' = cp3
  BY <1>1, <1>2, <1>4, <1>5, <1>6, QuietFence DEF Kept
<1>7. CASE cp3' # cp3
  <2>1. /\ cp3.status = "absent" /\ cp3'.status = "open"
        /\ cp3'.via \in {"created", "replayed", "recovered"}
        /\ cp3'.via = "created" => AcceptRow(a) /\ call[a].created
        /\ cp3'.via = "recovered" => RestoreRow(a)
    <3>1. CASE AcceptRow(a)
      <4>1. PutRow(call[a].mine, IF call[a].created THEN "created" ELSE "replayed")
        BY <1>7, <3>1, Zenon DEF AcceptRow, AcceptDurable
      <4> QED
        BY <1>7, <3>1, <4>1 DEF PutRow
    <3>2. CASE RestoreRow(a)
      <4>1. PutRow(call[a].seen, "recovered")
        BY <1>7, <3>2, Zenon DEF RestoreRow, AcceptDurable
      <4> QED
        BY <1>7, <3>2, <4>1 DEF PutRow
    <3> QED
      BY <3>1, <3>2
  <2>2. /\ cp3'.via = "created" => (faults' = 0 => call'[a].pc = "done")
        /\ cp3'.via = "recovered" => (faults' = 0 => call'[a].pc \in Fencing)
    BY <1>4, <1>7, <2>1 DEF Fencing
  <2> QED
    BY <1>1, <1>4, <1>5, <2>1, <2>2, PutRowFence DEF Kept
<1> QED
  BY <1>6, <1>7

\* Only the creator of the receipt goes on to cancel it.
LEMMA ReconcileRowFence ==
  ASSUME ChargeInv, FenceInv, NEW a \in Attempt, ReconcileRow(a) PROVE FenceInv'
<1>1. call[a].pc = "durable_error" /\ UNCHANGED <<cp1, cp3, user>>
  BY DEF ReconcileRow, At, storeVars
<1>2. /\ call[a].pc # "done" /\ call[a].pc \notin Compensating
      /\ call[a].pc \notin Fencing
  BY <1>1 DEF Compensating, Fencing
<1>3. faults' = 0 => faults = 0
  BY FaultsCount DEF ReconcileRow, FaultKind
<1>4. ASSUME NEW r \in Result, Ends(a, r) PROVE FenceInv'
  BY <1>1, <1>2, <1>3, <1>4, FenceEnd
<1>5. CASE Goto(a, "cancel_receipt") /\ call[a].created
  <2>1. /\ Moved(a) /\ Kept(a) /\ call'[a].pc = "cancel_receipt"
        /\ call'[a].result = call[a].result
    BY <1>5, CallTypes, GotoMoves DEF Step
  <2>2. Proceeds(a)
    BY <1>2, <1>3, <1>5, <2>1, NotDone DEF Proceeds, Kept
  <2> QED
    BY <1>1, <1>2, <2>1, <2>2, QuietFence DEF Kept
<1>6. \/ Ends(a, "uncertain") \/ Ends(a, "accepted") \/ Ends(a, "rejected")
      \/ Goto(a, "cancel_receipt") /\ call[a].created
  <2>1. CASE Fault("read") /\ Ends(a, "uncertain")
    BY <2>1
  <2>2. CASE cp3.status # "absent"
    BY <2>2 DEF ReconcileRow
  <2>3. CASE cp3.status = "absent" /\ ~call[a].definite
    BY <2>3 DEF ReconcileRow
  <2>4. CASE cp3.status = "absent" /\ call[a].definite
    BY <2>4 DEF ReconcileRow
  <2> QED
    BY <2>1, <2>2, <2>3, <2>4
<1> QED
  BY <1>4, <1>5, <1>6 DEF Result

\* A creator that cancels its receipt made no row.
LEMMA CompensationFence ==
  ASSUME ChargeInv, FenceInv, NEW a \in Attempt, CancelReceipt(a) PROVE FenceInv'
<1>1. call[a].pc = "cancel_receipt" /\ UNCHANGED <<cp3, user>>
  BY DEF CancelReceipt, At
<1>2. /\ call[a].pc # "done" /\ call[a].pc \notin Compensating
      /\ call[a].pc \notin Fencing
  BY <1>1 DEF Compensating, Fencing
<1>3. faults' = 0 => faults = 0
  BY FaultsCount DEF CancelReceipt, FaultKind
<1>4. CASE cp1' = CancelledReceipt /\ Goto(a, "look_again")
  <2>1. /\ Moved(a) /\ Kept(a) /\ call'[a].pc = "look_again"
        /\ call'[a].result = call[a].result
    BY <1>4, CallTypes, GotoMoves DEF Step
  <2>2. Proceeds(a)
    BY <1>2, <1>3, <2>1, NotDone DEF Proceeds
  <2>3. cp1.status # "absent" => cp1'.status # "absent"
    BY <1>4, CallTypes DEF CancelledReceipt, Receipt
  <2> QED
    BY <1>1, <2>1, <2>2, <2>3, CancelReceiptFence DEF Kept
<1>5. CASE UNCHANGED cp1 /\ Ends(a, "uncertain")
  BY <1>1, <1>2, <1>3, <1>5, FenceEnd DEF Result
<1> QED
  BY <1>4, <1>5 DEF CancelReceipt

\* The second look sees every row that was made before it.
LEMMA LookAgainFence ==
  ASSUME ChargeInv, FenceInv, NEW a \in Attempt, LookAgain(a) PROVE FenceInv'
<1>1. call[a].pc = "look_again" /\ UNCHANGED <<cp1, cp3, user>>
  BY DEF LookAgain, At, storeVars
<1>2. call[a].pc # "done"
  BY <1>1
<1>3. faults' = 0 => faults = 0
  BY FaultsCount DEF LookAgain, FaultKind
<1>4. CASE Goto(a, "release_inputs") /\ cp3.status = "absent"
  BY <1>1, <1>2, <1>3, <1>4, FenceGoto DEF Step, Compensating
<1>5. CASE Goto(a, "cancel_durable")
  BY <1>1, <1>2, <1>3, <1>5, FenceGoto DEF Step, Compensating, Fencing
<1>6. CASE Ends(a, "uncertain") /\ Fault("read")
  <2>1. faults' # 0
    BY <1>6, StoreTypes, FaultBounded
  <2> QED
    BY <1>1, <1>2, <1>3, <1>6, <2>1, FenceEnd DEF Result
<1> QED
  BY <1>4, <1>5, <1>6 DEF LookAgain

\* A row that is fenced is open no more.
LEMMA CancelDurableFence ==
  ASSUME ChargeInv, FenceInv, NEW a \in Attempt, CancelDurable(a) \/ UndoRow(a)
  PROVE  FenceInv'
<1>1. /\ call[a].pc \in {"cancel_durable", "undo"} /\ UNCHANGED <<cp1, user>>
      /\ CancelRowSuppressed
      /\ Goto(a, "release_inputs") \/ Ends(a, "rejected")
  BY DEF CancelDurable, UndoRow, At
<1>2. call[a].pc # "done"
  BY <1>1
<1>3. /\ faults' = 0 => faults = 0
      /\ faults' = 0 => cp3' = CancelledRow
  BY <1>1, StoreTypes, FaultBounded DEF CancelRowSuppressed
<1>4. /\ cp3'.via = cp3.via
      /\ cp3'.status # cp3.status => cp3.status = "open" /\ cp3'.status = "cancelling"
  BY <1>1, StoreTypes, RowCancelled DEF CancelRowSuppressed
<1>5. faults' = 0 => cp3'.status # "open"
  BY <1>3, StoreTypes DEF CancelledRow, Row, Open
<1>6. /\ Moved(a) /\ Kept(a)
      /\ \/ call'[a].pc = "done"
         \/ call'[a].pc = "release_inputs" /\ call'[a].result = call[a].result
  BY <1>1, CallTypes, GotoMoves, EndsMoves DEF Step, Result
<1>7. Proceeds(a)
  BY <1>2, <1>3, <1>6, NotDone DEF Proceeds, Compensating
<1> QED
  BY <1>1, <1>4, <1>5, <1>6, <1>7, CancelRowFence DEF Kept

\* The last check sees every cancellation of the receipt before it.
LEMMA LastCheckFence ==
  ASSUME ChargeInv, FenceInv, NEW a \in Attempt, LastCheck(a) PROVE FenceInv'
<1>1. call[a].pc = "last_check" /\ UNCHANGED <<cp1, cp3, user, faults>>
  BY DEF LastCheck, At, storeVars
<1>2. CASE cp1.status = "accepted" /\ Ends(a, "accepted")
  BY <1>1, <1>2, FenceEnd DEF Result
<1>3. CASE Goto(a, "undo")
  BY <1>1, <1>3, FenceGoto DEF Step, Compensating, Fencing
<1> QED
  BY <1>2, <1>3 DEF LastCheck, RequireLiveReceipt

\* A crash is a fault.
LEMMA CrashFence ==
  ASSUME ChargeInv, FenceInv, NEW a \in Attempt, Crash(a) PROVE FenceInv'
<1>1. /\ call[a].pc # "done" /\ Ends(a, "crashed") /\ UNCHANGED <<cp1, cp3, user>>
      /\ Fault("crash")
  BY DEF Crash, At, storeVars
<1>2. faults' # 0
  BY <1>1, StoreTypes, FaultBounded
<1> QED
  BY <1>1, <1>2, FenceEnd DEF Result

\* No step of the worker or the user opens a row; the user cancels the row first.
LEMMA StoreFence ==
  ASSUME ChargeInv, FenceInv,
         WorkerCloses \/ WorkerSettles \/ UserCancels \/ UserCancelsReceipt
  PROVE  FenceInv'
<1>1. UNCHANGED <<call, faults>>
  BY DEF WorkerCloses, WorkerSettles, UserCancels, UserCancelsReceipt
<1>2. /\ cp3'.via = cp3.via /\ cp3'.status # "open" /\ cp3'.status # "absent"
      /\ cp3.status # "absent"
  <2>1. cp3 \in Row
    BY StoreTypes
  <2>2. CASE UserCancelsReceipt
    BY <2>2 DEF UserCancelsReceipt, FenceInv, UserCancelledRow
  <2>3. CASE WorkerCloses \/ WorkerSettles \/ UserCancels
    <3>1. cp3.status # "absent"
      BY <2>3 DEF WorkerCloses, WorkerSettles, UserCancels, Open
    <3>2. CASE WorkerCloses
      BY <2>1, <3>1, <3>2 DEF WorkerCloses, Row
    <3>3. CASE WorkerSettles
      BY <2>1, <3>1, <3>3 DEF WorkerSettles, Row
    <3>4. CASE UserCancels
      BY <2>1, <3>1, <3>4 DEF UserCancels, CancelledRow, Row, Open
    <3> QED
      BY <2>3, <3>2, <3>3, <3>4
  <2> QED
    BY <2>2, <2>3
<1>3. /\ cp1.status # "absent" => cp1'.status # "absent"
      /\ cp1'.status = "cancel_requested" => cp1.status = "cancel_requested" \/ user' # "idle"
      /\ user # "idle" => user' # "idle"
  <2>1. cp1 \in Receipt
    BY StoreTypes
  <2>2. CASE UserCancelsReceipt
    BY <2>1, <2>2 DEF UserCancelsReceipt, CancelledReceipt, Receipt
  <2>3. CASE ~UserCancelsReceipt
    BY <2>3 DEF WorkerCloses, WorkerSettles, UserCancels
  <2> QED
    BY <2>2, <2>3
<1>4. ReceiptCancelled'
  BY <1>1, <1>3 DEF FenceInv, ReceiptCancelled
<1>5. CreatedRow' /\ RecoveredRow' /\ UserCancelledRow'
  BY <1>1, <1>2 DEF FenceInv, CreatedRow, RecoveredRow, UserCancelledRow
<1>6. ASSUME NEW a \in Attempt PROVE CallOrigin(a)'
  BY <1>1, <1>3 DEF FenceInv, CallOrigin
<1>7. OneCreator'
  BY <1>1 DEF FenceInv, OneCreator
<1> QED
  BY <1>2, <1>4, <1>5, <1>6, <1>7 DEF FenceInv

---------------------------------------------------------------------------
(* The second invariant.                                                   *)

\* No receipt or row was made yet.
LEMMA FenceInit == Init => FenceInv
BY DEF Init, FenceInv, CallOrigin, OneCreator, ReceiptCancelled, UserCancelledRow,
       CreatedRow, RecoveredRow

\* Every step keeps the second invariant.
LEMMA FenceNext == ASSUME ChargeInv, FenceInv, [Next]_vars PROVE FenceInv'
<1>1. ASSUME NEW a \in Attempt, CallNext(a) PROVE FenceInv'
  BY <1>1, LookupFence, RebindFence, AdmitFence, InputsFence, AcceptReceiptFence,
     RowStepFence, ReconcileRowFence, CompensationFence, LookAgainFence,
     CancelDurableFence, LastCheckFence
  DEF CallNext
<1>2. CASE Environment
  BY <1>2, CrashFence, StoreFence DEF Environment
<1>3. CASE UNCHANGED vars
  BY <1>3 DEF vars, FenceInv, CallOrigin, OneCreator, ReceiptCancelled, UserCancelledRow,
              CreatedRow, RecoveredRow
<1> QED
  BY <1>1, <1>2, <1>3 DEF Next

\* The inductive invariant of the fence: a receipt has one creator, and a row that
\* was made from it is cancelled with it or watched by a call that will cancel it.
THEOREM FenceInvariant == Spec => []FenceInv
<1>1. ChargeInv /\ FenceInv /\ [Next]_vars => FenceInv'
  BY FenceNext
<1> QED
  BY FenceInit, ChargeInvariant, <1>1, PTL DEF Spec

\* The last check of a recovery and the second look of a compensation close either
\* order of the receipt's cancellation and the row's acceptance, for any number of
\* attempts: work restored from a cancelled receipt is cancelled as well.
THEOREM RecoveredFenced == Spec => []RecoveredIsFenced
<1>1. ASSUME ChargeInv, FenceInv PROVE RecoveredIsFenced
  <2> SUFFICES ASSUME Answered, faults = 0, cp1.status = "cancel_requested",
                      cp3.status = "open"
               PROVE  cp3.via = "replayed"
    BY DEF RecoveredIsFenced
  <2>1. cp3.via \in {"created", "replayed", "recovered"}
    BY <1>1, StoreTypes DEF FenceInv, Row
  <2>2. cp3.via # "created"
    BY <1>1 DEF FenceInv, CreatedRow
  <2>3. ASSUME NEW a \in Attempt PROVE call[a].pc = "done"
    BY <1>1 DEF FenceInv, CallOrigin, Answered
  <2>4. cp3.via # "recovered"
    BY <1>1, <2>3 DEF FenceInv, RecoveredRow, Fencing
  <2> QED
    BY <2>1, <2>2, <2>4
<1> QED
  BY <1>1, ChargeInvariant, FenceInvariant, PTL
=============================================================================
