------------------------ MODULE CampaignLedgerProofs ------------------------
(***************************************************************************)
(* The ledger's allowance theorems, for every number of reservations,      *)
(* billing rows and groups and for all limits.                             *)
(***************************************************************************)
EXTENDS CampaignLedger, TableSumProofs

LEMMA Constants ==
  /\ NumReservations \in Nat /\ NumBills \in Nat /\ NumGroups \in Nat /\ MaxTime \in Nat
  /\ Amounts \subseteq Nat \ {0} /\ Costs \subseteq Nat
  /\ \A r \in Resources : TotalLimit[r] \in Nat /\ NormalLimit[r] \in Nat
                          /\ NormalLimit[r] <= TotalLimit[r]
  /\ 0 \notin Groups /\ Groups \subseteq Nat
BY CountsAssumption, AmountsAssumption, LimitsAssumption DEF Groups

(* Moving a row to another state or group keeps its columns' types.        *)
LEMMA RowUpdates ==
  ASSUME NEW row \in ReservationRow, NEW st \in States, NEW g \in Nat
  PROVE  /\ [row EXCEPT !.state = st] \in ReservationRow
         /\ [row EXCEPT !.state = st].state = st
         /\ [row EXCEPT !.state = st, !.group = g] \in ReservationRow
         /\ [row EXCEPT !.state = st, !.group = g].state = st
BY DEF ReservationRow

(* Freezing, or leaving the freeze alone, keeps the campaign row typed.    *)
LEMMA FreezeTyped ==
  ASSUME TypeOK, NEW why \in FreezeReasons, FreezeFor(why) \/ KeepFreeze
  PROVE  frozen' \in BOOLEAN /\ reason' \in FreezeReasons \union {NoReason}
BY DEF TypeOK, FreezeFor, KeepFreeze

LEMMA IncidentIsReason == IncidentReason \in FreezeReasons
BY DEF FreezeReasons

-----------------------------------------------------------------------------
(* An empty campaign is well typed, and every operation keeps it so.       *)
LEMMA LedgerInitTyped ==
  ASSUME Init
  PROVE  TypeOK
<1>1. AbsentRow \in ReservationRow
  BY DEF AbsentRow, ReservationRow, States, Resources, Purposes
<1>2. reservations \in [Reservations -> ReservationRow]
      /\ \A i \in Reservations : reservations[i] = AbsentRow
  BY <1>1 DEF Init
<1>3. priorUsage \in [Bills -> [resource: Resources \union {"none"}, actual: Nat]]
      /\ billed \in [Bills -> [group: {0} \union Groups, maximum: Nat]]
  BY DEF Init
<1>4. groups \in [Groups -> [scope: SUBSET Bills, floor: Nat, observed: Nat, excess: Nat]]
  BY DEF Init
<1> QED
  BY <1>2, <1>3, <1>4 DEF Init, TypeOK

LEMMA LedgerTypeStep ==
  ASSUME TypeOK, [Next]_ledgerVars
  PROVE  TypeOK'
<1>1. ASSUME NEW i \in Reservations, NEW r \in Resources, NEW amount \in Amounts,
             NEW expires \in 1..MaxTime, NEW purpose \in Purposes,
             Reserve(i, r, amount, expires, purpose)
      PROVE  TypeOK'
  BY <1>1, Constants DEF Reserve, TypeOK, ReservationRow, States, Resources, Purposes
<1>2. ASSUME NEW i \in Reservations, NEW actual \in Costs, NEW receipt \in Receipts,
             Settle(i, actual, receipt)
      PROVE  TypeOK'
  BY <1>2, Constants
  DEF Settle, TypeOK, ReservationRow, States, Resources, Purposes, FreezeFor,
      KeepFreeze, FreezeReasons
<1>3. ASSUME NEW b \in Bills, NEW r \in Resources, NEW actual \in Costs,
             RecordPriorUsage(b, r, actual)
      PROVE  TypeOK'
  <2>1. Accounted(actual, priorUsage[b].actual) \in Nat
    <3>1. actual \in Nat /\ priorUsage[b].actual \in Nat
      BY Constants DEF TypeOK
    <3> QED
      BY <3>1 DEF Accounted, Larger
  <2>2. FreezeFor(IncidentReason) \/ KeepFreeze
    BY <1>3, Zenon DEF RecordPriorUsage
  <2>3. frozen' \in BOOLEAN /\ reason' \in FreezeReasons \union {NoReason}
    BY <2>2, FreezeTyped, IncidentIsReason
  <2>4. priorUsage' \in [Bills -> [resource: Resources \union {"none"}, actual: Nat]]
    BY <1>3, <2>1 DEF RecordPriorUsage, TypeOK
  <2>5. UNCHANGED <<reservations, billed, groups, priorScope, tokenBudgetRemoved, now>>
    BY <1>3 DEF RecordPriorUsage
  <2> QED
    BY <2>3, <2>4, <2>5 DEF TypeOK
<1>4. ASSUME NEW scope \in SUBSET Bills \ {{}}, RegisterPriorScope(scope)
      PROVE  TypeOK'
  BY <1>4 DEF RegisterPriorScope, TypeOK
<1>5. ASSUME NEW why \in FreezeReasons, Freeze(why)
      PROVE  TypeOK'
  BY <1>5 DEF Freeze, FreezeFor, TypeOK
<1>6. CASE RemoveTokenBudget
  <2>1. "retired_token_policy" \in States /\ "retired_token_policy" # "absent"
    BY DEF States
  <2>2. /\ reservations' \in [Reservations -> ReservationRow]
        /\ \A i \in Reservations :
              reservations'[i].state = "absent" => reservations'[i] = AbsentRow
    BY <1>6, <2>1, RowUpdates DEF RemoveTokenBudget, TypeOK
  <2>3. frozen' \in BOOLEAN /\ reason' \in FreezeReasons \union {NoReason}
    BY <1>6 DEF RemoveTokenBudget, TypeOK, KeepFreeze
  <2>4. tokenBudgetRemoved' = TRUE
        /\ UNCHANGED <<priorUsage, billed, groups, priorScope, now>>
    BY <1>6 DEF RemoveTokenBudget
  <2> QED
    BY <2>2, <2>3, <2>4 DEF TypeOK
<1>7. ASSUME NEW g \in Groups, NEW scope \in SUBSET Bills, NEW floor \in Nat,
             NEW report \in Reports(scope), ApplyReport(g, scope, floor, report),
             reservations' \in [Reservations -> ReservationRow],
             \A i \in Reservations :
                reservations'[i].state = "absent" => reservations'[i] = AbsentRow
      PROVE  TypeOK'
  <2>1. \A b \in DOMAIN report : b \in Bills /\ report[b] \in Nat
    BY <1>7, Constants DEF Reports
  <2>2. billed' \in [Bills -> [group: {0} \union Groups, maximum: Nat]]
    <3>1. \A b \in DOMAIN report : Accounted(report[b], billed[b].maximum) \in Nat
      <4> TAKE b \in DOMAIN report
      <4>1. report[b] \in Nat /\ billed[b].maximum \in Nat
        BY <2>1 DEF TypeOK
      <4> QED
        BY <4>1 DEF Accounted, Larger
    <3>2. billed' = [b \in Bills |->
               IF b \in DOMAIN report
               THEN [group |-> g, maximum |-> Accounted(report[b], billed[b].maximum)]
               ELSE billed[b]]
      BY <1>7 DEF ApplyReport
    <3> QED
      BY <3>1, <3>2 DEF TypeOK
  <2>3. SumUpTo(GroupMaxima(g)', NumBills) \in Nat
    <3>1. \A b \in 1..NumBills : GroupMaxima(g)'[b] \in Nat
      BY <2>2 DEF GroupMaxima, Bills
    <3> QED
      BY <3>1, SumNat, Constants
  <2>4. Excess(SumUpTo(GroupMaxima(g)', NumBills), floor) \in Nat
    BY <2>3 DEF Excess, Larger
  <2>5. groups' \in [Groups -> [scope: SUBSET Bills, floor: Nat, observed: Nat, excess: Nat]]
    BY <1>7, <2>3, <2>4 DEF ApplyReport, TypeOK
  <2>6. FreezeFor(IncidentReason) \/ KeepFreeze
    BY <1>7, Zenon DEF ApplyReport
  <2>7. frozen' \in BOOLEAN /\ reason' \in FreezeReasons \union {NoReason}
    BY <2>6, FreezeTyped, IncidentIsReason
  <2>8. UNCHANGED <<priorUsage, priorScope, tokenBudgetRemoved, now>>
    BY <1>7 DEF ApplyReport
  <2> QED
    BY <1>7, <2>2, <2>5, <2>7, <2>8 DEF TypeOK
<1>8. ASSUME NEW g \in Groups, NEW scope \in SUBSET Bills,
             NEW members \in SUBSET Reservations, NEW report \in Reports(scope),
             ReconcileNew(g, scope, members, report)
      PROVE  TypeOK'
  <2>1. SumUpTo(MemberAmounts(members), NumReservations) \in Nat
    <3>1. \A i \in 1..NumReservations : MemberAmounts(members)[i] \in Nat
      BY DEF MemberAmounts, Reservations, TypeOK, ReservationRow
    <3> QED
      BY <3>1, SumNat, Constants
  <2>2. "reconciled_retained" \in States /\ "reconciled_retained" # "absent"
        /\ g \in Nat
    BY Constants DEF States
  <2>3. /\ reservations' \in [Reservations -> ReservationRow]
        /\ \A i \in Reservations :
              reservations'[i].state = "absent" => reservations'[i] = AbsentRow
    <3> DEFINE Retained(i) ==
          [reservations[i] EXCEPT !.state = "reconciled_retained", !.group = g]
    <3>1. \A i \in Reservations : /\ Retained(i) \in ReservationRow
                                  /\ Retained(i).state # "absent"
      BY <2>2, RowUpdates DEF TypeOK
    <3>2. reservations' = [i \in Reservations |->
                             IF i \in members THEN Retained(i) ELSE reservations[i]]
      BY <1>8 DEF ReconcileNew
    <3> HIDE DEF Retained
    <3> QED
      BY <3>1, <3>2 DEF TypeOK
  <2> QED
    BY <1>7, <1>8, <2>1, <2>3 DEF ReconcileNew
<1>9. ASSUME NEW g \in Groups, NEW report \in Reports(groups[g].scope),
             ReconcileRevision(g, report)
      PROVE  TypeOK'
  <2>1. groups[g].scope \in SUBSET Bills /\ groups[g].floor \in Nat
    BY DEF TypeOK
  <2> QED
    BY <1>7, <1>9, <2>1 DEF ReconcileRevision, TypeOK
<1>10. CASE Tick
  BY <1>10 DEF Tick, TypeOK
<1>11. CASE UNCHANGED ledgerVars
  BY <1>11 DEF ledgerVars, TypeOK
<1> QED
  BY <1>1, <1>2, <1>3, <1>4, <1>5, <1>6, <1>8, <1>9, <1>10, <1>11 DEF Next

(* The tables are well typed in every reachable state.                     *)
THEOREM LedgerTypeOK == Spec => []TypeOK
<1>1. Init => TypeOK
  BY LedgerInitTyped
<1>2. TypeOK /\ [Next]_ledgerVars => TypeOK'
  BY LedgerTypeStep
<1> QED
  BY <1>1, <1>2, PTL DEF Spec

-----------------------------------------------------------------------------
(* Usage arithmetic.                                                       *)

HoldCharges == SumUpTo(HeldForShutdown, NumReservations)
Charged(r, purposes) == SumUpTo(ReservationCharges(r, purposes), NumReservations)

(* Every column that is summed holds natural numbers.                      *)
LEMMA ColumnsNat ==
  ASSUME TypeOK
  PROVE  /\ \A r, purposes : \A i \in 1..NumReservations :
                ReservationCharges(r, purposes)[i] \in Nat
         /\ \A i \in 1..NumReservations : HeldForShutdown[i] \in Nat
         /\ \A r : \A b \in 1..NumBills : PriorCharges(r)[b] \in Nat
         /\ \A g \in 1..NumGroups : ExcessCharges[g] \in Nat
<1>1. \A i \in Reservations : Charge(reservations[i]) \in Nat /\ reservations[i].amount \in Nat
  BY DEF TypeOK, ReservationRow, Charge
<1> QED
  BY <1>1 DEF ReservationCharges, HeldForShutdown, PriorCharges, ExcessCharges,
              Reservations, Bills, Groups, TypeOK

LEMMA UsageNat ==
  ASSUME TypeOK
  PROVE  /\ HoldCharges \in Nat
         /\ \A r, purposes : Charged(r, purposes) \in Nat
         /\ \A r : Imported(r) \in Nat /\ Committed(r) \in Nat /\ NormalCommitted(r) \in Nat
<1>1. HoldCharges \in Nat /\ \A r, purposes : Charged(r, purposes) \in Nat
  BY ColumnsNat, SumNat, Constants DEF HoldCharges, Charged
<1>2. \A r : SumUpTo(PriorCharges(r), NumBills) \in Nat
  BY ColumnsNat, SumNat, Constants
<1>3. SumUpTo(ExcessCharges, NumGroups) \in Nat
  BY ColumnsNat, SumNat, Constants
<1>4. \A r : Imported(r) \in Nat
  BY <1>2, <1>3 DEF Imported
<1> QED
  BY <1>1, <1>4 DEF Committed, NormalCommitted, Charged

(* What is not normal is shutdown work.                                    *)
LEMMA ShutdownIsTheRest ==
  ASSUME TypeOK, NEW r
  PROVE  Committed(r) - NormalCommitted(r) = Charged(r, {"shutdown"})
<1> DEFINE all == ReservationCharges(r, Purposes)
           normal == ReservationCharges(r, {"normal"})
           shutdown == ReservationCharges(r, {"shutdown"})
<1>1. \A i \in 1..NumReservations : all[i] = normal[i] + shutdown[i]
  <2> TAKE i \in 1..NumReservations
  <2>1. reservations[i].purpose \in {"normal", "shutdown"} /\ Charge(reservations[i]) \in Nat
    BY DEF TypeOK, ReservationRow, Purposes, Reservations, Charge
  <2> QED
    BY <2>1 DEF ReservationCharges, Reservations, Purposes
<1>2. \A i \in 1..NumReservations : normal[i] \in Nat /\ shutdown[i] \in Nat
  BY ColumnsNat
<1>3. SumUpTo(all, NumReservations)
        = SumUpTo(normal, NumReservations) + SumUpTo(shutdown, NumReservations)
  <2> HIDE DEF all, normal, shutdown
  <2> QED
    BY <1>1, <1>2, SumAdd, Constants
<1>4. Imported(r) \in Nat /\ Charged(r, Purposes) \in Nat /\ Charged(r, {"normal"}) \in Nat
      /\ Charged(r, {"shutdown"}) \in Nat
  BY UsageNat
<1> QED
  BY <1>3, <1>4 DEF Committed, NormalCommitted, Charged

(* Holds counted up to their amount never exceed what is charged, and meet *)
(* it when nothing was settled above its hold.                             *)
LEMMA HoldsBelowCharges ==
  ASSUME TypeOK
  PROVE  /\ HoldCharges <= Charged("modal", {"shutdown"})
         /\ (\A i \in Reservations : reservations[i].resource = "modal"
                                     => Charge(reservations[i]) <= reservations[i].amount)
              => HoldCharges = Charged("modal", {"shutdown"})
<1>1. \A i \in 1..NumReservations :
         HeldForShutdown[i] <= ReservationCharges("modal", {"shutdown"})[i]
  <2> TAKE i \in 1..NumReservations
  <2>1. reservations[i].amount \in Nat /\ Charge(reservations[i]) \in Nat
    BY DEF TypeOK, ReservationRow, Reservations, Charge
  <2> QED
    BY <2>1 DEF HeldForShutdown, ReservationCharges, Reservations
<1>2. HoldCharges <= Charged("modal", {"shutdown"})
  BY <1>1, ColumnsNat, SumMonotone, Constants DEF HoldCharges, Charged
<1>3. ASSUME \A i \in Reservations : reservations[i].resource = "modal"
                                     => Charge(reservations[i]) <= reservations[i].amount
      PROVE  HoldCharges = Charged("modal", {"shutdown"})
  <2>1. \A i \in 1..NumReservations :
           HeldForShutdown[i] = ReservationCharges("modal", {"shutdown"})[i]
    BY <1>3 DEF HeldForShutdown, ReservationCharges, Reservations
  <2> QED
    BY <2>1, SumEqual, Constants DEF HoldCharges, Charged
<1> QED
  BY <1>2, <1>3

(* A step that changes one reservation changes usage by that row's charge. *)
LEMMA OneRowChanges ==
  ASSUME TypeOK, TypeOK', NEW i \in Reservations,
         \A j \in Reservations : j # i => reservations'[j] = reservations[j],
         UNCHANGED <<priorUsage, groups>>
  PROVE  /\ \A r, purposes : Charged(r, purposes)' = Charged(r, purposes)
              + (ReservationCharges(r, purposes)'[i] - ReservationCharges(r, purposes)[i])
         /\ HoldCharges' = HoldCharges + (HeldForShutdown'[i] - HeldForShutdown[i])
         /\ \A r : Imported(r)' = Imported(r)
<1>0. \A j \in Reservations :
         Charge(reservations'[j]) \in Nat /\ reservations'[j].amount \in Nat
  BY DEF TypeOK, ReservationRow, Charge
<1>1. ASSUME NEW r, NEW purposes
      PROVE  Charged(r, purposes)' = Charged(r, purposes)
              + (ReservationCharges(r, purposes)'[i] - ReservationCharges(r, purposes)[i])
  <2>1. \A j \in 1..NumReservations : j # i =>
           ReservationCharges(r, purposes)[j] = ReservationCharges(r, purposes)'[j]
    BY DEF ReservationCharges, Reservations
  <2>2. \A j \in 1..NumReservations : ReservationCharges(r, purposes)[j] \in Nat
                                     /\ ReservationCharges(r, purposes)'[j] \in Nat
    BY ColumnsNat, <1>0 DEF ReservationCharges, Reservations
  <2>3. NumReservations \in Nat /\ i \in 1..NumReservations
    BY Constants DEF Reservations
  <2> DEFINE f == ReservationCharges(r, purposes)
             g == ReservationCharges(r, purposes)'
  <2> HIDE DEF f, g
  <2>4. SumUpTo(g, NumReservations) = SumUpTo(f, NumReservations) + (g[i] - f[i])
    <3>1. \A j \in 1..NumReservations : f[j] \in Nat /\ g[j] \in Nat
      BY <2>2 DEF f, g
    <3>2. \A j \in 1..NumReservations : j # i => f[j] = g[j]
      BY <2>1 DEF f, g
    <3> QED
      BY ONLY <3>1, <3>2, <2>3, SumUpdate, SMTT(20)
  <2> QED
    BY <2>4 DEF Charged, f, g
<1>2. HoldCharges' = HoldCharges + (HeldForShutdown'[i] - HeldForShutdown[i])
  <2>1. \A j \in 1..NumReservations : j # i => HeldForShutdown[j] = HeldForShutdown'[j]
    BY DEF HeldForShutdown, Reservations
  <2>2. \A j \in 1..NumReservations : HeldForShutdown[j] \in Nat /\ HeldForShutdown'[j] \in Nat
    BY ColumnsNat, <1>0 DEF HeldForShutdown, Reservations
  <2>3. NumReservations \in Nat /\ i \in 1..NumReservations
    BY Constants DEF Reservations
  <2>4. SumUpTo(HeldForShutdown', NumReservations)
          = SumUpTo(HeldForShutdown, NumReservations) + (HeldForShutdown'[i] - HeldForShutdown[i])
    BY ONLY <2>1, <2>2, <2>3, SumUpdate, SMTT(20)
  <2> QED
    BY <2>4 DEF HoldCharges
<1>3. \A r : Imported(r)' = Imported(r)
  BY DEF Imported, PriorCharges, ExcessCharges
<1> QED
  BY <1>1, <1>2, <1>3

(* A step that moves reservations between states without touching what     *)
(* they are charged leaves every sum over reservations alone.              *)
LEMMA ChargesKept ==
  ASSUME TypeOK, TypeOK',
         \A i \in Reservations :
            /\ reservations'[i].resource = reservations[i].resource
            /\ reservations'[i].purpose = reservations[i].purpose
            /\ reservations'[i].amount = reservations[i].amount
            /\ Charge(reservations'[i]) = Charge(reservations[i])
  PROVE  /\ \A r, purposes : Charged(r, purposes)' = Charged(r, purposes)
         /\ HoldCharges' = HoldCharges
<1>1. ASSUME NEW r, NEW purposes
      PROVE  ReservationCharges(r, purposes)' = ReservationCharges(r, purposes)
  BY DEF ReservationCharges
<1>2. HeldForShutdown' = HeldForShutdown
  BY DEF HeldForShutdown
<1> QED
  BY <1>1, <1>2 DEF Charged, HoldCharges

-----------------------------------------------------------------------------
(* LedgerSound is inductive: one lemma per operation that touches usage.   *)

LEMMA UsageSplit ==
  ASSUME NEW r
  PROVE  /\ Committed(r) = Charged(r, Purposes) + Imported(r)
         /\ NormalCommitted(r) = Charged(r, {"normal"}) + Imported(r)
BY DEF Committed, NormalCommitted, Charged

(* A step that keeps every balance keeps the ledger sound, if it does not  *)
(* unfreeze the campaign and records no overrun.                           *)
LEMMA BalancesKeptSound ==
  ASSUME TypeOK, TypeOK', LedgerSound, frozen => frozen',
         tokenBudgetRemoved => tokenBudgetRemoved',
         \A r, purposes : Charged(r, purposes)' = Charged(r, purposes),
         HoldCharges' = HoldCharges,
         ~frozen' => \A r \in Resources : (r = "tokens" => ~tokenBudgetRemoved')
                                            => Imported(r)' = Imported(r),
         ~frozen' => NoUnfrozenOverrun'
  PROVE  LedgerSound'
<1>1. AllowanceRespected'
  BY UsageSplit DEF LedgerSound, AllowanceRespected, WithinLimits, Committed,
                    NormalCommitted, Charged
<1>2. ShutdownReserveKept'
  <2>1. "modal" \in Resources
    BY DEF Resources
  <2> QED
    BY <2>1, UsageNat DEF LedgerSound, ShutdownReserveKept, Committed, NormalCommitted, Charged
<1>3. NoUnfrozenOverrun'
  BY DEF NoUnfrozenOverrun
<1>4. ShutdownHoldsCapped'
  BY DEF LedgerSound, ShutdownHoldsCapped, HoldCharges
<1> QED
  BY <1>1, <1>2, <1>3, <1>4 DEF LedgerSound

LEMMA ReserveSound ==
  ASSUME TypeOK, TypeOK', LedgerSound,
         NEW i \in Reservations, NEW r \in Resources, NEW amount \in Amounts,
         NEW expires \in 1..MaxTime, NEW purpose \in Purposes,
         Reserve(i, r, amount, expires, purpose)
  PROVE  LedgerSound'
<1>1. /\ ~frozen /\ frozen' = frozen /\ tokenBudgetRemoved' = tokenBudgetRemoved
      /\ UNCHANGED <<priorUsage, groups>> /\ reservations[i] = AbsentRow
      /\ AllowanceLeft(r, amount, purpose) /\ amount \in Nat
      /\ r = "tokens" => purpose = "normal"
  BY Constants DEF Reserve, TypeOK
<1>2. reservations'[i] = [state |-> "held", resource |-> r, amount |-> amount,
                          purpose |-> purpose, expires |-> expires, actual |-> 0,
                          receipt |-> NoReceipt, group |-> 0]
  BY DEF Reserve, TypeOK
<1>3. \A j \in Reservations : j # i => reservations'[j] = reservations[j]
  BY DEF Reserve, TypeOK
<1>4. \A q, purposes : Charged(q, purposes)' = Charged(q, purposes)
         + (ReservationCharges(q, purposes)'[i] - ReservationCharges(q, purposes)[i])
  BY <1>1, <1>3, OneRowChanges
<1>5. HoldCharges' = HoldCharges + (HeldForShutdown'[i] - HeldForShutdown[i])
  BY <1>1, <1>3, OneRowChanges
<1>6. \A q : Imported(q)' = Imported(q)
  BY <1>1, <1>3, OneRowChanges
<1>7. /\ \A q, purposes : ReservationCharges(q, purposes)[i] = 0
      /\ HeldForShutdown[i] = 0
  BY <1>1 DEF ReservationCharges, HeldForShutdown, Charge, AbsentRow
<1>8. /\ \A q, purposes : ReservationCharges(q, purposes)'[i]
             = IF q = r /\ purpose \in purposes THEN amount ELSE 0
      /\ HeldForShutdown'[i] = IF r = "modal" /\ purpose = "shutdown" THEN amount ELSE 0
  BY <1>1, <1>2 DEF ReservationCharges, HeldForShutdown, Charge
<1>9. \A q \in Resources :
         /\ Committed(q)' = Committed(q) + (IF q = r THEN amount ELSE 0)
         /\ NormalCommitted(q)' = NormalCommitted(q)
              + (IF q = r /\ purpose = "normal" THEN amount ELSE 0)
  <2> TAKE q \in Resources
  <2>1. Charged(q, Purposes)' = Charged(q, Purposes) + (IF q = r THEN amount ELSE 0)
    BY <1>1, <1>4, <1>7, <1>8
  <2>2. Charged(q, {"normal"})' = Charged(q, {"normal"})
           + (IF q = r /\ purpose = "normal" THEN amount ELSE 0)
    BY <1>1, <1>4, <1>7, <1>8
  <2>3. Charged(q, Purposes) \in Nat /\ Charged(q, {"normal"}) \in Nat /\ Imported(q) \in Nat
    BY UsageNat
  <2> QED
    BY <1>1, <1>6, <2>1, <2>2, <2>3 DEF Committed, NormalCommitted, Charged
<1>10. \A q : Committed(q) \in Nat /\ NormalCommitted(q) \in Nat
  BY UsageNat
<1>11. AllowanceRespected'
  BY <1>1, <1>9, <1>10, Constants
  DEF LedgerSound, AllowanceRespected, WithinLimits, AllowanceLeft, Purposes
<1>12. ShutdownReserveKept'
  BY <1>1, <1>9, <1>10, Constants
  DEF LedgerSound, ShutdownReserveKept, AllowanceLeft, Purposes, Resources
<1>13. NoUnfrozenOverrun'
  <2>1. \A g \in Groups : groups'[g].excess = 0
    BY <1>1 DEF LedgerSound, NoUnfrozenOverrun
  <2>2. reservations'[i].state # "settled"
    BY <1>2
  <2> QED
    BY <1>1, <1>3, <2>1, <2>2 DEF LedgerSound, NoUnfrozenOverrun
<1>14. ShutdownHoldsCapped'
  <2>1. HoldCharges <= Committed("modal") - NormalCommitted("modal")
    BY HoldsBelowCharges, ShutdownIsTheRest
  <2>2. HoldCharges \in Nat
    BY UsageNat
  <2>3. CASE r = "modal" /\ purpose = "shutdown"
    BY <1>1, <1>5, <1>7, <1>8, <1>10, <2>1, <2>2, <2>3, Constants
    DEF ShutdownHoldsCapped, HoldCharges, AllowanceLeft
  <2>4. CASE ~(r = "modal" /\ purpose = "shutdown")
    BY <1>5, <1>7, <1>8, <2>2, <2>4 DEF LedgerSound, ShutdownHoldsCapped, HoldCharges
  <2> QED
    BY <2>3, <2>4
<1> QED
  BY <1>11, <1>12, <1>13, <1>14 DEF LedgerSound

LEMMA SettleSound ==
  ASSUME TypeOK, TypeOK', LedgerSound,
         NEW i \in Reservations, NEW actual \in Costs, NEW receipt \in Receipts,
         Settle(i, actual, receipt)
  PROVE  LedgerSound'
<1>1. /\ reservations[i].state = "held" /\ tokenBudgetRemoved' = tokenBudgetRemoved
      /\ UNCHANGED <<priorUsage, groups>> /\ actual \in Nat
      /\ reservations[i].amount \in Nat
  BY Constants DEF Settle, TypeOK, ReservationRow
<1>2. reservations'[i] = [reservations[i] EXCEPT !.state = "settled", !.actual = actual,
                                                 !.receipt = receipt]
  BY DEF Settle, TypeOK
<1>3. \A j \in Reservations : j # i => reservations'[j] = reservations[j]
  BY DEF Settle, TypeOK
<1>4. /\ reservations'[i].state = "settled" /\ reservations'[i].actual = actual
      /\ reservations'[i].amount = reservations[i].amount
      /\ reservations'[i].resource = reservations[i].resource
      /\ reservations'[i].purpose = reservations[i].purpose
  BY <1>2 DEF TypeOK, ReservationRow
<1>5. /\ \A q, purposes : Charged(q, purposes)' = Charged(q, purposes)
            + (ReservationCharges(q, purposes)'[i] - ReservationCharges(q, purposes)[i])
      /\ HoldCharges' = HoldCharges + (HeldForShutdown'[i] - HeldForShutdown[i])
      /\ \A q : Imported(q)' = Imported(q)
  BY <1>1, <1>3, OneRowChanges
<1>6. ShutdownHoldsCapped'
  <2>1. HeldForShutdown'[i] <= HeldForShutdown[i]
        /\ HeldForShutdown[i] \in Nat /\ HeldForShutdown'[i] \in Nat
    BY <1>1, <1>4 DEF HeldForShutdown, Charge
  <2> QED
    BY <1>5, <2>1, UsageNat, Constants
    DEF LedgerSound, ShutdownHoldsCapped, HoldCharges, Resources
<1>7. CASE actual > reservations[i].amount
  <2>1. frozen'
    BY <1>7 DEF Settle, FreezeFor
  <2> QED
    BY <2>1, <1>6
    DEF LedgerSound, AllowanceRespected, ShutdownReserveKept, NoUnfrozenOverrun
<1>8. CASE ~(actual > reservations[i].amount)
  <2>1. frozen' = frozen
    BY <1>8 DEF Settle, KeepFreeze
  <2> DEFINE d == reservations[i].amount - actual
  <2>2. d \in Nat
    BY <1>1, <1>8
  <2>3. \A q \in Resources :
           /\ Charged(q, Purposes)' = Charged(q, Purposes)
                - (IF reservations[i].resource = q THEN d ELSE 0)
           /\ Charged(q, {"normal"})' = Charged(q, {"normal"})
                - (IF reservations[i].resource = q /\ reservations[i].purpose = "normal"
                   THEN d ELSE 0)
    <3> TAKE q \in Resources
    <3>1. reservations[i].purpose \in Purposes
      BY DEF TypeOK, ReservationRow
    <3>2. \A purposes : /\ ReservationCharges(q, purposes)[i] =
                            IF reservations[i].resource = q /\ reservations[i].purpose \in purposes
                            THEN reservations[i].amount ELSE 0
                       /\ ReservationCharges(q, purposes)'[i] =
                            IF reservations[i].resource = q /\ reservations[i].purpose \in purposes
                            THEN actual ELSE 0
      BY <1>1, <1>4 DEF ReservationCharges, Charge
    <3>3. Charged(q, Purposes) \in Nat /\ Charged(q, {"normal"}) \in Nat
      BY UsageNat
    <3>4. Charged(q, Purposes)' = Charged(q, Purposes)
            - (IF reservations[i].resource = q THEN d ELSE 0)
      BY <1>1, <1>5, <3>1, <3>2, <3>3
    <3>5. Charged(q, {"normal"})' = Charged(q, {"normal"})
            - (IF reservations[i].resource = q /\ reservations[i].purpose = "normal"
               THEN d ELSE 0)
      BY <1>1, <1>5, <3>2, <3>3
    <3> QED
      BY <3>4, <3>5
  <2>4. \A q : Charged(q, Purposes) \in Nat /\ Charged(q, {"normal"}) \in Nat /\ Imported(q) \in Nat
    BY UsageNat
  <2>5. AllowanceRespected'
    <3> HIDE DEF d
    <3>1. \A q \in Resources : Charged(q, Purposes)' <= Charged(q, Purposes)
                               /\ Charged(q, {"normal"})' <= Charged(q, {"normal"})
                               /\ Charged(q, Purposes)' \in Int /\ Charged(q, {"normal"})' \in Int
      BY <2>2, <2>3, <2>4
    <3> QED
      BY <1>1, <1>5, <2>1, <2>4, <3>1, Constants
      DEF LedgerSound, AllowanceRespected, WithinLimits, Committed, NormalCommitted, Charged
  <2>6. ShutdownReserveKept'
    <3> HIDE DEF d
    <3>1. Charged("modal", Purposes)' - Charged("modal", {"normal"})'
            <= Charged("modal", Purposes) - Charged("modal", {"normal"})
      BY <2>2, <2>3, <2>4 DEF Resources
    <3>2. Charged("modal", Purposes)' \in Int /\ Charged("modal", {"normal"})' \in Int
      BY <2>2, <2>3, <2>4 DEF Resources
    <3> QED
      BY <1>5, <2>1, <2>4, <3>1, <3>2, Constants
      DEF LedgerSound, ShutdownReserveKept, Committed, NormalCommitted, Charged, Resources
  <2>7. NoUnfrozenOverrun'
    BY <1>1, <1>3, <1>4, <1>8, <2>1 DEF LedgerSound, NoUnfrozenOverrun
  <2> QED
    BY <1>6, <2>5, <2>6, <2>7 DEF LedgerSound
<1> QED
  BY <1>7, <1>8

LEMMA RecordPriorUsageSound ==
  ASSUME TypeOK, TypeOK', LedgerSound,
         NEW b \in Bills, NEW r \in Resources, NEW actual \in Costs,
         RecordPriorUsage(b, r, actual)
  PROVE  LedgerSound'
<1>1. UNCHANGED <<reservations, groups, tokenBudgetRemoved>>
  BY DEF RecordPriorUsage
<1>2. /\ \A q, purposes : Charged(q, purposes)' = Charged(q, purposes)
      /\ HoldCharges' = HoldCharges
  BY <1>1, ChargesKept
<1>3. ShutdownHoldsCapped'
  BY <1>2 DEF LedgerSound, ShutdownHoldsCapped, HoldCharges
<1>4. CASE frozen'
  BY <1>3, <1>4 DEF LedgerSound, AllowanceRespected, ShutdownReserveKept, NoUnfrozenOverrun
<1>5. CASE ~frozen'
  <2>1. ~frozen /\ (WithinLimits(r)' \/ (r = "tokens" /\ tokenBudgetRemoved))
    BY <1>5 DEF RecordPriorUsage, FreezeFor, KeepFreeze, TypeOK
  <2>2. \A q \in Resources : q # r => Imported(q)' = Imported(q)
    <3> TAKE q \in Resources
    <3> HAVE q # r
    <3>1. \A c \in Bills : PriorCharges(q)'[c] = PriorCharges(q)[c]
      BY DEF RecordPriorUsage, PriorCharges, TypeOK, Resources
    <3>2. SumUpTo(PriorCharges(q)', NumBills) = SumUpTo(PriorCharges(q), NumBills)
      BY <3>1, SumEqual, Constants DEF Bills
    <3> QED
      BY <1>1, <3>2 DEF Imported, ExcessCharges
  <2>3. AllowanceRespected'
    BY <1>1, <1>2, <2>1, <2>2
    DEF LedgerSound, AllowanceRespected, WithinLimits, Committed, NormalCommitted, Charged
  <2>4. ShutdownReserveKept'
    <3>1. /\ Imported("modal") \in Nat /\ Charged("modal", Purposes) \in Nat
          /\ Charged("modal", {"normal"}) \in Nat
      BY UsageNat
    <3>2. Imported("modal")' \in Nat
      <4>1. \A c \in 1..NumBills : PriorCharges("modal")'[c] \in Nat
        BY DEF PriorCharges, Bills, TypeOK
      <4>2. \A g \in 1..NumGroups : ExcessCharges'[g] \in Nat
        BY DEF ExcessCharges, Groups, TypeOK
      <4>3. SumUpTo(PriorCharges("modal")', NumBills) \in Nat
            /\ SumUpTo(ExcessCharges', NumGroups) \in Nat
        BY <4>1, <4>2, SumNat, Constants
      <4> QED
        BY <4>3 DEF Imported
    <3> QED
      BY <1>2, <2>1, <3>1, <3>2
      DEF LedgerSound, ShutdownReserveKept, Committed, NormalCommitted, Charged
  <2>5. NoUnfrozenOverrun'
    BY <1>1, <2>1 DEF LedgerSound, NoUnfrozenOverrun
  <2> QED
    BY <1>3, <2>3, <2>4, <2>5 DEF LedgerSound
<1> QED
  BY <1>4, <1>5

LEMMA RemoveTokenBudgetSound ==
  ASSUME TypeOK, TypeOK', LedgerSound, RemoveTokenBudget
  PROVE  LedgerSound'
<1>1. UNCHANGED <<priorUsage, groups>> /\ tokenBudgetRemoved' = TRUE
  BY DEF RemoveTokenBudget
<1>2. \A i \in Reservations :
         /\ reservations'[i].resource = reservations[i].resource
         /\ reservations'[i].purpose = reservations[i].purpose
         /\ reservations'[i].amount = reservations[i].amount
         /\ reservations'[i].actual = reservations[i].actual
         /\ reservations'[i].state = "settled" <=> reservations[i].state = "settled"
  BY DEF RemoveTokenBudget, HeldTokens, TypeOK, ReservationRow
<1>3. /\ \A q, purposes : Charged(q, purposes)' = Charged(q, purposes)
      /\ HoldCharges' = HoldCharges
  <2>1. \A i \in Reservations : Charge(reservations'[i]) = Charge(reservations[i])
    BY <1>2 DEF Charge
  <2> QED
    BY <1>2, <2>1, ChargesKept
<1>4. \A q : Imported(q)' = Imported(q)
  BY <1>1 DEF Imported, PriorCharges, ExcessCharges
<1>5. \A q : Committed(q)' = Committed(q) /\ NormalCommitted(q)' = NormalCommitted(q)
  BY <1>3, <1>4 DEF Committed, NormalCommitted, Charged
<1>6. ShutdownHoldsCapped'
  BY <1>3 DEF LedgerSound, ShutdownHoldsCapped, HoldCharges
<1>7. CASE frozen'
  BY <1>6, <1>7 DEF LedgerSound, AllowanceRespected, ShutdownReserveKept, NoUnfrozenOverrun
<1>8. CASE ~frozen' /\ ~frozen
  <2>1. AllowanceRespected'
    BY <1>1, <1>5, <1>8 DEF LedgerSound, AllowanceRespected, WithinLimits, Resources
  <2>2. ShutdownReserveKept'
    BY <1>5, <1>8 DEF LedgerSound, ShutdownReserveKept
  <2>3. NoUnfrozenOverrun'
    BY <1>1, <1>2, <1>8 DEF LedgerSound, NoUnfrozenOverrun
  <2> QED
    BY <1>6, <2>1, <2>2, <2>3 DEF LedgerSound
<1>9. CASE ~frozen' /\ frozen
  <2>1. ModalSafe
    BY <1>9 DEF RemoveTokenBudget, KeepFreeze
  <2>2. AllowanceRespected'
    BY <1>1, <1>5, <2>1 DEF AllowanceRespected, WithinLimits, ModalSafe, Resources
  <2>3. \A i \in Reservations :
           reservations[i].resource = "modal" /\ reservations[i].state = "settled"
             => reservations[i].actual <= reservations[i].amount
    BY <2>1 DEF ModalSafe, ModalOverrun, TypeOK, ReservationRow
  <2>4. \A g \in Groups : groups[g].excess = 0
    BY <2>1 DEF ModalSafe, ModalOverrun, TypeOK
  <2>5. NoUnfrozenOverrun'
    BY <1>1, <1>2, <2>3, <2>4 DEF NoUnfrozenOverrun, TypeOK, ReservationRow, Resources
  <2>6. ShutdownReserveKept'
    <3>1. \A i \in Reservations : reservations[i].resource = "modal"
             => Charge(reservations[i]) <= reservations[i].amount
      BY <2>3 DEF Charge, TypeOK, ReservationRow
    <3>2. Committed("modal") - NormalCommitted("modal") = HoldCharges
      BY <3>1, HoldsBelowCharges, ShutdownIsTheRest
    <3> QED
      BY <1>5, <3>2 DEF LedgerSound, ShutdownReserveKept, ShutdownHoldsCapped, HoldCharges
  <2> QED
    BY <1>6, <2>2, <2>5, <2>6 DEF LedgerSound
<1> QED
  BY <1>7, <1>8, <1>9

(* Reconciliation keeps what its members are charged; an excess freezes.   *)
LEMMA ApplyReportSound ==
  ASSUME TypeOK, TypeOK', LedgerSound,
         NEW g \in Groups, NEW scope \in SUBSET Bills, NEW floor \in Nat,
         NEW report \in Reports(scope), ApplyReport(g, scope, floor, report),
         \A i \in Reservations :
            /\ reservations'[i].resource = reservations[i].resource
            /\ reservations'[i].purpose = reservations[i].purpose
            /\ reservations'[i].amount = reservations[i].amount
            /\ reservations'[i].actual = reservations[i].actual
            /\ reservations'[i].state = "settled" <=> reservations[i].state = "settled"
  PROVE  LedgerSound'
<1>1. UNCHANGED <<priorUsage, tokenBudgetRemoved>>
  BY DEF ApplyReport
<1>2. /\ \A q, purposes : Charged(q, purposes)' = Charged(q, purposes)
      /\ HoldCharges' = HoldCharges
  <2>1. \A i \in Reservations : Charge(reservations'[i]) = Charge(reservations[i])
    BY DEF Charge
  <2> QED
    BY <2>1, ChargesKept
<1>3. frozen => frozen'
  BY DEF ApplyReport, FreezeFor, KeepFreeze
<1>4. ASSUME ~frozen'
      PROVE  \A h \in Groups : groups[h].excess = 0 /\ groups'[h].excess = 0
  <2> TAKE h \in Groups
  <2>1. groups[h].excess = 0
    BY <1>3, <1>4 DEF LedgerSound, NoUnfrozenOverrun
  <2>2. h # g => groups'[h] = groups[h]
    BY DEF ApplyReport, TypeOK
  <2> DEFINE excess == Excess(SumUpTo(GroupMaxima(g)', NumBills), floor)
  <2>3. groups'[g].excess = excess
    BY DEF ApplyReport, TypeOK
  <2>4. ~(excess > 0)
    BY <1>4 DEF ApplyReport, FreezeFor, KeepFreeze
  <2>5. groups'[g].excess \in Nat
    BY DEF TypeOK
  <2> QED
    <3> HIDE DEF excess
    <3> QED
      BY <2>1, <2>2, <2>3, <2>4, <2>5
<1>5. ASSUME ~frozen' PROVE \A r \in Resources : Imported(r)' = Imported(r)
  <2>1. ExcessCharges' = ExcessCharges
    BY <1>4, <1>5 DEF ExcessCharges
  <2> QED
    BY <1>1, <2>1 DEF Imported, PriorCharges
<1>6. ASSUME ~frozen' PROVE NoUnfrozenOverrun'
  BY <1>1, <1>3, <1>4, <1>6 DEF LedgerSound, NoUnfrozenOverrun
<1> QED
  BY <1>1, <1>2, <1>3, <1>5, <1>6, BalancesKeptSound

LEMMA InitSound ==
  ASSUME Init
  PROVE  LedgerSound
<1>1. /\ \A r, purposes : \A i \in 1..NumReservations : ReservationCharges(r, purposes)[i] = 0
      /\ \A i \in 1..NumReservations : HeldForShutdown[i] = 0
      /\ \A r \in Resources : \A b \in 1..NumBills : PriorCharges(r)[b] = 0
      /\ \A g \in 1..NumGroups : ExcessCharges[g] = 0
  BY DEF Init, AbsentRow, Charge, ReservationCharges, HeldForShutdown, PriorCharges,
         ExcessCharges, Reservations, Bills, Groups, Resources
<1>2. ASSUME NEW n \in Nat, NEW f, \A i \in 1..n : f[i] = 0
      PROVE  SumUpTo(f, n) = 0
  <2> DEFINE zero == [i \in 1..n |-> 0]
  <2>1. SumUpTo(zero, n) = SumUpTo(zero, n) + SumUpTo(zero, n) /\ SumUpTo(zero, n) \in Nat
    BY SumAdd, SumNat
  <2>2. SumUpTo(f, n) = SumUpTo(zero, n)
    BY <1>2, SumEqual
  <2> QED
    BY <2>1, <2>2
<1>3. /\ \A r \in Resources : Committed(r) = 0 /\ NormalCommitted(r) = 0
      /\ SumUpTo(HeldForShutdown, NumReservations) = 0
  BY <1>1, <1>2, Constants DEF Committed, NormalCommitted, Imported
<1>4. "modal" \in Resources
  BY DEF Resources
<1>5. NoUnfrozenOverrun
  BY DEF Init, AbsentRow, NoUnfrozenOverrun
<1> QED
  BY <1>3, <1>4, <1>5, Constants
  DEF LedgerSound, AllowanceRespected, WithinLimits, ShutdownReserveKept, ShutdownHoldsCapped

LEMMA NextSound ==
  ASSUME TypeOK, TypeOK', LedgerSound, [Next]_ledgerVars
  PROVE  LedgerSound'
<1>1. ASSUME NEW g \in Groups, NEW scope \in SUBSET Bills,
             NEW members \in SUBSET Reservations, NEW report \in Reports(scope),
             ReconcileNew(g, scope, members, report)
      PROVE  LedgerSound'
  <2>1. SumUpTo(MemberAmounts(members), NumReservations) \in Nat
    <3>1. \A i \in 1..NumReservations : MemberAmounts(members)[i] \in Nat
      BY DEF MemberAmounts, Reservations, TypeOK, ReservationRow
    <3> QED
      BY <3>1, SumNat, Constants
  <2>2. \A i \in Reservations :
           /\ reservations'[i].resource = reservations[i].resource
           /\ reservations'[i].purpose = reservations[i].purpose
           /\ reservations'[i].amount = reservations[i].amount
           /\ reservations'[i].actual = reservations[i].actual
           /\ reservations'[i].state = "settled" <=> reservations[i].state = "settled"
    <3> TAKE i \in Reservations
    <3>1. reservations[i] \in ReservationRow
      BY DEF TypeOK
    <3>2. CASE i \in members
      <4> DEFINE retained == [reservations[i] EXCEPT !.state = "reconciled_retained", !.group = g]
      <4>1. reservations'[i] = retained /\ reservations[i].state = "held"
        BY <1>1, <3>2, Zenon DEF ReconcileNew
      <4>2. /\ retained.resource = reservations[i].resource
            /\ retained.purpose = reservations[i].purpose
            /\ retained.amount = reservations[i].amount
            /\ retained.actual = reservations[i].actual
            /\ retained.state = "reconciled_retained"
        BY <3>1 DEF ReservationRow
      <4> HIDE DEF retained
      <4> QED
        BY <4>1, <4>2
    <3>3. CASE i \notin members
      <4>1. reservations'[i] = reservations[i]
        BY <1>1, <3>3, Zenon DEF ReconcileNew
      <4> QED
        BY <4>1
    <3> QED
      BY <3>2, <3>3
  <2> QED
    BY <1>1, <2>1, <2>2, ApplyReportSound DEF ReconcileNew
<1>2. ASSUME NEW g \in Groups, NEW report \in Reports(groups[g].scope),
             ReconcileRevision(g, report)
      PROVE  LedgerSound'
  <2>1. groups[g].scope \in SUBSET Bills /\ groups[g].floor \in Nat
    BY DEF TypeOK
  <2> QED
    BY <1>2, <2>1, ApplyReportSound DEF ReconcileRevision
<1>3. ASSUME UNCHANGED <<reservations, priorUsage, groups, tokenBudgetRemoved>>,
             frozen' = TRUE \/ frozen' = frozen
      PROVE  LedgerSound'
  <2>1. \A r, purposes : Charged(r, purposes)' = Charged(r, purposes)
    BY <1>3 DEF Charged, ReservationCharges
  <2>2. HoldCharges' = HoldCharges
    BY <1>3 DEF HoldCharges, HeldForShutdown
  <2>3. \A r : Imported(r)' = Imported(r)
    BY <1>3 DEF Imported, PriorCharges, ExcessCharges
  <2>4. frozen => frozen'
    BY <1>3
  <2>5. ~frozen' => NoUnfrozenOverrun'
    BY <1>3 DEF LedgerSound, NoUnfrozenOverrun
  <2> QED
    BY <1>3, <2>1, <2>2, <2>3, <2>4, <2>5, BalancesKeptSound
<1>4. ASSUME NEW scope \in SUBSET Bills \ {{}}, RegisterPriorScope(scope)
      PROVE  LedgerSound'
  BY <1>3, <1>4 DEF RegisterPriorScope
<1>5. ASSUME NEW why \in FreezeReasons, Freeze(why)
      PROVE  LedgerSound'
  BY <1>3, <1>5 DEF Freeze, FreezeFor
<1>6. CASE Tick
  BY <1>3, <1>6 DEF Tick
<1>7. CASE UNCHANGED ledgerVars
  BY <1>3, <1>7 DEF ledgerVars
<1> QED
  BY <1>1, <1>2, <1>4, <1>5, <1>6, <1>7, ReserveSound, SettleSound,
     RecordPriorUsageSound, RemoveTokenBudgetSound DEF Next

(* An admitting campaign never has more committed than its allowance, for  *)
(* every schedule of holds, settlements, imports, reconciliations, freezes *)
(* and the token migration.  AllowanceRespected alone is not inductive:    *)
(* that no operation raised usage past a hold without freezing, and that   *)
(* shutdown holds stay capped even while frozen, complete it.              *)
THEOREM LedgerIsSound == Spec => []LedgerSound
<1>1. Init => LedgerSound
  BY InitSound
<1>2. TypeOK /\ TypeOK' /\ LedgerSound /\ [Next]_ledgerVars => LedgerSound'
  BY NextSound
<1> QED
  BY <1>1, <1>2, LedgerTypeOK, PTL DEF Spec

(* Holds, settled usage, imported history and reconciled excess together   *)
(* stay within both limits of each enforced resource while work is         *)
(* admitted.                                                               *)
THEOREM AllowanceAlwaysRespected == Spec => []AllowanceRespected
<1>1. LedgerSound => AllowanceRespected
  BY DEF LedgerSound
<1> QED
  BY <1>1, LedgerIsSound, PTL

(* Cleanup work never eats the allowance of normal work.                   *)
THEOREM ShutdownReserveAlwaysKept == Spec => []ShutdownReserveKept
<1>1. LedgerSound => ShutdownReserveKept
  BY DEF LedgerSound
<1> QED
  BY <1>1, LedgerIsSound, PTL

-----------------------------------------------------------------------------
(* Bills and what was accounted for.                                       *)

(* Each group's figures follow from its rows, an unused one has none, and  *)
(* the floors of all groups are what the reconciled holds still charge.    *)
GroupFit(g) ==
  /\ groups[g].observed = SumUpTo(GroupMaxima(g), NumBills)
  /\ groups[g].excess = Excess(groups[g].observed, groups[g].floor)
  /\ groups[g].scope = {} => groups[g].floor = 0
Floors == [g \in Groups |-> groups[g].floor]
RetainedAmounts ==
  [i \in Reservations |->
     IF reservations[i].state = "reconciled_retained" THEN reservations[i].amount ELSE 0]
RetainedFit ==
  /\ \A i \in Reservations :
       reservations[i].state = "reconciled_retained" => reservations[i].resource = "modal"
  /\ SumUpTo(Floors, NumGroups) = SumUpTo(RetainedAmounts, NumReservations)
BillingSound == /\ BillsCountedOnce /\ RetainedFit
                /\ \A g \in Groups : GroupFit(g)

LEMMA SumOfZeros ==
  ASSUME NEW n \in Nat, NEW f, \A i \in 1..n : f[i] = 0
  PROVE  SumUpTo(f, n) = 0
<1> DEFINE zero == [i \in 1..n |-> 0]
<1>1. SumUpTo(zero, n) = SumUpTo(zero, n) + SumUpTo(zero, n) /\ SumUpTo(zero, n) \in Nat
  BY SumAdd, SumNat
<1>2. SumUpTo(f, n) = SumUpTo(zero, n)
  BY SumEqual
<1> QED
  BY <1>1, <1>2

LEMMA GreatestCost ==
  ASSUME NEW a \in Nat, NEW b \in Nat
  PROVE  Accounted(a, b) \in Nat /\ Accounted(a, b) >= b
BY DEF Accounted, Larger

LEMMA BillingStarts ==
  ASSUME Init
  PROVE  BillingSound
<1>1. /\ \A b \in Bills : priorUsage[b].resource = "none" /\ billed[b].group = 0
      /\ \A i \in Reservations : reservations[i].state = "absent"
      /\ \A g \in Groups : /\ groups[g].scope = {} /\ groups[g].floor = 0
                           /\ groups[g].observed = 0 /\ groups[g].excess = 0
  BY DEF Init, AbsentRow
<1>2. \A g \in Groups : SumUpTo(GroupMaxima(g), NumBills) = 0
  <2> TAKE g \in Groups
  <2>1. \A b \in 1..NumBills : GroupMaxima(g)[b] = 0
    BY <1>1, Constants DEF GroupMaxima, Bills
  <2> QED
    BY <2>1, SumOfZeros, Constants
<1>3. \A g \in Groups : GroupFit(g)
  BY <1>1, <1>2 DEF GroupFit, Excess, Larger
<1>4. SumUpTo(Floors, NumGroups) = 0 /\ SumUpTo(RetainedAmounts, NumReservations) = 0
  <2>1. (\A g \in 1..NumGroups : Floors[g] = 0) /\ (\A i \in 1..NumReservations : RetainedAmounts[i] = 0)
    BY <1>1 DEF Floors, RetainedAmounts, Groups, Reservations
  <2> QED
    BY <2>1, SumOfZeros, Constants
<1> QED
  BY <1>1, <1>3, <1>4 DEF BillingSound, BillsCountedOnce, RetainedFit

(* A step that leaves bills, groups and reconciled rows alone.             *)
LEMMA BillingKept ==
  ASSUME BillingSound, UNCHANGED <<billed, groups>>, BillsCountedOnce',
         \A i \in Reservations :
            IF reservations[i].state = "reconciled_retained"
            THEN reservations'[i] = reservations[i]
            ELSE reservations'[i].state # "reconciled_retained"
  PROVE  BillingSound'
<1>1. \A g \in Groups : GroupFit(g)'
  BY DEF BillingSound, GroupFit, GroupMaxima
<1>2. Floors' = Floors /\ RetainedAmounts' = RetainedAmounts
  BY DEF Floors, RetainedAmounts
<1>3. RetainedFit'
  BY <1>2 DEF BillingSound, RetainedFit
<1> QED
  BY <1>1, <1>3 DEF BillingSound

(* What a report does to its group, and to no other.                       *)
LEMMA ReportApplied ==
  ASSUME TypeOK, TypeOK', BillingSound, NEW g \in Groups, NEW scope \in SUBSET Bills,
         NEW floor \in Nat, NEW report \in Reports(scope), ApplyReport(g, scope, floor, report),
         groups[g].scope = {} \/ (groups[g].scope = scope /\ groups[g].floor = floor),
         scope # {}
  PROVE  /\ BillsCountedOnce'
         /\ \A h \in Groups : GroupFit(h)' /\ groups'[h].excess >= groups[h].excess
         /\ \A b \in Bills : billed'[b].maximum >= billed[b].maximum
         /\ groups'[g].floor = floor
         /\ \A h \in Groups \ {g} : groups'[h] = groups[h]
<1>1. \A b \in DOMAIN report : b \in Bills /\ b \in scope /\ report[b] \in Nat
  BY Constants DEF Reports
<1>2. /\ UNCHANGED <<priorUsage, priorScope, tokenBudgetRemoved, now>>
      /\ \A b \in DOMAIN report : /\ priorUsage[b].resource = "none"
                                  /\ billed[b].group \in {0, g}
  BY DEF ApplyReport
<1>3. \A b \in Bills :
        IF b \in DOMAIN report
        THEN billed'[b].group = g /\ billed'[b].maximum = Accounted(report[b], billed[b].maximum)
        ELSE billed'[b] = billed[b]
  BY DEF ApplyReport
<1>4. \A b \in Bills : billed[b].maximum \in Nat /\ billed'[b].maximum \in Nat
  BY DEF TypeOK
<1>5. \A b \in Bills : billed'[b].maximum >= billed[b].maximum
  <2> TAKE b \in Bills
  <2>1. CASE b \in DOMAIN report
    <3>1. Accounted(report[b], billed[b].maximum) >= billed[b].maximum
      BY <1>1, <1>4, <2>1, GreatestCost
    <3> QED
      BY <1>3, <2>1, <3>1
  <2>2. CASE b \notin DOMAIN report
    BY <1>3, <1>4, <2>2
  <2> QED
    BY <2>1, <2>2
<1>6. PICK observed : observed = SumUpTo(GroupMaxima(g)', NumBills)
  OBVIOUS
<1>7. groups' = [groups EXCEPT ![g] = [scope |-> scope, floor |-> floor, observed |-> observed,
                                       excess |-> Excess(observed, floor)]]
  BY <1>6 DEF ApplyReport
<1>8. /\ groups'[g].scope = scope /\ groups'[g].floor = floor
      /\ groups'[g].observed = observed /\ groups'[g].excess = Excess(observed, floor)
      /\ \A h \in Groups \ {g} : groups'[h] = groups[h]
  BY <1>7 DEF TypeOK
<1>9. GroupFit(g)'
  BY <1>6, <1>8 DEF GroupFit
<1>10. \A b \in Bills : billed[b].group = g => b \in groups[g].scope
  BY DEF BillingSound, BillsCountedOnce, Groups
<1>11. BillsCountedOnce'
  <2> SUFFICES ASSUME NEW b \in Bills
               PROVE  /\ priorUsage'[b].resource = "modal" => billed'[b].group = 0
                      /\ billed'[b].group # 0 => b \in groups'[billed'[b].group].scope
    BY DEF BillsCountedOnce
  <2>1. CASE b \in DOMAIN report
    BY <1>1, <1>2, <1>3, <1>8, <2>1
  <2>2. CASE b \notin DOMAIN report
    <3>1. billed'[b] = billed[b] /\ billed[b].group \in {0} \union Groups
      BY <1>3, <2>2 DEF TypeOK
    <3>2. billed[b].group = g => b \in scope
      BY <1>10
    <3> QED
      BY <1>2, <1>8, <3>1, <3>2 DEF BillingSound, BillsCountedOnce
  <2> QED
    BY <2>1, <2>2
<1>12. ASSUME NEW h \in Groups, h # g PROVE GroupFit(h)'
  <2>1. \A b \in Bills : GroupMaxima(h)'[b] = GroupMaxima(h)[b]
    BY <1>2, <1>3, <1>12, Constants DEF GroupMaxima
  <2>2. GroupMaxima(h)' = GroupMaxima(h)
    BY <2>1 DEF GroupMaxima
  <2> QED
    BY <1>8, <1>12, <2>2 DEF BillingSound, GroupFit
<1>13. groups'[g].excess >= groups[g].excess
  <2>1. \A b \in 1..NumBills : /\ GroupMaxima(g)[b] \in Nat /\ GroupMaxima(g)'[b] \in Nat
                               /\ GroupMaxima(g)[b] <= GroupMaxima(g)'[b]
    <3> TAKE b \in 1..NumBills
    <3>1. b \in Bills
      BY DEF Bills
    <3>2. billed[b].group = g => billed'[b].group = g
      BY <1>3, <3>1
    <3> QED
      BY <1>4, <1>5, <3>1, <3>2 DEF GroupMaxima
  <2>2. groups[g].observed <= observed
    <3> DEFINE old == GroupMaxima(g)
               new == GroupMaxima(g)'
    <3>1. NumBills \in Nat
      BY Constants
    <3>2. groups[g].observed = SumUpTo(old, NumBills)
      BY DEF BillingSound, GroupFit
    <3>3. observed = SumUpTo(new, NumBills)
      BY <1>6
    <3>4. \A b \in 1..NumBills : old[b] \in Nat /\ new[b] \in Nat /\ old[b] <= new[b]
      BY <2>1
    <3> HIDE DEF old, new
    <3> QED
      BY <3>1, <3>2, <3>3, <3>4, SumMonotone
  <2>3. groups[g].excess = Excess(groups[g].observed, groups[g].floor)
    BY DEF BillingSound, GroupFit
  <2>4. groups[g].observed \in Nat /\ observed \in Nat /\ groups[g].floor \in Nat
    BY <1>8 DEF TypeOK
  <2>5. CASE groups[g].floor = floor
    BY <1>8, <2>2, <2>3, <2>4, <2>5 DEF Excess, Larger
  <2>6. CASE groups[g].scope = {}
    <3>1. \A b \in 1..NumBills : GroupMaxima(g)[b] = 0
      BY <1>10, <2>6 DEF GroupMaxima, Bills
    <3>2. groups[g].observed = 0 /\ groups[g].floor = 0
      BY <2>6, <3>1, SumOfZeros, Constants DEF BillingSound, GroupFit
    <3> QED
      BY <1>8, <2>3, <2>4, <3>2 DEF Excess, Larger
  <2> QED
    BY <2>5, <2>6
<1>14. \A h \in Groups : groups'[h].excess \in Nat /\ groups[h].excess \in Nat
  BY DEF TypeOK
<1> QED
  BY <1>5, <1>8, <1>9, <1>11, <1>12, <1>13, <1>14


(* Reconciled holds move from the reservations' account to their group's.  *)
LEMMA ReconcileNewRetains ==
  ASSUME TypeOK, TypeOK', BillingSound, NEW g \in Groups, NEW scope \in SUBSET Bills,
         NEW members \in SUBSET Reservations, NEW report \in Reports(scope),
         ReconcileNew(g, scope, members, report),
         groups'[g].floor = SumUpTo(MemberAmounts(members), NumReservations),
         \A h \in Groups \ {g} : groups'[h] = groups[h]
  PROVE  RetainedFit'
<1>1. NumReservations \in Nat /\ NumGroups \in Nat /\ g \in 1..NumGroups
  BY Constants DEF Groups
<1>2. \A i \in Reservations :
        IF i \in members
        THEN /\ reservations[i].state = "held" /\ reservations[i].resource = "modal"
             /\ reservations'[i].state = "reconciled_retained"
             /\ reservations'[i].resource = "modal"
             /\ reservations'[i].amount = reservations[i].amount
        ELSE reservations'[i] = reservations[i]
  <2> TAKE i \in Reservations
  <2>1. reservations[i] \in ReservationRow
    BY DEF TypeOK
  <2>2. CASE i \in members
    <3> DEFINE retained == [reservations[i] EXCEPT !.state = "reconciled_retained", !.group = g]
    <3>1. /\ reservations'[i] = retained /\ reservations[i].state = "held"
          /\ reservations[i].resource = "modal"
      BY <2>2, Zenon DEF ReconcileNew
    <3>2. /\ retained.resource = reservations[i].resource
          /\ retained.amount = reservations[i].amount
          /\ retained.state = "reconciled_retained"
      BY <2>1 DEF ReservationRow
    <3> HIDE DEF retained
    <3> QED
      BY <2>2, <3>1, <3>2
  <2>3. CASE i \notin members
    BY <2>3, Zenon DEF ReconcileNew
  <2> QED
    BY <2>2, <2>3
<1>3. \A i \in 1..NumReservations :
        /\ RetainedAmounts[i] \in Nat /\ MemberAmounts(members)[i] \in Nat
        /\ RetainedAmounts'[i] = RetainedAmounts[i] + MemberAmounts(members)[i]
  <2> TAKE i \in 1..NumReservations
  <2>1. i \in Reservations /\ reservations[i].amount \in Nat
    BY DEF Reservations, TypeOK, ReservationRow
  <2> QED
    BY <1>2, <2>1 DEF RetainedAmounts, MemberAmounts
<1>4. SumUpTo(RetainedAmounts', NumReservations)
        = SumUpTo(RetainedAmounts, NumReservations) + SumUpTo(MemberAmounts(members), NumReservations)
  BY <1>1, <1>3, SumAdd
<1>5. groups[g].floor = 0
  BY DEF ReconcileNew, BillingSound, GroupFit
<1>6. \A h \in 1..NumGroups : /\ Floors[h] \in Nat /\ Floors'[h] \in Nat
                              /\ h # g => Floors[h] = Floors'[h]
  BY DEF Floors, Groups, TypeOK
<1>7. SumUpTo(Floors', NumGroups) = SumUpTo(Floors, NumGroups) + (Floors'[g] - Floors[g])
  BY ONLY <1>1, <1>6, SumUpdate
<1>8. Floors[g] = 0 /\ Floors'[g] = SumUpTo(MemberAmounts(members), NumReservations)
  BY <1>5 DEF Floors
<1>9. /\ SumUpTo(MemberAmounts(members), NumReservations) \in Nat
      /\ SumUpTo(Floors, NumGroups) \in Nat /\ SumUpTo(RetainedAmounts, NumReservations) \in Nat
  BY <1>1, <1>3, <1>6, SumNat
<1>10. SumUpTo(Floors', NumGroups) = SumUpTo(RetainedAmounts', NumReservations)
  BY <1>4, <1>7, <1>8, <1>9 DEF BillingSound, RetainedFit
<1>11. \A i \in Reservations :
         reservations'[i].state = "reconciled_retained" => reservations'[i].resource = "modal"
  BY <1>2 DEF BillingSound, RetainedFit
<1> QED
  BY <1>10, <1>11 DEF RetainedFit

LEMMA MemberAmountsNat ==
  ASSUME TypeOK, NEW members \in SUBSET Reservations
  PROVE  SumUpTo(MemberAmounts(members), NumReservations) \in Nat
<1>1. \A i \in 1..NumReservations : MemberAmounts(members)[i] \in Nat
  BY DEF MemberAmounts, Reservations, TypeOK, ReservationRow
<1> QED
  BY <1>1, SumNat, Constants

(* What a reconciliation does, the first of its scope or a later one.      *)
LEMMA ReconcileEffects ==
  ASSUME TypeOK, TypeOK', BillingSound, NEW g \in Groups,
         \/ \E scope \in SUBSET Bills, members \in SUBSET Reservations :
              \E report \in Reports(scope) : ReconcileNew(g, scope, members, report)
         \/ \E report \in Reports(groups[g].scope) : ReconcileRevision(g, report)
  PROVE  /\ BillingSound' /\ UNCHANGED priorUsage
         /\ \A h \in Groups : groups'[h].excess >= groups[h].excess
         /\ \A b \in Bills : billed'[b].maximum >= billed[b].maximum
         /\ \A i \in Reservations :
              /\ reservations[i].state # "held" => reservations'[i] = reservations[i]
              /\ reservations[i].state = "held" =>
                   reservations'[i] = reservations[i] \/
                   reservations'[i] = [reservations[i] EXCEPT !.state = "reconciled_retained",
                                                              !.group = g]
<1>1. ASSUME NEW scope \in SUBSET Bills, NEW members \in SUBSET Reservations,
             NEW report \in Reports(scope), ReconcileNew(g, scope, members, report)
      PROVE  /\ BillingSound' /\ UNCHANGED priorUsage
             /\ \A h \in Groups : groups'[h].excess >= groups[h].excess
             /\ \A b \in Bills : billed'[b].maximum >= billed[b].maximum
             /\ \A i \in Reservations :
                  /\ reservations[i].state # "held" => reservations'[i] = reservations[i]
                  /\ reservations[i].state = "held" =>
                       reservations'[i] = reservations[i] \/
                       reservations'[i] = [reservations[i] EXCEPT !.state = "reconciled_retained",
                                                                  !.group = g]
  <2>1. PICK floor \in Nat : floor = SumUpTo(MemberAmounts(members), NumReservations)
    BY MemberAmountsNat
  <2>2. ApplyReport(g, scope, floor, report) /\ groups[g].scope = {} /\ scope # {}
    BY <1>1, <2>1 DEF ReconcileNew
  <2>3. /\ BillsCountedOnce'
        /\ \A h \in Groups : GroupFit(h)' /\ groups'[h].excess >= groups[h].excess
        /\ \A b \in Bills : billed'[b].maximum >= billed[b].maximum
        /\ groups'[g].floor = floor
        /\ \A h \in Groups \ {g} : groups'[h] = groups[h]
    BY <2>2, ReportApplied
  <2>4. RetainedFit'
    BY <1>1, <2>1, <2>3, ReconcileNewRetains
  <2>5. UNCHANGED priorUsage
    BY <2>2 DEF ApplyReport
  <2>6. ASSUME NEW i \in Reservations
        PROVE  IF i \in members
               THEN /\ reservations[i].state = "held"
                    /\ reservations'[i] = [reservations[i] EXCEPT
                                             !.state = "reconciled_retained", !.group = g]
               ELSE reservations'[i] = reservations[i]
    BY <1>1, Zenon DEF ReconcileNew
  <2> QED
    BY <2>3, <2>4, <2>5, <2>6 DEF BillingSound
<1>2. ASSUME NEW report \in Reports(groups[g].scope), ReconcileRevision(g, report)
      PROVE  /\ BillingSound' /\ UNCHANGED <<priorUsage, reservations>>
             /\ \A h \in Groups : groups'[h].excess >= groups[h].excess
             /\ \A b \in Bills : billed'[b].maximum >= billed[b].maximum
  <2>1. PICK scope \in SUBSET Bills, floor \in Nat :
          scope = groups[g].scope /\ floor = groups[g].floor
    BY DEF TypeOK
  <2>2. /\ ApplyReport(g, scope, floor, report) /\ scope # {}
        /\ report \in Reports(scope) /\ UNCHANGED reservations
    BY <1>2, <2>1 DEF ReconcileRevision
  <2>3. /\ BillsCountedOnce'
        /\ \A h \in Groups : GroupFit(h)' /\ groups'[h].excess >= groups[h].excess
        /\ \A b \in Bills : billed'[b].maximum >= billed[b].maximum
        /\ groups'[g].floor = floor
        /\ \A h \in Groups \ {g} : groups'[h] = groups[h]
    BY <2>1, <2>2, ReportApplied
  <2>4. Floors' = Floors /\ RetainedAmounts' = RetainedAmounts
    BY <2>1, <2>2, <2>3 DEF Floors, RetainedAmounts
  <2>5. RetainedFit'
    BY <2>2, <2>4 DEF BillingSound, RetainedFit
  <2>6. UNCHANGED priorUsage
    BY <2>2 DEF ApplyReport
  <2> QED
    BY <2>2, <2>3, <2>5, <2>6 DEF BillingSound
<1> QED
  BY <1>1, <1>2

(* Imported history: the greatest cost counts, and of no reconciled row.   *)
LEMMA ImportEffects ==
  ASSUME TypeOK, TypeOK', NEW b \in Bills, NEW r \in Resources, NEW actual \in Costs,
         RecordPriorUsage(b, r, actual)
  PROVE  /\ UNCHANGED <<reservations, billed, groups>>
         /\ r = "modal" => billed[b].group = 0
         /\ priorUsage[b].resource \in {"none", r} /\ priorUsage'[b].resource = r
         /\ priorUsage'[b].actual >= priorUsage[b].actual
         /\ \A c \in Bills \ {b} : priorUsage'[c] = priorUsage[c]
<1>1. /\ UNCHANGED <<reservations, billed, groups>>
      /\ r = "modal" => billed[b].group = 0
      /\ priorUsage[b].resource \in {"none", r}
  BY DEF RecordPriorUsage, UnclaimedByGroup
<1>2. PICK cost : cost = Accounted(actual, priorUsage[b].actual)
  OBVIOUS
<1>3. priorUsage' = [priorUsage EXCEPT ![b] = [resource |-> r, actual |-> cost]]
  BY <1>2 DEF RecordPriorUsage
<1>4. /\ priorUsage'[b].resource = r /\ priorUsage'[b].actual = cost
      /\ \A c \in Bills \ {b} : priorUsage'[c] = priorUsage[c]
  BY <1>3 DEF TypeOK
<1>5. cost >= priorUsage[b].actual
  <2>1. actual \in Nat /\ priorUsage[b].actual \in Nat
    BY Constants DEF TypeOK
  <2> QED
    BY <1>2, <2>1, GreatestCost
<1> QED
  BY <1>1, <1>4, <1>5

LEMMA BillingStep ==
  ASSUME TypeOK, TypeOK', BillingSound, [Next]_ledgerVars
  PROVE  BillingSound'
<1>1. ASSUME UNCHANGED <<priorUsage, billed, groups>>,
             \A i \in Reservations :
               IF reservations[i].state = "reconciled_retained"
               THEN reservations'[i] = reservations[i]
               ELSE reservations'[i].state # "reconciled_retained"
      PROVE  BillingSound'
  BY <1>1, BillingKept DEF BillingSound, BillsCountedOnce
<1>2. ASSUME NEW i \in Reservations, NEW r \in Resources, NEW amount \in Amounts,
             NEW expires \in 1..MaxTime, NEW purpose \in Purposes,
             Reserve(i, r, amount, expires, purpose)
      PROVE  BillingSound'
  <2>1. UNCHANGED <<priorUsage, billed, groups>> /\ reservations[i].state = "absent"
    BY <1>2 DEF Reserve
  <2>2. reservations'[i].state = "held"
        /\ \A j \in Reservations \ {i} : reservations'[j] = reservations[j]
    BY <1>2 DEF Reserve, TypeOK
  <2> QED
    BY <1>1, <2>1, <2>2
<1>3. ASSUME NEW i \in Reservations, NEW actual \in Costs, NEW receipt \in Receipts,
             Settle(i, actual, receipt)
      PROVE  BillingSound'
  <2>1. UNCHANGED <<priorUsage, billed, groups>> /\ reservations[i].state = "held"
    BY <1>3 DEF Settle
  <2>2. reservations'[i].state = "settled"
        /\ \A j \in Reservations \ {i} : reservations'[j] = reservations[j]
    BY <1>3 DEF Settle, TypeOK, ReservationRow
  <2> QED
    BY <1>1, <2>1, <2>2
<1>4. ASSUME NEW b \in Bills, NEW r \in Resources, NEW actual \in Costs,
             RecordPriorUsage(b, r, actual)
      PROVE  BillingSound'
  <2>1. BillsCountedOnce'
    BY <1>4, ImportEffects DEF BillingSound, BillsCountedOnce
  <2> QED
    BY <1>4, <2>1, ImportEffects, BillingKept
<1>5. ASSUME NEW scope \in SUBSET Bills \ {{}}, RegisterPriorScope(scope)
      PROVE  BillingSound'
  BY <1>1, <1>5 DEF RegisterPriorScope
<1>6. ASSUME NEW why \in FreezeReasons, Freeze(why)
      PROVE  BillingSound'
  BY <1>1, <1>6 DEF Freeze
<1>7. CASE RemoveTokenBudget
  <2>1. UNCHANGED <<priorUsage, billed, groups>>
    BY <1>7 DEF RemoveTokenBudget
  <2>2. \A i \in Reservations :
          IF i \in HeldTokens THEN reservations'[i].state = "retired_token_policy"
          ELSE reservations'[i] = reservations[i]
    BY <1>7 DEF RemoveTokenBudget, TypeOK, ReservationRow
  <2>3. \A i \in HeldTokens : reservations[i].state = "held"
    BY DEF HeldTokens
  <2> QED
    BY <1>1, <2>1, <2>2, <2>3
<1>8. ASSUME NEW g \in Groups,
             \/ \E scope \in SUBSET Bills, members \in SUBSET Reservations :
                  \E report \in Reports(scope) : ReconcileNew(g, scope, members, report)
             \/ \E report \in Reports(groups[g].scope) : ReconcileRevision(g, report)
      PROVE  BillingSound'
  BY <1>8, ReconcileEffects
<1>9. CASE Tick \/ UNCHANGED ledgerVars
  BY <1>1, <1>9 DEF Tick, ledgerVars
<1> QED
  BY <1>2, <1>3, <1>4, <1>5, <1>6, <1>7, <1>8, <1>9 DEF Next

(* What each billing row and each group records stays consistent with the  *)
(* reservations, whatever the order of imports, reports and revisions.     *)
THEOREM BillingIsSound == Spec => []BillingSound
<1>1. TypeOK /\ TypeOK' /\ BillingSound /\ [Next]_ledgerVars => BillingSound'
  BY BillingStep
<1> QED
  BY <1>1, BillingStarts, LedgerTypeOK, PTL DEF Spec

(* No billing row is both imported as Modal history and counted towards a  *)
(* group (import_report, reconcile).                                       *)
THEOREM BillsAlwaysCountedOnce == Spec => []BillsCountedOnce
<1>1. BillingSound => BillsCountedOnce
  BY DEF BillingSound
<1> QED
  BY <1>1, BillingIsSound, PTL


-----------------------------------------------------------------------------
(* The balances add up to what admission charges.                          *)

LEMMA ChargesBalance ==
  ASSUME TypeOK, BillingSound, NEW r \in Resources
  PROVE  SumUpTo(ReservationCharges(r, Purposes), NumReservations)
           = SumUpTo(Column(r, "settled", "actual"), NumReservations)
             + SumUpTo(Column(r, "held", "amount"), NumReservations)
             + SumUpTo(Column(r, "retired_token_policy", "amount"), NumReservations)
             + (IF r = "modal" THEN SumUpTo(RetainedAmounts, NumReservations) ELSE 0)
<1> DEFINE charges == ReservationCharges(r, Purposes)
           settled == Column(r, "settled", "actual")
           holds == Column(r, "held", "amount")
           retired == Column(r, "retired_token_policy", "amount")
           kept == [i \in Reservations |-> IF r = "modal" THEN RetainedAmounts[i] ELSE 0]
           two == [i \in Reservations |-> settled[i] + holds[i]]
           three == [i \in Reservations |-> two[i] + retired[i]]
<1>1. ASSUME NEW i \in 1..NumReservations
      PROVE  /\ settled[i] \in Nat /\ holds[i] \in Nat /\ retired[i] \in Nat /\ kept[i] \in Nat
             /\ charges[i] = settled[i] + holds[i] + retired[i] + kept[i]
  <2>1. i \in Reservations
    BY DEF Reservations
  <2>2. /\ reservations[i] \in ReservationRow
        /\ reservations[i].state = "absent" => reservations[i].amount = 0
        /\ reservations[i].state = "reconciled_retained" => reservations[i].resource = "modal"
    BY <2>1 DEF TypeOK, AbsentRow, BillingSound, RetainedFit
  <2>3. PICK amount \in Nat, actual \in Nat, state \in States :
          /\ amount = reservations[i].amount /\ actual = reservations[i].actual
          /\ state = reservations[i].state
    BY <2>2 DEF ReservationRow
  <2>4. reservations[i].purpose \in Purposes
    BY <2>2 DEF ReservationRow
  <2>5. charges[i] = IF reservations[i].resource = r
                     THEN IF state = "settled" THEN actual ELSE amount ELSE 0
    BY <2>1, <2>3, <2>4 DEF ReservationCharges, Charge
  <2>6. /\ settled[i] = IF state = "settled" /\ reservations[i].resource = r THEN actual ELSE 0
        /\ holds[i] = IF state = "held" /\ reservations[i].resource = r THEN amount ELSE 0
        /\ retired[i] = IF state = "retired_token_policy" /\ reservations[i].resource = r
                        THEN amount ELSE 0
        /\ kept[i] = IF r = "modal" /\ state = "reconciled_retained" THEN amount ELSE 0
    BY <2>1, <2>3 DEF Column, RetainedAmounts
  <2>7. /\ state = "absent" => amount = 0
        /\ state = "reconciled_retained" => reservations[i].resource = "modal"
    BY <2>2, <2>3
  <2> HIDE DEF charges, settled, holds, retired, kept
  <2> QED
    BY <2>3, <2>5, <2>6, <2>7 DEF States
<1>2. \A i \in 1..NumReservations : i \in Reservations
  BY DEF Reservations
<1>3. \A i \in 1..NumReservations : /\ two[i] = settled[i] + holds[i]
                                    /\ three[i] = two[i] + retired[i]
  BY <1>2
<1>4. SumUpTo(kept, NumReservations)
        = IF r = "modal" THEN SumUpTo(RetainedAmounts, NumReservations) ELSE 0
  <2>1. CASE r = "modal"
    <3>1. \A i \in 1..NumReservations : kept[i] = RetainedAmounts[i]
      BY <1>2, <2>1
    <3> QED
      BY <2>1, <3>1, SumEqual, Constants
  <2>2. CASE r # "modal"
    <3>1. \A i \in 1..NumReservations : kept[i] = 0
      BY <1>2, <2>2
    <3> QED
      BY <2>2, <3>1, SumOfZeros, Constants
  <2> QED
    BY <2>1, <2>2
<1>5. NumReservations \in Nat
  BY Constants
<1> HIDE DEF charges, settled, holds, retired, kept, two, three
<1>6. SumUpTo(two, NumReservations)
        = SumUpTo(settled, NumReservations) + SumUpTo(holds, NumReservations)
  BY <1>1, <1>3, <1>5, SumAdd
<1>7. SumUpTo(three, NumReservations)
        = SumUpTo(two, NumReservations) + SumUpTo(retired, NumReservations)
  BY <1>1, <1>3, <1>5, SumAdd
<1>8. SumUpTo(charges, NumReservations)
        = SumUpTo(three, NumReservations) + SumUpTo(kept, NumReservations)
  <2>1. \A i \in 1..NumReservations : /\ three[i] \in Nat /\ kept[i] \in Nat
                                      /\ charges[i] = three[i] + kept[i]
    BY <1>1, <1>3
  <2> QED
    BY <2>1, <1>5, SumAdd
<1>9. SumUpTo(charges, NumReservations)
        = SumUpTo(settled, NumReservations) + SumUpTo(holds, NumReservations)
          + SumUpTo(retired, NumReservations) + SumUpTo(kept, NumReservations)
  BY <1>6, <1>7, <1>8
<1> QED
  BY <1>4, <1>9 DEF charges, settled, holds, retired

(* Observed usage and what is left of a floor make the floor and its excess.*)
LEMMA GroupsBalance ==
  ASSUME TypeOK, BillingSound
  PROVE  /\ SumUpTo(ObservedByGroup, NumGroups) + SumUpTo(LeftInGroup, NumGroups)
              = SumUpTo(RetainedAmounts, NumReservations) + SumUpTo(ExcessCharges, NumGroups)
         /\ SumUpTo(ObservedByGroup, NumGroups) \in Nat
         /\ SumUpTo(LeftInGroup, NumGroups) \in Nat
         /\ SumUpTo(RetainedAmounts, NumReservations) \in Nat
         /\ SumUpTo(ExcessCharges, NumGroups) \in Nat
<1> DEFINE all == [g \in Groups |-> Floors[g] + ExcessCharges[g]]
<1>1. ASSUME NEW g \in 1..NumGroups
      PROVE  /\ Floors[g] \in Nat /\ ExcessCharges[g] \in Nat
             /\ ObservedByGroup[g] \in Nat /\ LeftInGroup[g] \in Nat
             /\ all[g] = Floors[g] + ExcessCharges[g]
             /\ all[g] = ObservedByGroup[g] + LeftInGroup[g]
  <2>1. g \in Groups
    BY DEF Groups
  <2>2. PICK observed \in Nat, floor \in Nat, excess \in Nat :
          /\ observed = groups[g].observed /\ floor = groups[g].floor
          /\ excess = groups[g].excess
    BY <2>1 DEF TypeOK
  <2>3. excess = Larger(0, observed - floor)
    BY <2>1, <2>2 DEF BillingSound, GroupFit, Excess
  <2>4. /\ Floors[g] = floor /\ ExcessCharges[g] = excess
        /\ ObservedByGroup[g] = observed /\ LeftInGroup[g] = Larger(0, floor - observed)
        /\ all[g] = Floors[g] + ExcessCharges[g]
    BY <2>1, <2>2 DEF Floors, ExcessCharges, ObservedByGroup, LeftInGroup
  <2> HIDE DEF all
  <2> QED
    BY <2>3, <2>4 DEF Larger
<1>2. NumGroups \in Nat
  BY Constants
<1> HIDE DEF all
<1>3. SumUpTo(all, NumGroups) = SumUpTo(Floors, NumGroups) + SumUpTo(ExcessCharges, NumGroups)
  BY <1>1, <1>2, SumAdd
<1>4. SumUpTo(all, NumGroups)
        = SumUpTo(ObservedByGroup, NumGroups) + SumUpTo(LeftInGroup, NumGroups)
  BY <1>1, <1>2, SumAdd
<1>5. SumUpTo(Floors, NumGroups) = SumUpTo(RetainedAmounts, NumReservations)
  BY DEF BillingSound, RetainedFit
<1>6. /\ SumUpTo(ObservedByGroup, NumGroups) \in Nat /\ SumUpTo(LeftInGroup, NumGroups) \in Nat
      /\ SumUpTo(Floors, NumGroups) \in Nat /\ SumUpTo(ExcessCharges, NumGroups) \in Nat
  BY <1>1, <1>2, SumNat
<1> QED
  BY <1>3, <1>4, <1>5, <1>6

LEMMA ColumnNat ==
  ASSUME TypeOK, NEW r, NEW state, NEW column \in {"actual", "amount"}
  PROVE  SumUpTo(Column(r, state, column), NumReservations) \in Nat
<1>1. \A i \in 1..NumReservations : Column(r, state, column)[i] \in Nat
  BY DEF Column, Reservations, TypeOK, ReservationRow
<1> QED
  BY <1>1, SumNat, Constants

LEMMA BalancesAddUp ==
  ASSUME TypeOK, BillingSound
  PROVE  AccountingBalances
<1> SUFFICES ASSUME NEW r \in Resources
             PROVE  Observed(r) + Reserved(r) + Retired(r) = Committed(r)
  BY DEF AccountingBalances
<1>1. PICK settled \in Nat, holds \in Nat, retired \in Nat, prior \in Nat :
        /\ settled = SumUpTo(Column(r, "settled", "actual"), NumReservations)
        /\ holds = SumUpTo(Column(r, "held", "amount"), NumReservations)
        /\ retired = SumUpTo(Column(r, "retired_token_policy", "amount"), NumReservations)
        /\ prior = SumUpTo(PriorCharges(r), NumBills)
  BY ColumnNat, ColumnsNat, SumNat, Constants
<1>2. PICK observed \in Nat, left \in Nat, kept \in Nat, excess \in Nat :
        /\ observed = SumUpTo(ObservedByGroup, NumGroups)
        /\ left = SumUpTo(LeftInGroup, NumGroups)
        /\ kept = SumUpTo(RetainedAmounts, NumReservations)
        /\ excess = SumUpTo(ExcessCharges, NumGroups)
        /\ observed + left = kept + excess
  BY GroupsBalance
<1>3. SumUpTo(ReservationCharges(r, Purposes), NumReservations)
        = settled + holds + retired + (IF r = "modal" THEN kept ELSE 0)
  BY <1>1, <1>2, ChargesBalance
<1>4. Committed(r) = settled + holds + retired + (IF r = "modal" THEN kept ELSE 0)
                       + prior + (IF r = "modal" THEN excess ELSE 0)
  BY <1>1, <1>2, <1>3 DEF Committed, Imported
<1>5. /\ Observed(r) = settled + prior + (IF r = "modal" THEN observed ELSE 0)
      /\ Reserved(r) = holds + (IF r = "modal" THEN left ELSE 0)
      /\ Retired(r) = retired
  BY <1>1, <1>2 DEF Observed, Reserved, Retired
<1> QED
  BY <1>2, <1>4, <1>5

(* What telemetry reports as observed, reserved and retired adds up to what *)
(* admission charges (accounting_totals, _usage).                          *)
THEOREM AccountingAlwaysBalances == Spec => []AccountingBalances
<1>1. TypeOK /\ BillingSound => AccountingBalances
  BY BalancesAddUp
<1> QED
  BY <1>1, BillingIsSound, LedgerTypeOK, PTL


-----------------------------------------------------------------------------
(* What was accounted for stays accounted for.                             *)

(* Rows that charge no less, imports and excesses that do not fall.        *)
LEMMA CommitmentKept ==
  ASSUME TypeOK, TypeOK', NEW r \in Resources,
         \A i \in Reservations :
            \/ Charge(reservations[i]) = 0
            \/ /\ reservations'[i].resource = reservations[i].resource
               /\ Charge(reservations'[i]) >= Charge(reservations[i]),
         \A b \in Bills : /\ priorUsage'[b].actual >= priorUsage[b].actual
                          /\ \/ priorUsage[b].resource = "none"
                             \/ priorUsage'[b].resource = priorUsage[b].resource,
         \A g \in Groups : groups'[g].excess >= groups[g].excess
  PROVE  ~(Committed(r)' < Committed(r))
<1> DEFINE rows == ReservationCharges(r, Purposes)
           rowsAfter == ReservationCharges(r, Purposes)'
           prior == PriorCharges(r)
           priorAfter == PriorCharges(r)'
           excess == ExcessCharges
           excessAfter == ExcessCharges'
<1>1. NumReservations \in Nat /\ NumBills \in Nat /\ NumGroups \in Nat
  BY Constants
<1>2. \A i \in 1..NumReservations : rows[i] \in Nat /\ rowsAfter[i] \in Nat /\ rows[i] <= rowsAfter[i]
  <2> TAKE i \in 1..NumReservations
  <2>1. /\ i \in Reservations
        /\ Charge(reservations[i]) \in Nat /\ Charge(reservations'[i]) \in Nat
        /\ reservations[i].purpose \in Purposes /\ reservations'[i].purpose \in Purposes
    BY DEF Reservations, TypeOK, ReservationRow, Charge
  <2>2. /\ rows[i] = IF reservations[i].resource = r THEN Charge(reservations[i]) ELSE 0
        /\ rowsAfter[i] = IF reservations'[i].resource = r THEN Charge(reservations'[i]) ELSE 0
    BY <2>1 DEF ReservationCharges, Charge
  <2> HIDE DEF rows, rowsAfter
  <2> QED
    BY <2>1, <2>2
<1>3. \A b \in 1..NumBills : prior[b] \in Nat /\ priorAfter[b] \in Nat /\ prior[b] <= priorAfter[b]
  <2> TAKE b \in 1..NumBills
  <2>1. b \in Bills /\ priorUsage[b].actual \in Nat /\ priorUsage'[b].actual \in Nat
    BY DEF Bills, TypeOK
  <2>2. /\ prior[b] = IF priorUsage[b].resource = r THEN priorUsage[b].actual ELSE 0
        /\ priorAfter[b] = IF priorUsage'[b].resource = r THEN priorUsage'[b].actual ELSE 0
    BY <2>1 DEF PriorCharges
  <2>3. r # "none"
    BY DEF Resources
  <2> HIDE DEF prior, priorAfter
  <2> QED
    BY <2>1, <2>2, <2>3
<1>4. \A g \in 1..NumGroups : excess[g] \in Nat /\ excessAfter[g] \in Nat /\ excess[g] <= excessAfter[g]
  BY DEF ExcessCharges, Groups, TypeOK
<1>5. /\ Committed(r) = SumUpTo(rows, NumReservations) + (SumUpTo(prior, NumBills)
                          + (IF r = "modal" THEN SumUpTo(excess, NumGroups) ELSE 0))
      /\ Committed(r)' = SumUpTo(rowsAfter, NumReservations) + (SumUpTo(priorAfter, NumBills)
                          + (IF r = "modal" THEN SumUpTo(excessAfter, NumGroups) ELSE 0))
  BY DEF Committed, Imported
<1> HIDE DEF rows, rowsAfter, prior, priorAfter, excess, excessAfter
<1>6. /\ SumUpTo(rows, NumReservations) <= SumUpTo(rowsAfter, NumReservations)
      /\ SumUpTo(prior, NumBills) <= SumUpTo(priorAfter, NumBills)
      /\ SumUpTo(excess, NumGroups) <= SumUpTo(excessAfter, NumGroups)
  BY <1>1, <1>2, <1>3, <1>4, SumMonotone
<1>7. /\ SumUpTo(rows, NumReservations) \in Nat /\ SumUpTo(rowsAfter, NumReservations) \in Nat
      /\ SumUpTo(prior, NumBills) \in Nat /\ SumUpTo(priorAfter, NumBills) \in Nat
      /\ SumUpTo(excess, NumGroups) \in Nat /\ SumUpTo(excessAfter, NumGroups) \in Nat
  BY <1>1, <1>2, <1>3, <1>4, SumNat
<1> QED
  BY <1>5, <1>6, <1>7

(* Such a step, one that changes only absent and held rows, keeps it all.  *)
LEMMA UsageOnlyGrows ==
  ASSUME TypeOK, TypeOK',
         \A i \in Reservations :
            \/ reservations'[i] = reservations[i]
            \/ reservations[i].state = "absent"
            \/ /\ reservations[i].state = "held"
               /\ reservations'[i].resource = reservations[i].resource
               /\ Charge(reservations'[i]) >= Charge(reservations[i]),
         \A b \in Bills : /\ priorUsage'[b].actual >= priorUsage[b].actual
                          /\ \/ priorUsage[b].resource = "none"
                             \/ priorUsage'[b].resource = priorUsage[b].resource
                          /\ billed'[b].maximum >= billed[b].maximum,
         \A g \in Groups : groups'[g].excess >= groups[g].excess
  PROVE  AccountedKept
<1>1. ASSUME NEW i \in Reservations
      PROVE  \/ Charge(reservations[i]) = 0
             \/ /\ reservations'[i].resource = reservations[i].resource
                /\ Charge(reservations'[i]) >= Charge(reservations[i])
  <2>1. CASE reservations[i].state = "absent"
    BY <2>1 DEF TypeOK, AbsentRow, Charge
  <2>2. CASE reservations'[i] = reservations[i]
    <3>1. Charge(reservations[i]) \in Nat
      BY DEF TypeOK, ReservationRow, Charge
    <3> QED
      BY <2>2, <3>1
  <2> QED
    BY <2>1, <2>2
<1>2. \A r \in Resources : ~(Committed(r)' < Committed(r))
  BY <1>1, CommitmentKept
<1> QED
  BY <1>2 DEF AccountedKept

LEMMA BillsUnchangedGrow ==
  ASSUME TypeOK, UNCHANGED <<priorUsage, billed, groups>>
  PROVE  /\ \A b \in Bills : /\ priorUsage'[b].actual >= priorUsage[b].actual
                             /\ \/ priorUsage[b].resource = "none"
                                \/ priorUsage'[b].resource = priorUsage[b].resource
                             /\ billed'[b].maximum >= billed[b].maximum
         /\ \A g \in Groups : groups'[g].excess >= groups[g].excess
BY DEF TypeOK

(* The only operation that gives allowance back is a settlement.           *)
LEMMA SettleKeepsAccounts ==
  ASSUME TypeOK, TypeOK', NEW i \in Reservations, NEW actual \in Costs,
         NEW receipt \in Receipts, Settle(i, actual, receipt)
  PROVE  AccountedKept
<1>1. UNCHANGED <<priorUsage, billed, groups>> /\ reservations[i].state = "held"
  BY DEF Settle
<1>2. /\ reservations'[i].state = "settled" /\ reservations'[i].actual = actual
      /\ reservations'[i].resource = reservations[i].resource
      /\ \A j \in Reservations \ {i} : reservations'[j] = reservations[j]
  BY DEF Settle, TypeOK, ReservationRow
<1>3. PICK amount \in Nat : amount = reservations[i].amount
  BY DEF TypeOK, ReservationRow
<1>4. actual \in Nat
  BY Constants
<1>5. Charge(reservations[i]) = amount /\ Charge(reservations'[i]) = actual
  BY <1>1, <1>2, <1>3 DEF Charge
<1>6. CASE actual >= amount
  BY <1>1, <1>2, <1>5, <1>6, BillsUnchangedGrow, UsageOnlyGrows
<1>7. CASE ~(actual >= amount)
  <2>1. reservations'[i].actual < reservations[i].amount
    BY <1>2, <1>3, <1>4, <1>7
  <2> QED
    BY <1>1, <1>2, <2>1, BillsUnchangedGrow DEF AccountedKept
<1> QED
  BY <1>6, <1>7

LEMMA AccountsKept ==
  ASSUME TypeOK, TypeOK', BillingSound, Next
  PROVE  AccountedKept \/ UNCHANGED ledgerVars
<1>1. ASSUME NEW i \in Reservations, NEW r \in Resources, NEW amount \in Amounts,
             NEW expires \in 1..MaxTime, NEW purpose \in Purposes,
             Reserve(i, r, amount, expires, purpose)
      PROVE  AccountedKept
  <2>1. UNCHANGED <<priorUsage, billed, groups>> /\ reservations[i].state = "absent"
    BY <1>1 DEF Reserve
  <2>2. \A j \in Reservations \ {i} : reservations'[j] = reservations[j]
    BY <1>1 DEF Reserve, TypeOK
  <2> QED
    BY <2>1, <2>2, BillsUnchangedGrow, UsageOnlyGrows
<1>2. ASSUME NEW i \in Reservations, NEW actual \in Costs, NEW receipt \in Receipts,
             Settle(i, actual, receipt)
      PROVE  AccountedKept
  BY <1>2, SettleKeepsAccounts
<1>3. ASSUME NEW b \in Bills, NEW r \in Resources, NEW actual \in Costs,
             RecordPriorUsage(b, r, actual)
      PROVE  AccountedKept
  <2>1. /\ UNCHANGED <<reservations, billed, groups>>
        /\ priorUsage[b].resource \in {"none", r} /\ priorUsage'[b].resource = r
        /\ priorUsage'[b].actual >= priorUsage[b].actual
        /\ \A c \in Bills \ {b} : priorUsage'[c] = priorUsage[c]
    BY <1>3, ImportEffects
  <2>2. \A c \in Bills : priorUsage[c].actual \in Nat /\ billed[c].maximum \in Nat
    BY DEF TypeOK
  <2>3. \A g \in Groups : groups'[g].excess >= groups[g].excess
    BY <2>1 DEF TypeOK
  <2> QED
    BY <2>1, <2>2, <2>3, UsageOnlyGrows
<1>4. ASSUME NEW scope \in SUBSET Bills \ {{}}, RegisterPriorScope(scope)
      PROVE  AccountedKept
  BY <1>4, BillsUnchangedGrow, UsageOnlyGrows DEF RegisterPriorScope
<1>5. ASSUME NEW why \in FreezeReasons, Freeze(why)
      PROVE  AccountedKept
  BY <1>5, BillsUnchangedGrow, UsageOnlyGrows DEF Freeze
<1>6. CASE RemoveTokenBudget
  <2>1. UNCHANGED <<priorUsage, billed, groups>>
    BY <1>6 DEF RemoveTokenBudget
  <2>2. ASSUME NEW i \in Reservations
        PROVE  \/ reservations'[i] = reservations[i]
               \/ /\ reservations[i].state = "held"
                  /\ reservations'[i].resource = reservations[i].resource
                  /\ Charge(reservations'[i]) >= Charge(reservations[i])
    <3>1. CASE i \in HeldTokens
      <4>1. reservations'[i] = [reservations[i] EXCEPT !.state = "retired_token_policy"]
        BY <1>6, <3>1 DEF RemoveTokenBudget
      <4>2. /\ reservations'[i].state = "retired_token_policy"
            /\ reservations'[i].resource = reservations[i].resource
            /\ reservations'[i].amount = reservations[i].amount
            /\ reservations[i].amount \in Nat /\ reservations[i].state = "held"
        BY <3>1, <4>1 DEF TypeOK, ReservationRow, HeldTokens
      <4> QED
        BY <4>2 DEF Charge
    <3>2. CASE i \notin HeldTokens
      BY <1>6, <3>2 DEF RemoveTokenBudget
    <3> QED
      BY <3>1, <3>2
  <2> QED
    BY <2>1, <2>2, BillsUnchangedGrow, UsageOnlyGrows
<1>7. ASSUME NEW g \in Groups,
             \/ \E scope \in SUBSET Bills, members \in SUBSET Reservations :
                  \E report \in Reports(scope) : ReconcileNew(g, scope, members, report)
             \/ \E report \in Reports(groups[g].scope) : ReconcileRevision(g, report)
      PROVE  AccountedKept
  <2>1. /\ UNCHANGED priorUsage
        /\ \A h \in Groups : groups'[h].excess >= groups[h].excess
        /\ \A b \in Bills : billed'[b].maximum >= billed[b].maximum
        /\ \A i \in Reservations :
             /\ reservations[i].state # "held" => reservations'[i] = reservations[i]
             /\ reservations[i].state = "held" =>
                  reservations'[i] = reservations[i] \/
                  reservations'[i] = [reservations[i] EXCEPT !.state = "reconciled_retained",
                                                             !.group = g]
    BY <1>7, ReconcileEffects
  <2>2. ASSUME NEW i \in Reservations
        PROVE  \/ reservations'[i] = reservations[i]
               \/ /\ reservations[i].state = "held"
                  /\ reservations'[i].resource = reservations[i].resource
                  /\ Charge(reservations'[i]) >= Charge(reservations[i])
    <3> DEFINE retained == [reservations[i] EXCEPT !.state = "reconciled_retained", !.group = g]
    <3>1. /\ retained.state = "reconciled_retained"
          /\ retained.resource = reservations[i].resource
          /\ retained.amount = reservations[i].amount /\ reservations[i].amount \in Nat
      BY DEF TypeOK, ReservationRow
    <3>2. \/ reservations'[i] = reservations[i]
          \/ reservations[i].state = "held" /\ reservations'[i] = retained
      BY <2>1
    <3> HIDE DEF retained
    <3> QED
      BY <3>1, <3>2 DEF Charge
  <2>3. \A b \in Bills : /\ priorUsage'[b].actual >= priorUsage[b].actual
                         /\ priorUsage'[b].resource = priorUsage[b].resource
    <3>1. priorUsage' = priorUsage
      BY <2>1
    <3>2. \A b \in Bills : priorUsage[b].actual \in Nat
      BY DEF TypeOK
    <3> QED
      BY <3>1, <3>2
  <2> QED
    BY <2>1, <2>2, <2>3, UsageOnlyGrows
<1>8. CASE Tick
  BY <1>8, BillsUnchangedGrow, UsageOnlyGrows DEF Tick
<1> QED
  BY <1>1, <1>2, <1>3, <1>4, <1>5, <1>6, <1>7, <1>8 DEF Next

(* No operation refunds what was accounted for, and allowance comes back   *)
(* only through a settlement below the hold (settle, record_prior_usage,   *)
(* reconcile, remove_token_budget).                                        *)
THEOREM AccountedUsageNeverReturns == Spec => AccountedUsageIsFinal
<1>1. TypeOK /\ TypeOK' /\ BillingSound /\ [Next]_ledgerVars => [AccountedKept]_ledgerVars
  BY AccountsKept
<1> QED
  BY <1>1, BillingIsSound, LedgerTypeOK, PTL DEF Spec, AccountedUsageIsFinal
=============================================================================
