--------------------------- MODULE CampaignLedger ---------------------------
(***************************************************************************)
(* The controller-owned accounting of one campaign                         *)
(* (fps_bench/campaign_ledger.py, modal_reconciliation.py and the scope    *)
(* registration of modal_billing.py).  All processes of the host share one *)
(* SQLite file; every operation is one BEGIN IMMEDIATE transaction that    *)
(* either commits whole or rolls back, so every operation is one action.   *)
(* An operation that raises changes nothing and is a disabled action; one  *)
(* that only returns what is stored (a repeated reserve, a repeated        *)
(* settle, an unchanged import) is a stuttering step.                      *)
(***************************************************************************)
EXTENDS TableSums, FiniteSets

CONSTANTS
  NumReservations,   \* reservation identities the callers may use
  NumBills,          \* provider billing rows (one app, one hour)
  NumGroups,         \* reconciliation groups
  Amounts,           \* amounts a caller may ask to hold
  Costs,             \* costs a provider may report
  Receipts,          \* settlement receipts
  TotalLimit,        \* LIMITS[resource][0]
  NormalLimit,       \* LIMITS[resource][1]
  MaxTime            \* bound: the clock stops here

Reservations == 1..NumReservations
Bills        == 1..NumBills
Groups       == 1..NumGroups
Resources    == {"modal", "tokens"}
Purposes     == {"normal", "shutdown"}
NoReceipt    == <<>>

ASSUME CountsAssumption ==
  NumReservations \in Nat /\ NumBills \in Nat /\ NumGroups \in Nat /\ MaxTime \in Nat
ASSUME AmountsAssumption == Amounts \subseteq Nat \ {0} /\ Costs \subseteq Nat
ASSUME LimitsAssumption ==
  /\ TotalLimit \in [Resources -> Nat] /\ NormalLimit \in [Resources -> Nat]
  /\ \A r \in Resources : NormalLimit[r] <= TotalLimit[r]
ASSUME ReceiptsAssumption == NoReceipt \notin Receipts

VARIABLES
  reservations,       \* table reservations, one row per identity
  priorUsage,         \* table prior_usage, one row per billing row
  billed,             \* table modal_reconciliation_rows
  groups,             \* table modal_reconciliation_groups
  priorScope,         \* table modal_prior_scope: the rows history may cover
  frozen, reason,     \* table campaign
  tokenBudgetRemoved, \* table token_budget_removal
  now                 \* int(time.time())

ledgerVars == <<reservations, priorUsage, billed, groups, priorScope,
                frozen, reason, tokenBudgetRemoved, now>>

(* "absent" stands for no row: such a row holds no amount.                 *)
States == {"absent", "held", "settled", "reconciled_retained",
           "retired_token_policy"}
ReservationRow ==
  [state: States, resource: Resources, amount: Nat, purpose: Purposes,
   expires: Nat, actual: Nat, receipt: Receipts \union {NoReceipt}, group: Nat]
AbsentRow ==
  [state |-> "absent", resource |-> "modal", amount |-> 0, purpose |-> "normal",
   expires |-> 0, actual |-> 0, receipt |-> NoReceipt, group |-> 0]

(* A freeze reason is text; only its prefix "Ambiguous upstream usage for" *)
(* and the dispatch identity that follows are ever read back.              *)
IncidentReason == [kind |-> "incident", dispatch |-> 0]
AmbiguousUpstream(id) == [kind |-> "ambiguous", dispatch |-> id]
NoReason == [kind |-> "none", dispatch |-> 0]
FreezeReasons == {IncidentReason} \union {AmbiguousUpstream(i) : i \in Reservations}

Init ==
  /\ reservations = [i \in Reservations |-> AbsentRow]
  /\ priorUsage = [b \in Bills |-> [resource |-> "none", actual |-> 0]]
  /\ billed = [b \in Bills |-> [group |-> 0, maximum |-> 0]]
  /\ groups = [g \in Groups |-> [scope |-> {}, floor |-> 0, observed |-> 0, excess |-> 0]]
  /\ priorScope = {}
  /\ frozen = FALSE /\ reason = NoReason
  /\ tokenBudgetRemoved = FALSE
  /\ now = 0

-----------------------------------------------------------------------------
(* _usage: what counts against the allowance of a resource.                *)

(* Mutant: the token migration's retired rows stop counting.               *)
ChargeReleasingRetired(row) ==
  IF row.state = "settled" THEN row.actual
  ELSE IF row.state = "retired_token_policy" THEN 0 ELSE row.amount
(* Mutant: a settled row is still charged its hold.                        *)
ChargeKeepingHold(row) == row.amount

Charge(row) == IF row.state = "settled" THEN row.actual ELSE row.amount

ReservationCharges(r, purposes) ==
  [i \in Reservations |->
     IF reservations[i].resource = r /\ reservations[i].purpose \in purposes
     THEN Charge(reservations[i]) ELSE 0]

PriorCharges(r) ==
  [b \in Bills |-> IF priorUsage[b].resource = r THEN priorUsage[b].actual ELSE 0]

ExcessCharges == [g \in Groups |-> groups[g].excess]

Imported(r) ==
  SumUpTo(PriorCharges(r), NumBills)
    + (IF r = "modal" THEN SumUpTo(ExcessCharges, NumGroups) ELSE 0)

Committed(r) ==
  SumUpTo(ReservationCharges(r, Purposes), NumReservations) + Imported(r)
NormalCommitted(r) ==
  SumUpTo(ReservationCharges(r, {"normal"}), NumReservations) + Imported(r)

\* The total, the normal and the shutdown allowance of a resource suffice.
WithinLimits(r) ==
  Committed(r) <= TotalLimit[r] /\ NormalCommitted(r) <= NormalLimit[r]

ExpiredHeld(row) == row.state = "held" /\ row.expires <= now

FreezeFor(why) == frozen' = TRUE /\ reason' = why
KeepFreeze == UNCHANGED <<frozen, reason>>

-----------------------------------------------------------------------------
(* Mutant: shutdown work is held to the total limit only.                  *)
AllowanceLeftInTotal(r, amount, purpose) ==
  /\ Committed(r) + amount <= TotalLimit[r]
  /\ purpose = "normal" => NormalCommitted(r) + amount <= NormalLimit[r]

(* The allowance of a resource has room for one more hold.                 *)
AllowanceLeft(r, amount, purpose) ==
  /\ Committed(r) + amount <= TotalLimit[r]
  /\ purpose = "normal" => NormalCommitted(r) + amount <= NormalLimit[r]
  /\ purpose = "shutdown" =>
       (Committed(r) - NormalCommitted(r)) + amount <= TotalLimit[r] - NormalLimit[r]

(* CampaignLedger.reserve / _reserve_in_transaction, for a new identity.   *)
Reserve(i, r, amount, expires, purpose) ==
  /\ reservations[i].state = "absent"
  /\ r = "tokens" => ~tokenBudgetRemoved /\ purpose = "normal"
  /\ ~frozen
  /\ expires > now
  /\ \A j \in Reservations : ~ExpiredHeld(reservations[j])
  /\ AllowanceLeft(r, amount, purpose)
  /\ reservations' = [reservations EXCEPT ![i] =
       [state |-> "held", resource |-> r, amount |-> amount, purpose |-> purpose,
        expires |-> expires, actual |-> 0, receipt |-> NoReceipt, group |-> 0]]
  /\ UNCHANGED <<priorUsage, billed, groups, priorScope, frozen, reason,
                 tokenBudgetRemoved, now>>

(* CampaignLedger.settle / _settle_in_transaction.                         *)
Settle(i, actual, receipt) ==
  /\ reservations[i].state = "held"
  /\ \A j \in Reservations : reservations[j].receipt # receipt
  /\ reservations' = [reservations EXCEPT ![i].state = "settled",
                                          ![i].actual = actual,
                                          ![i].receipt = receipt]
  /\ IF actual > reservations[i].amount THEN FreezeFor(IncidentReason) ELSE KeepFreeze
  /\ UNCHANGED <<priorUsage, billed, groups, priorScope, tokenBudgetRemoved, now>>

(* Mutant: a downward revision by the provider lowers what is charged.     *)
AccountedLatest(reported, previous) == reported

(* A billing row keeps the greatest cost the provider ever reported for it.*)
Accounted(reported, previous) == Larger(reported, previous)

(* Mutant: history is imported without looking for reconciled rows.        *)
UnclaimedByGroupUnchecked(b, r) == TRUE

(* Modal history must not repeat a row that reconciled work already owns.  *)
UnclaimedByGroup(b, r) == r = "modal" => billed[b].group = 0

(* CampaignLedger.record_prior_usage.                                      *)
RecordPriorUsage(b, r, actual) ==
  /\ UnclaimedByGroup(b, r)
  /\ priorUsage[b].resource \in {"none", r}
  /\ priorUsage' = [priorUsage EXCEPT ![b] =
       [resource |-> r, actual |-> Accounted(actual, priorUsage[b].actual)]]
  /\ UNCHANGED <<reservations, billed, groups, priorScope, tokenBudgetRemoved, now>>
  /\ IF ~WithinLimits(r)' /\ ~(r = "tokens" /\ tokenBudgetRemoved)
     THEN FreezeFor(IncidentReason) ELSE KeepFreeze

(* modal_billing.import_report: the historical scope is registered once,   *)
(* before any Modal reservation; its rows follow as RecordPriorUsage.      *)
RegisterPriorScope(scope) ==
  /\ priorScope = {}
  /\ \A i \in Reservations : ~(reservations[i].state # "absent"
                               /\ reservations[i].resource = "modal")
  /\ priorScope' = scope
  /\ UNCHANGED <<reservations, priorUsage, billed, groups, frozen, reason,
                 tokenBudgetRemoved, now>>

(* CampaignLedger.freeze: a later reason replaces an earlier one.          *)
Freeze(why) ==
  /\ FreezeFor(why)
  /\ UNCHANGED <<reservations, priorUsage, billed, groups, priorScope,
                 tokenBudgetRemoved, now>>

(* CampaignLedger.remove_token_budget.                                     *)
HeldTokens == {i \in Reservations : reservations[i].state = "held"
                                    /\ reservations[i].resource = "tokens"}
ModalOverrun ==
  \/ \E i \in Reservations : /\ reservations[i].resource = "modal"
                             /\ reservations[i].state = "settled"
                             /\ reservations[i].actual > reservations[i].amount
  \/ \E g \in Groups : groups[g].excess > 0
\* Mutant: only recorded overruns keep the campaign frozen, not its balance.
ModalSafeWithoutBalance == ~ModalOverrun

ModalSafe == WithinLimits("modal") /\ ~ModalOverrun

RemoveTokenBudget ==
  /\ ~tokenBudgetRemoved
  /\ tokenBudgetRemoved' = TRUE
  /\ reservations' = [i \in Reservations |->
       IF i \in HeldTokens
       THEN [reservations[i] EXCEPT !.state = "retired_token_policy"]
       ELSE reservations[i]]
  /\ IF frozen /\ reason.kind = "ambiguous" /\ reason.dispatch \in HeldTokens /\ ModalSafe
     THEN frozen' = FALSE /\ reason' = NoReason
     ELSE KeepFreeze
  /\ UNCHANGED <<priorUsage, billed, groups, priorScope, now>>

-----------------------------------------------------------------------------
(* modal_reconciliation.reconcile: close finished Modal work against the   *)
(* provider's bill without returning any of its allocation.                *)

MembersOf(g) == {i \in Reservations : reservations[i].group = g}
GroupMaxima(g) ==
  [b \in Bills |-> IF billed[b].group = g THEN billed[b].maximum ELSE 0]
MemberAmounts(members) ==
  [i \in Reservations |-> IF i \in members THEN reservations[i].amount ELSE 0]

(* Mutants: the bill below the allocation becomes a credit; the bill above *)
(* it is not charged.                                                      *)
ExcessAsBalance(observed, floor) == observed - floor
ExcessIgnored(observed, floor) == 0

(* What the provider charged beyond the retained allocation.               *)
Excess(observed, floor) == Larger(0, observed - floor)

(* The provider's rows, a report \in [some of the scope -> cost], applied  *)
(* to group g; the greatest cost ever seen of a row is the one that counts.*)
ApplyReport(g, scope, floor, report) ==
  /\ \A b \in DOMAIN report : /\ priorUsage[b].resource = "none"
                              /\ billed[b].group \in {0, g}
  /\ billed' = [b \in Bills |->
       IF b \in DOMAIN report
       THEN [group |-> g, maximum |-> Accounted(report[b], billed[b].maximum)]
       ELSE billed[b]]
  /\ LET observed == SumUpTo(GroupMaxima(g)', NumBills)
         excess   == Excess(observed, floor)
     IN /\ groups' = [groups EXCEPT ![g] = [scope |-> scope, floor |-> floor,
                                            observed |-> observed, excess |-> excess]]
        /\ IF excess > 0 THEN FreezeFor(IncidentReason) ELSE KeepFreeze
  /\ UNCHANGED <<priorUsage, priorScope, tokenBudgetRemoved, now>>

(* The first reconciliation of a scope takes over the members' holds.      *)
ReconcileNew(g, scope, members, report) ==
  /\ groups[g].scope = {} /\ scope # {} /\ members # {}
  /\ scope \intersect priorScope = {}
  /\ \A h \in Groups : groups[h].scope \intersect scope = {}
  /\ \A i \in members : /\ reservations[i].state = "held"
                        /\ reservations[i].resource = "modal"
                        /\ reservations[i].purpose = "normal"
  /\ reservations' = [i \in Reservations |->
       IF i \in members
       THEN [reservations[i] EXCEPT !.state = "reconciled_retained", !.group = g]
       ELSE reservations[i]]
  /\ ApplyReport(g, scope, SumUpTo(MemberAmounts(members), NumReservations), report)

(* A later report for the same specification: the same scope and members.  *)
ReconcileRevision(g, report) ==
  /\ groups[g].scope # {}
  /\ ApplyReport(g, groups[g].scope, groups[g].floor, report)
  /\ UNCHANGED reservations

Tick == /\ now < MaxTime
        /\ now' = now + 1
        /\ UNCHANGED <<reservations, priorUsage, billed, groups, priorScope,
                       frozen, reason, tokenBudgetRemoved>>

-----------------------------------------------------------------------------
(* accounting_totals: what telemetry reports of a resource as observed, as *)
(* still reserved and as retired; a reconciled hold through its group.     *)
Column(r, state, column) ==
  [i \in Reservations |->
     IF reservations[i].state = state /\ reservations[i].resource = r
     THEN reservations[i][column] ELSE 0]
ObservedByGroup == [g \in Groups |-> groups[g].observed]
LeftInGroup == [g \in Groups |-> Larger(0, groups[g].floor - groups[g].observed)]
Observed(r) ==
  SumUpTo(Column(r, "settled", "actual"), NumReservations) + SumUpTo(PriorCharges(r), NumBills)
    + (IF r = "modal" THEN SumUpTo(ObservedByGroup, NumGroups) ELSE 0)
Reserved(r) ==
  SumUpTo(Column(r, "held", "amount"), NumReservations)
    + (IF r = "modal" THEN SumUpTo(LeftInGroup, NumGroups) ELSE 0)
Retired(r) == SumUpTo(Column(r, "retired_token_policy", "amount"), NumReservations)

-----------------------------------------------------------------------------
Reports(scope) == UNION {[seen -> Costs] : seen \in SUBSET scope}

Next ==
  \/ \E i \in Reservations, r \in Resources, amount \in Amounts,
        expires \in 1..MaxTime, purpose \in Purposes :
          Reserve(i, r, amount, expires, purpose)
  \/ \E i \in Reservations, actual \in Costs, receipt \in Receipts :
          Settle(i, actual, receipt)
  \/ \E b \in Bills, r \in Resources, actual \in Costs : RecordPriorUsage(b, r, actual)
  \/ \E scope \in SUBSET Bills \ {{}} : RegisterPriorScope(scope)
  \/ \E why \in FreezeReasons : Freeze(why)
  \/ RemoveTokenBudget
  \/ \E g \in Groups, scope \in SUBSET Bills, members \in SUBSET Reservations :
          \E report \in Reports(scope) : ReconcileNew(g, scope, members, report)
  \/ \E g \in Groups : \E report \in Reports(groups[g].scope) : ReconcileRevision(g, report)
  \/ Tick

Spec == Init /\ [][Next]_ledgerVars

-----------------------------------------------------------------------------
(* Properties.                                                             *)

\* The tables keep their columns' types; an absent row charges nothing.
TypeOK ==
  /\ reservations \in [Reservations -> ReservationRow]
  /\ \A i \in Reservations : reservations[i].state = "absent" => reservations[i] = AbsentRow
  /\ priorUsage \in [Bills -> [resource: Resources \union {"none"}, actual: Nat]]
  /\ billed \in [Bills -> [group: {0} \union Groups, maximum: Nat]]
  /\ groups \in [Groups -> [scope: SUBSET Bills, floor: Nat, observed: Nat, excess: Nat]]
  /\ priorScope \in SUBSET Bills
  /\ frozen \in BOOLEAN /\ reason \in FreezeReasons \union {NoReason}
  /\ tokenBudgetRemoved \in BOOLEAN
  /\ now \in Nat

\* While a campaign admits work (it is not frozen), every allowance holds what
\* was promised of it: holds, settled usage, imported history and reconciled
\* excess together stay within the total and within the normal limit. Reserve
\* checks this once; every other operation that raises usage must freeze.
AllowanceRespected ==
  ~frozen => \A r \in Resources : (r = "tokens" => ~tokenBudgetRemoved) => WithinLimits(r)

\* Shutdown work never eats the normal allowance: while the campaign admits
\* work, cleanup holds stay inside the difference of the two limits.
ShutdownReserveKept ==
  ~frozen => Committed("modal") - NormalCommitted("modal")
               <= TotalLimit["modal"] - NormalLimit["modal"]

\* Why an admitting campaign is within its limits: nothing it settled exceeded
\* its hold (token overruns aside once that budget is gone) and no group was
\* billed beyond its allocation; and frozen or not, the shutdown holds never
\* outgrew the shutdown allowance.
NoUnfrozenOverrun ==
  ~frozen => /\ \A i \in Reservations :
                  reservations[i].state = "settled"
                    /\ (reservations[i].resource = "tokens" => ~tokenBudgetRemoved)
                      => reservations[i].actual <= reservations[i].amount
             /\ \A g \in Groups : groups[g].excess = 0
HeldForShutdown ==
  [i \in Reservations |->
     IF reservations[i].resource = "modal" /\ reservations[i].purpose = "shutdown"
     THEN IF Charge(reservations[i]) <= reservations[i].amount
          THEN Charge(reservations[i]) ELSE reservations[i].amount
     ELSE 0]
ShutdownHoldsCapped ==
  SumUpTo(HeldForShutdown, NumReservations) <= TotalLimit["modal"] - NormalLimit["modal"]
LedgerSound == /\ AllowanceRespected /\ ShutdownReserveKept
               /\ NoUnfrozenOverrun /\ ShutdownHoldsCapped

\* The balances telemetry reports (accounting_totals): what was observed, what
\* is still reserved and what was retired add up to what admission charges.
\* It holds although reconciled allocations are reported through their group
\* and charged through their reservation rows.
AccountingBalances ==
  \A r \in Resources : Observed(r) + Reserved(r) + Retired(r) = Committed(r)

\* One hour of one app is charged once: no billing row is both imported as
\* Modal history and counted towards a reconciliation group, in whatever
\* order imports and reconciliations arrive.
BillsCountedOnce ==
  \A b \in Bills : /\ priorUsage[b].resource = "modal" => billed[b].group = 0
                   /\ billed[b].group # 0 => b \in groups[billed[b].group].scope

\* What no step does to the accounts, named for the proofs.
AccountedKept ==
  /\ \A i \in Reservations :
       reservations[i].state \notin {"absent", "held"} => reservations'[i] = reservations[i]
  /\ \A b \in Bills : /\ priorUsage'[b].actual >= priorUsage[b].actual
                      /\ billed'[b].maximum >= billed[b].maximum
  /\ \A g \in Groups : groups'[g].excess >= groups[g].excess
  /\ \A r \in Resources : Committed(r)' < Committed(r) =>
       \E i \in Reservations : /\ reservations[i].state = "held"
                               /\ reservations'[i].state = "settled"
                               /\ reservations'[i].actual < reservations[i].amount

\* What has been accounted for stays accounted for: settled, retained and
\* retired reservations never change again (no refund through settlement, no
\* second settlement), the greatest cost seen of a billing row never falls, and
\* allowance comes back in one way only, a settlement below the hold: expiry,
\* reconciliation, freezing and the token migration never lower a commitment.
AccountedUsageIsFinal == [][AccountedKept]_ledgerVars
=============================================================================
