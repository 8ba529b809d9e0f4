-------------------------------- MODULE Budgets --------------------------------
(***************************************************************************)
(* Budget admission, accounting and enforcement of one company               *)
(* (server/src/services: budgets.ts, budget-reservations.ts,                 *)
(* budget-exposure.ts, run-cost-accounting.ts, usage-receipts.ts,            *)
(* budget-enforcement-worker.ts), with the dispatch gate that asks it        *)
(* (modules/run-dispatch) and the Stop it delivers (heartbeat/run-control).  *)
(*                                                                          *)
(* Every transaction of withAccountingTransaction holds the lock of the      *)
(* company, so it is one action.  What happens outside that lock, the last   *)
(* dispatch gate, the provider's own progress, its receipts on disk, a run   *)
(* turning terminal and each await of the enforcement worker, is an action   *)
(* of its own.  All policies count billed cents over their lifetime and      *)
(* stop hard: the month's rollover, warnings, incidents and unpriced usage   *)
(* are left out.                                                             *)
(***************************************************************************)
EXTENDS Naturals, FiniteSets, FiniteSetsExt

CONSTANTS Runs, Policies,
          Scopes,      \* numbered in the order in which admission visits them
          ScopeOf,     \* ScopeOf[p]: the scope of policy p
          ScopesOf,    \* ScopesOf[r]: company, agent and project of run r
          Estimate,    \* policy.reservationCents
          MaxCost,     \* bound on what one run costs
          MaxLimit,    \* bound on the amount of a policy
          MaxEdits,    \* bound on edits of policies
          MaxFaults    \* bound on failed Stops and worker restarts

ASSUME ScopeAssumption  == /\ Scopes \subseteq Nat /\ IsFiniteSet(Runs)
                           /\ ScopeOf \in [Policies -> Scopes]
                           /\ ScopesOf \in [Runs -> SUBSET Scopes]
ASSUME AmountAssumption == /\ Estimate \in [Policies -> Nat]
                           /\ {MaxCost, MaxLimit, MaxEdits, MaxFaults} \subseteq Nat
ASSUME NameAssumption   == {"none", "delivered"} \cap Policies = {}

VARIABLES status,      \* heartbeat_runs.status
          stage,       \* how far the executor's dispatch has come
          fence,       \* the Stop intent: "none", the policy, or "delivered"
          reservation, \* budget_reservations
          account,     \* costAccountingPending and costAccountedAt
          disk,        \* the run's last usage receipt in the spool
          usage,       \* the last receipt in heartbeat_runs.usageJson
          ledger,      \* cost_events
          limit,       \* budget_policies.amount, 0 when inactive
          generation,  \* enforcementVersion and enforcementDeliveredVersion
          budgetHeld,  \* the scopes that a budget has paused
          worker,      \* what the delivery worker is doing for a policy
          cut,         \* policies edited below what was already promised
          edits, faults

runVars    == <<status, stage, fence, reservation, account, disk, usage, ledger>>
workerVars == <<worker, faults>>
policyVars == <<limit, cut, edits>>
vars == <<runVars, limit, generation, budgetHeld, worker, cut, edits, faults>>

Stages  == {"idle", "reserved", "admitted", "working", "ended", "undone"}
Receipt == [cost : 0..MaxCost, complete : BOOLEAN]

TypeOK ==
  /\ status \in [Runs -> {"none", "queued", "running", "terminal"}]
  /\ stage \in [Runs -> Stages]
  /\ fence \in [Runs -> Policies \cup {"none", "delivered"}]
  /\ reservation \in [Runs -> [state : {"none", "held", "settled", "released"}, amount : Nat]]
  /\ account \in [Runs -> {"none", "pending", "accounted"}]
  /\ disk \in [Runs -> Receipt] /\ usage \in [Runs -> Receipt]
  /\ ledger \in [Runs -> 0..MaxCost]
  /\ limit \in [Policies -> 0..MaxLimit]
  /\ generation \in [Policies -> [version : Nat, delivered : Nat]]
  /\ budgetHeld \in [Scopes -> BOOLEAN]
  /\ worker \in [Policies -> [phase : {"idle", "picked", "fencing", "stopping", "marking"},
                              version : Nat, runs : SUBSET Runs]]
  /\ cut \subseteq Policies /\ edits \in 0..MaxEdits /\ faults \in 0..MaxFaults

Idle == [phase |-> "idle", version |-> 0, runs |-> {}]

Init ==
  /\ status = [r \in Runs |-> "none"]
  /\ stage = [r \in Runs |-> "idle"]
  /\ fence = [r \in Runs |-> "none"]
  /\ reservation = [r \in Runs |-> [state |-> "none", amount |-> 0]]
  /\ account = [r \in Runs |-> "none"]
  /\ disk = [r \in Runs |-> [cost |-> 0, complete |-> FALSE]] /\ usage = disk
  /\ ledger = [r \in Runs |-> 0]
  /\ limit \in [Policies -> 0..MaxLimit]
  /\ generation = [p \in Policies |-> [version |-> 0, delivered |-> 0]]
  /\ budgetHeld = [s \in Scopes |-> FALSE]
  /\ worker = [p \in Policies |-> Idle]
  /\ cut = {} /\ edits = 0 /\ faults = 0

(***************************************************************************)
(* Exposure.                                                                *)
(***************************************************************************)
RunsOf(s)      == {r \in Runs : s \in ScopesOf[r]}
PoliciesOf(s)  == {p \in Policies : ScopeOf[p] = s}
ActiveOn(S)    == {p \in Policies : ScopeOf[p] \in S /\ limit[p] > 0}

\* What the runs of a scope cost together: the number of their cents.
Cents(s, cost) == UNION {{r} \X (1..cost[r]) : r \in RunsOf(s)}
Total(s, cost) == Cardinality(Cents(s, cost))

Live(r)        == IF account[r] = "pending" THEN usage[r].cost ELSE 0
Observed(s)    == Total(s, [r \in Runs |-> ledger[r] + Live(r)])

\* A reservation and the observation of its run describe one operation.
Held(r)        == IF reservation[r].state = "held" /\ reservation[r].amount > Live(r)
                  THEN reservation[r].amount ELSE Live(r)
Committed(s)   == Total(s, [r \in Runs |-> ledger[r] + Held(r)])

Overspent(p)   == limit[p] > 0 /\ Observed(ScopeOf[p]) >= limit[p]
Owing(s)       == \E r \in RunsOf(s) : account[r] = "pending" /\ status[r] = "terminal"
Blocks(p)      == Overspent(p) \/ (limit[p] > 0 /\ Owing(ScopeOf[p]))
Blocking(S)    == {p \in ActiveOn(S) : Blocks(p)}
BlockedOf(r)   == {s \in ScopesOf[r] : Blocking({s}) # {}}

(***************************************************************************)
(* Holds and generations.  A request of cancellation keeps a generation     *)
(* that is still undelivered.                                               *)
(***************************************************************************)
Undelivered(g, p) == g[p].version > g[p].delivered
Requested(g, ps)  == [p \in Policies |-> IF p \in ps /\ ~Undelivered(g, p)
                                         THEN [g[p] EXCEPT !.version = @ + 1] ELSE g[p]]

\* Mutated form of EvaluateAffected: holds are set and never released.
EvaluateAffectedHoldOnly(S, g) ==
  /\ generation' = Requested(g, Blocking(S)')
  /\ budgetHeld' = [s \in Scopes |-> budgetHeld[s] \/ (s \in S /\ Blocking({s}) # {})']

\* evaluateAffectedScopes, on the rows as the transaction has left them.
EvaluateAffected(S, g) ==
  /\ generation' = Requested(g, Blocking(S)')
  /\ budgetHeld' = [s \in Scopes |-> IF s \in S /\ ActiveOn({s}) # {}
                                     THEN (Blocking({s}) # {})' ELSE budgetHeld[s]]

\* reconcileScope: the first policy that blocks decides, and a scope that is
\* held already asks for no further cancellation.
Reconcile(blocked, healthy) ==
  /\ budgetHeld' = [s \in Scopes |-> IF s \in blocked THEN TRUE
                                     ELSE IF s \in healthy /\ PoliciesOf(s) # {} THEN FALSE
                                     ELSE budgetHeld[s]]
  /\ \/ \E p \in Blocking({s \in blocked : ~budgetHeld[s]}) :
          generation' = Requested(generation, {p})
     \/ /\ \A s \in blocked : budgetHeld[s]
        /\ UNCHANGED generation

\* evaluateAdmission visits the scopes of a run up to the first that blocks.
EvaluateAdmission(r) ==
  IF BlockedOf(r) = {} THEN Reconcile({}, ScopesOf[r])
  ELSE LET first == Min(BlockedOf(r))
       IN  Reconcile({first}, {s \in ScopesOf[r] : s < first})

(***************************************************************************)
(* Runs: admission, reservation and dispatch.                               *)
(***************************************************************************)
NoOtherChange(r) == UNCHANGED <<fence, account, disk, usage, ledger, workerVars, policyVars>>

\* enqueueWakeup asks for an invocation block before it creates the run.
Enqueue(r) ==
  /\ status[r] = "none"
  /\ EvaluateAdmission(r)
  /\ status' = IF BlockedOf(r) = {} THEN [status EXCEPT ![r] = "queued"] ELSE status
  /\ NoOtherChange(r) /\ UNCHANGED <<stage, reservation>>

\* claimQueuedRun asks again, and cancels a run that is blocked.
Claim(r) ==
  /\ status[r] = "queued"
  /\ EvaluateAdmission(r)
  /\ status' = [status EXCEPT ![r] = IF BlockedOf(r) = {} THEN "running" ELSE "terminal"]
  /\ NoOtherChange(r) /\ UNCHANGED <<stage, reservation>>

MayStart(r)   == status[r] = "running" /\ fence[r] = "none" /\ account[r] # "accounted"

\* The largest of the estimates of the policies that apply.
Amount(r) == {amount \in {0} \cup {Estimate[p] : p \in ActiveOn(ScopesOf[r])} :
                \A p \in ActiveOn(ScopesOf[r]) : Estimate[p] =< amount}
\* Mutated form of HasCapacity: it counts what was spent and not what was promised.
HasCapacityOfSpend(r, amount) == \A p \in ActiveOn(ScopesOf[r]) :
                                   Observed(ScopeOf[p]) + amount =< limit[p]

HasCapacity(r, amount) == \A p \in ActiveOn(ScopesOf[r]) :
                            /\ Committed(ScopeOf[p]) < limit[p]
                            /\ Committed(ScopeOf[p]) + amount =< limit[p]

\* reserveRunBudget.  The holds it has changed commit when it denies, too; an
\* agent that is not ready denies although there is capacity.
Reserve(r) ==
  /\ MayStart(r) /\ reservation[r].state = "none"
  /\ EvaluateAdmission(r)
  /\ \/ /\ BlockedOf(r) = {}
        /\ \E amount \in Amount(r) :
             /\ HasCapacity(r, amount)
             /\ reservation' = [reservation EXCEPT ![r] = [state |-> "held", amount |-> amount]]
        /\ account' = [account EXCEPT ![r] = "pending"]
        /\ stage' = [stage EXCEPT ![r] = "reserved"]
     \/ UNCHANGED <<reservation, account, stage>>
  /\ UNCHANGED <<status, fence, disk, usage, ledger, workerVars, policyVars>>

\* The run's own hold is part of what is committed.
KeepsCapacity(r) == \A p \in ActiveOn(ScopesOf[r]) :
  /\ Committed(ScopeOf[p]) =< limit[p]
  /\ reservation[r].amount = 0 => Committed(ScopeOf[p]) < limit[p]

\* The accounting phase of the dispatch gate: recheck, then claim the dispatch.
AdmitDispatch(r) ==
  /\ stage[r] = "reserved" /\ MayStart(r) /\ reservation[r].state = "held"
  /\ EvaluateAdmission(r)
  /\ stage' = IF BlockedOf(r) = {} /\ KeepsCapacity(r)
              THEN [stage EXCEPT ![r] = "admitted"] ELSE stage
  /\ NoOtherChange(r) /\ UNCHANGED <<status, reservation>>

\* Mutated form of HandOff: the run itself is not read again after the lock was
\* released.
HandOffUnread(r) ==
  /\ stage[r] = "admitted" /\ reservation[r].state = "held"
  /\ \A s \in ScopesOf[r] : ~budgetHeld[s]
  /\ Blocking(ScopesOf[r]) = {} /\ KeepsCapacity(r)
  /\ stage' = [stage EXCEPT ![r] = "working"]
  /\ NoOtherChange(r) /\ UNCHANGED <<status, reservation, generation, budgetHeld>>

\* The ownership phase, without the company's lock: the provider starts.
HandOff(r) ==
  /\ stage[r] = "admitted" /\ MayStart(r) /\ reservation[r].state = "held"
  /\ \A s \in ScopesOf[r] : ~budgetHeld[s]
  /\ Blocking(ScopesOf[r]) = {} /\ KeepsCapacity(r)
  /\ stage' = [stage EXCEPT ![r] = "working"]
  /\ NoOtherChange(r) /\ UNCHANGED <<status, reservation, generation, budgetHeld>>

\* The executor's finally: no provider work has started under the reservation.
\* A Stop or a denial brings it here, and so does any failure before the gate.
Undispatch(r) ==
  /\ stage[r] \in {"reserved", "admitted"}
  /\ stage' = [stage EXCEPT ![r] = "undone"]
  /\ NoOtherChange(r) /\ UNCHANGED <<status, reservation, generation, budgetHeld>>

\* A provider's progress, its end, and the receipts its recorder syncs to disk.
Checkpoint(r) ==
  /\ stage[r] = "working" /\ disk[r].cost < MaxCost
  /\ disk' = [disk EXCEPT ![r].cost = @ + 1]
  /\ UNCHANGED <<status, stage, fence, reservation, account, usage, ledger,
                 generation, budgetHeld, workerVars, policyVars>>

EndWork(r) ==
  /\ stage[r] = "working"
  /\ stage' = [stage EXCEPT ![r] = "ended"]
  /\ NoOtherChange(r) /\ UNCHANGED <<status, reservation, generation, budgetHeld>>

FinalReceipt(r) ==
  /\ stage[r] = "ended" /\ ~disk[r].complete
  /\ \E cost \in 0..MaxCost : disk' = [disk EXCEPT ![r] = [cost |-> cost, complete |-> TRUE]]
  /\ UNCHANGED <<status, stage, fence, reservation, account, usage, ledger,
                 generation, budgetHeld, workerVars, policyVars>>

Finish(r) ==
  /\ status[r] = "running" /\ stage[r] \in {"idle", "ended", "undone"}
  /\ status' = [status EXCEPT ![r] = "terminal"]
  /\ NoOtherChange(r) /\ UNCHANGED <<stage, reservation, generation, budgetHeld>>

(***************************************************************************)
(* Accounting.                                                              *)
(***************************************************************************)
\* Mutated form of PersistReceipt: the cumulative receipt is taken for a delta.
PersistReceiptDelta(r) ==
  /\ account[r] = "pending" /\ usage[r] # disk[r]
  /\ usage' = [usage EXCEPT ![r] = [disk[r] EXCEPT !.cost = @ - usage[r].cost]]
  /\ UNCHANGED <<status, stage, fence, reservation, account, disk, ledger,
                 workerVars, policyVars, generation, budgetHeld>>

\* persistUsageReceipt evaluates the scopes when what was observed changes.
PersistReceipt(r) ==
  /\ account[r] = "pending" /\ usage[r] # disk[r]
  /\ usage' = [usage EXCEPT ![r] = disk[r]]
  /\ UNCHANGED <<status, stage, fence, reservation, account, disk, ledger,
                 workerVars, policyVars>>
  /\ IF disk[r].cost # usage[r].cost THEN EvaluateAffected(ScopesOf[r], generation)
                                     ELSE UNCHANGED <<generation, budgetHeld>>

\* Mutated form of Settled: a partial receipt settles a run that has ended.
SettledPartially(r) == stage[r] \in {"undone", "ended"}

\* accountRunCost drains the spool of the run before it settles.  The drained
\* receipt is evaluated while the run still owes its accounting.
Settled(r) == stage[r] = "undone" \/ disk[r].complete

AccountRunCost(r) ==
  /\ account[r] = "pending" /\ status[r] = "terminal" /\ Settled(r)
  /\ account' = [account EXCEPT ![r] = "accounted"]
  /\ usage' = [usage EXCEPT ![r] = disk[r]]
  /\ reservation' = [reservation EXCEPT ![r].state = IF stage[r] = "undone" THEN "released" ELSE "settled"]
  /\ ledger' = IF stage[r] = "undone" THEN ledger ELSE [ledger EXCEPT ![r] = disk[r].cost]
  /\ UNCHANGED <<status, stage, fence, disk, workerVars, policyVars>>
  /\ EvaluateAffected(ScopesOf[r], IF disk[r].cost = usage[r].cost THEN generation
                                   ELSE Requested(generation, ActiveOn(ScopesOf[r])))

(***************************************************************************)
(* Policies.  An edit and the approval of a raise are a new generation; a   *)
(* policy that is new starts at the generation of its row.                  *)
(***************************************************************************)
Upserted(p) ==
  {[generation EXCEPT ![p].version = @ + 1]}
    \cup (IF limit[p] = 0 /\ generation[p].version = 0 THEN {generation} ELSE {})

UpsertPolicy(p) ==
  /\ edits < MaxEdits /\ edits' = edits + 1
  /\ \E amount \in 0..MaxLimit :
       /\ amount # limit[p] /\ limit' = [limit EXCEPT ![p] = amount]
       /\ cut' = IF Committed(ScopeOf[p]) > amount THEN cut \cup {p} ELSE cut \ {p}
  /\ UNCHANGED <<runVars, workerVars>>
  /\ \E g \in Upserted(p) : generation' = IF Blocks(p)' THEN Requested(g, {p}) ELSE g
  /\ budgetHeld' = [budgetHeld EXCEPT ![ScopeOf[p]] = (Blocking({ScopeOf[p]}) # {})' /\ (@ \/ Blocks(p)')]

\* The startup pass and the interface for a single scope.
ReconcileScope(s) ==
  /\ IF Blocking({s}) = {} THEN Reconcile({}, {s}) ELSE Reconcile({s}, {})
  /\ UNCHANGED <<runVars, workerVars, policyVars>>

(***************************************************************************)
(* The enforcement worker: one sweep of deliverBudgetEnforcement, whose     *)
(* deliveries of up to four policies interleave.                            *)
(***************************************************************************)
Pending(r)        == fence[r] \in Policies
PendingOf(f, s)   == {r \in Runs : f[r] \in PoliciesOf(s)}
Current(p)        == worker[p].version = generation[p].version
Working(p, phase, runs) ==
  worker' = [worker EXCEPT ![p] = [@ EXCEPT !.phase = phase, !.runs = runs]]

\* The read of the policies whose generation is undelivered.
Pick(p) ==
  /\ worker[p].phase = "idle" /\ Undelivered(generation, p)
  /\ worker' = [worker EXCEPT ![p] = [phase |-> "picked", version |-> generation[p].version, runs |-> {}]]
  /\ UNCHANGED <<runVars, generation, budgetHeld, policyVars, faults>>

\* The transaction that says whether the generation still asks for a Stop, and
\* of which runs: those created before it (createdBefore).
Authorise(p) ==
  /\ worker[p].phase = "picked"
  /\ IF Current(p) /\ Blocks(p) THEN Working(p, "fencing", {r \in Runs : status[r] # "none"})
                                ELSE Working(p, "marking", {})
  /\ UNCHANGED <<runVars, generation, budgetHeld, policyVars, faults>>

\* cancelBudgetScopeWork fences the runs in one transaction, and delivers those
\* Stops of the scope that earlier generations still owe.
FenceScope(p) ==
  /\ worker[p].phase = "fencing"
  /\ LET candidates == {r \in worker[p].runs \cap RunsOf(ScopeOf[p]) :
                          status[r] \in {"queued", "running"} /\ fence[r] = "none"}
     IN  fence' = [r \in Runs |-> IF Current(p) /\ Blocks(p) /\ r \in candidates THEN p ELSE fence[r]]
  /\ Working(p, "stopping", PendingOf(fence', ScopeOf[p]))
  /\ UNCHANGED <<status, stage, reservation, account, disk, usage, ledger,
                 generation, budgetHeld, policyVars, faults>>

\* Mutated form of PickCommitted: only a policy that still blocks owes its Stops.
PickCommittedBlocking(p) ==
  /\ worker[p].phase = "idle" /\ ~Undelivered(generation, p)
  /\ Blocks(p) /\ \E r \in Runs : fence[r] = p
  /\ worker' = [worker EXCEPT ![p] = [phase |-> "stopping", version |-> 0,
                                      runs |-> PendingOf(fence, ScopeOf[p])]]
  /\ UNCHANGED <<runVars, generation, budgetHeld, policyVars, faults>>

\* The Stops that are committed outlive the policy's generation.
PickCommitted(p) ==
  /\ worker[p].phase = "idle" /\ ~Undelivered(generation, p)
  /\ \E r \in Runs : fence[r] = p
  /\ worker' = [worker EXCEPT ![p] = [phase |-> "stopping", version |-> 0,
                                      runs |-> PendingOf(fence, ScopeOf[p])]]
  /\ UNCHANGED <<runVars, generation, budgetHeld, policyVars, faults>>

\* cancelRun: the provider has stopped, so the run is terminal and its Stop is
\* acknowledged; the receipt and the executor's finally may still be to come.  A run
\* that ended by itself needs the proof that its provider exited: cancelRun throws
\* while there is none, which is a FailDelivery.
StopRun(r) ==
  /\ Pending(r) /\ \E p \in Policies : worker[p].phase = "stopping" /\ r \in worker[p].runs
  /\ fence' = [fence EXCEPT ![r] = "delivered"]
  /\ status' = [status EXCEPT ![r] = "terminal"]
  /\ stage' = IF stage[r] = "working" THEN [stage EXCEPT ![r] = "ended"] ELSE stage
  /\ UNCHANGED <<reservation, account, disk, usage, ledger, generation, budgetHeld,
                 workerVars, policyVars>>

\* A delivery without failures is marked, for the generation it was read at.
MarkDelivered(p) ==
  /\ \/ worker[p].phase = "marking"
     \/ worker[p].phase = "stopping" /\ \A r \in worker[p].runs : ~Pending(r)
  /\ generation' = IF Current(p) THEN [generation EXCEPT ![p].delivered = worker[p].version]
                                 ELSE generation
  /\ worker' = [worker EXCEPT ![p] = Idle]
  /\ UNCHANGED <<runVars, budgetHeld, policyVars, faults>>

\* A Stop fails, or the process ends: what is owed is in the database.
FailDelivery(p) ==
  /\ worker[p].phase = "stopping" /\ \E r \in worker[p].runs : Pending(r)
  /\ faults < MaxFaults /\ faults' = faults + 1
  /\ worker' = [worker EXCEPT ![p] = Idle]
  /\ UNCHANGED <<runVars, generation, budgetHeld, policyVars>>

Restart ==
  /\ \E p \in Policies : worker[p].phase # "idle"
  /\ faults < MaxFaults /\ faults' = faults + 1
  /\ worker' = [p \in Policies |-> Idle]
  /\ UNCHANGED <<runVars, generation, budgetHeld, policyVars>>

WorkerStep(p) == Pick(p) \/ Authorise(p) \/ FenceScope(p) \/ PickCommitted(p) \/ MarkDelivered(p)

Next ==
  \/ \E r \in Runs : \/ Enqueue(r) \/ Claim(r) \/ Reserve(r) \/ AdmitDispatch(r)
                     \/ HandOff(r) \/ Undispatch(r) \/ Checkpoint(r) \/ EndWork(r)
                     \/ FinalReceipt(r) \/ Finish(r) \/ PersistReceipt(r)
                     \/ AccountRunCost(r) \/ StopRun(r)
  \/ \E p \in Policies : UpsertPolicy(p) \/ WorkerStep(p) \/ FailDelivery(p)
  \/ \E s \in Scopes : ReconcileScope(s)
  \/ Restart

Spec == Init /\ [][Next]_vars

\* The delivery coordinator sweeps again as long as work is pending.
Fairness == /\ \A p \in Policies : WF_vars(WorkerStep(p))
            /\ \A r \in Runs : WF_vars(StopRun(r))

FairSpec == Spec /\ Fairness

(***************************************************************************)
(* Properties.                                                              *)
(***************************************************************************)
\* A scope that has spent its budget is held, and a hold does not outlive what
\* it was for: whatever lowers the exposure of a scope, the settlement of a
\* run, a corrected receipt or an edit, releases the hold it no longer needs.
HoldTracksSpend == \A s \in Scopes :
  /\ (\E p \in PoliciesOf(s) : Overspent(p)) => budgetHeld[s]
  /\ budgetHeld[s] => Blocking({s}) # {}

\* Runs that are admitted concurrently never promise more than a policy allows,
\* unless a run costs more than its reservation or an edit lowers the amount
\* below what was promised.
NoOverbooking == \A p \in Policies :
  limit[p] > 0 /\ p \notin cut /\ Committed(ScopeOf[p]) > limit[p] =>
    \E r \in RunsOf(ScopeOf[p]) : usage[r].cost > reservation[r].amount

\* Provider work is covered by a held reservation and by the accounting that is
\* owed for it, and what the ledger charges in the end is the final bill: no
\* partial receipt, and no reservation that is released as never used.
SpendIsAccounted == \A r \in Runs :
  /\ stage[r] = "working" => reservation[r].state = "held" /\ account[r] = "pending"
  /\ account[r] = "accounted" /\ stage[r] # "undone" =>
       stage[r] = "ended" /\ disk[r].complete /\ ledger[r] = disk[r].cost

\* No provider works for a run whose Stop has been acknowledged, although the
\* Stop races with the dispatch of that run.
StopIsFinal == \A r \in Runs : fence[r] = "delivered" => stage[r] # "working"

\* A generation that is pending covers all the work that is admitted
\* (budgets.ts:314): work that a policy must stop is fenced, or owed a Stop.
StopIsOwed == \A p \in Policies, r \in Runs :
  Overspent(p) /\ r \in RunsOf(ScopeOf[p]) /\ stage[r] = "working" =>
    fence[r] # "none" \/ Undelivered(generation, p)

\* A Stop that is committed is delivered, whatever edits, failures and restarts
\* come in between.
StopIsDelivered == \A r \in Runs : Pending(r) ~> fence[r] = "delivered"
================================================================================
