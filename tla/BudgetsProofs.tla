----------------------------- MODULE BudgetsProofs -----------------------------
(***************************************************************************)
(* Proofs about Budgets, for any runs, scopes, policies and amounts.  The    *)
(* inductive invariant follows one run from its reservation to its bill:     *)
(* what each stage of the dispatch implies about the rows, and about the     *)
(* Stop that may come in between.                                            *)
(***************************************************************************)
EXTENDS Budgets, FiniteSetTheorems, FunctionTheorems, WellFoundedInduction, TLAPS

------------------------------------------------------------------------------
(* The inductive invariant.                                                   *)

\* A dispatch has a reservation, and owes or has owed its accounting.
Begun(r) == stage[r] # "idle" => reservation[r].state # "none" /\ account[r] # "none"

\* Provider work is a running run's, reserved, owing its bill and not stopped.
Covered(r) == stage[r] = "working" =>
  /\ reservation[r].state = "held" /\ account[r] = "pending"
  /\ status[r] = "running" /\ fence[r] # "delivered"

\* Receipts are final only when the work is, and so is what was charged.
Billed(r) ==
  /\ disk[r].complete => stage[r] = "ended"
  /\ account[r] = "accounted" =>
       \/ stage[r] = "undone"
       \/ stage[r] = "ended" /\ disk[r].complete /\ ledger[r] = disk[r].cost

RunInv(r) == Begun(r) /\ Covered(r) /\ Billed(r)

IInv == TypeOK /\ \A r \in Runs : RunInv(r)

Generations  == [Policies -> [version : Nat, delivered : Nat]]
Workers      == [Policies -> [phase : {"idle", "picked", "fencing", "stopping", "marking"},
                              version : Nat, runs : SUBSET Runs]]
Reservations == [state : {"none", "held", "settled", "released"}, amount : Nat]

------------------------------------------------------------------------------
(* Holds and generations keep their types in every evaluation.                *)

\* A request of cancellation changes versions only.
LEMMA RequestedType ==
  ASSUME NEW g \in Generations, NEW ps
  PROVE  Requested(g, ps) \in Generations
BY DEF Requested, Generations, Undelivered

\* What an evaluation of affected scopes leaves.
LEMMA AffectedType ==
  ASSUME TypeOK, NEW S, NEW g \in Generations, EvaluateAffected(S, g)
  PROVE  generation' \in Generations /\ budgetHeld' \in [Scopes -> BOOLEAN]
<1>1. generation' \in Generations
  BY RequestedType DEF EvaluateAffected
<1>2. budgetHeld' \in [Scopes -> BOOLEAN]
  BY DEF EvaluateAffected, TypeOK
<1>3. QED
  BY <1>1, <1>2

\* What the reconciliation of scopes leaves.
LEMMA ReconcileType ==
  ASSUME TypeOK, NEW blocked, NEW healthy, Reconcile(blocked, healthy)
  PROVE  generation' \in Generations /\ budgetHeld' \in [Scopes -> BOOLEAN]
<1>1. generation \in Generations
  BY DEF TypeOK, Generations
<1>2. generation' \in Generations
  BY <1>1, RequestedType DEF Reconcile
<1>3. budgetHeld' \in [Scopes -> BOOLEAN]
  BY DEF Reconcile, TypeOK
<1>4. QED
  BY <1>2, <1>3

\* What an admission leaves, whether it blocks or not.
LEMMA AdmissionType ==
  ASSUME TypeOK, NEW r, EvaluateAdmission(r)
  PROVE  generation' \in Generations /\ budgetHeld' \in [Scopes -> BOOLEAN]
BY ReconcileType DEF EvaluateAdmission

------------------------------------------------------------------------------
(* The actions of a run.                                                      *)

\* Admission, claim and dispatch.
LEMMA AdmissionStep ==
  ASSUME IInv, NEW r \in Runs,
         Enqueue(r) \/ Claim(r) \/ Reserve(r) \/ AdmitDispatch(r)
  PROVE  IInv'
<1>1. EvaluateAdmission(r)
  BY DEF Enqueue, Claim, Reserve, AdmitDispatch
<1>2. generation' \in Generations /\ budgetHeld' \in [Scopes -> BOOLEAN]
  BY <1>1, AdmissionType DEF IInv
<1>3. CASE Enqueue(r) \/ Claim(r)
  <2>1. UNCHANGED <<stage, fence, reservation, account, disk, usage, ledger,
                    worker, faults, limit, cut, edits>>
    BY <1>3 DEF Enqueue, Claim, NoOtherChange, workerVars, policyVars
  <2>2. \/ status' = status
        \/ status' = [status EXCEPT ![r] = "queued"] /\ status[r] = "none"
        \/ \E s \in {"running", "terminal"} :
             status' = [status EXCEPT ![r] = s] /\ status[r] = "queued"
    BY <1>3 DEF Enqueue, Claim
  <2>3. status' \in [Runs -> {"none", "queued", "running", "terminal"}]
    <3>1. status \in [Runs -> {"none", "queued", "running", "terminal"}]
      BY DEF IInv, TypeOK
    <3>2. CASE status' = status
      BY <3>1, <3>2
    <3>3. CASE \E s \in {"queued", "running", "terminal"} : status' = [status EXCEPT ![r] = s]
      BY <3>1, <3>3
    <3>4. QED
      BY <2>2, <3>2, <3>3
  <2>4. TypeOK'
    BY <1>2, <2>1, <2>3 DEF IInv, TypeOK, Generations
  <2>5. \A q \in Runs : RunInv(q)'
    BY <2>1, <2>2 DEF IInv, TypeOK, RunInv, Begun, Covered, Billed
  <2>6. QED
    BY <2>4, <2>5 DEF IInv
<1>4. CASE Reserve(r)
  <2>1. UNCHANGED <<status, fence, disk, usage, ledger, worker, faults, limit, cut, edits>>
    BY <1>4 DEF Reserve, workerVars, policyVars
  <2>2. CASE UNCHANGED <<reservation, account, stage>>
    <3>1. TypeOK'
      BY <1>2, <2>1, <2>2 DEF IInv, TypeOK, Generations
    <3>2. \A q \in Runs : RunInv(q)'
      BY <2>1, <2>2 DEF IInv, RunInv, Begun, Covered, Billed
    <3>3. QED
      BY <3>1, <3>2 DEF IInv
  <2>3. CASE ~UNCHANGED <<reservation, account, stage>>
    <3>1. PICK amount \in Amount(r) :
            /\ reservation' = [reservation EXCEPT ![r] = [state |-> "held", amount |-> amount]]
            /\ account' = [account EXCEPT ![r] = "pending"]
            /\ stage' = [stage EXCEPT ![r] = "reserved"]
      BY <1>4, <2>3 DEF Reserve
    <3>2. amount \in Nat
      BY AmountAssumption DEF Amount, ActiveOn
    <3>3. stage[r] = "idle" /\ account[r] # "accounted"
      BY <1>4 DEF Reserve, MayStart, IInv, RunInv, Begun
    <3>4. [state |-> "held", amount |-> amount] \in Reservations
      BY <3>2 DEF Reservations
    <3>5. reservation' \in [Runs -> Reservations] /\ account' \in [Runs -> {"none", "pending", "accounted"}]
          /\ stage' \in [Runs -> Stages]
      BY <3>1, <3>4 DEF IInv, TypeOK, Reservations, Stages
    <3>6. TypeOK'
      BY <1>2, <2>1, <3>5 DEF IInv, TypeOK, Generations, Reservations
    <3>7. \A q \in Runs : RunInv(q)'
      BY <2>1, <3>1, <3>3 DEF IInv, TypeOK, RunInv, Begun, Covered, Billed
    <3>8. QED
      BY <3>6, <3>7 DEF IInv
  <2>4. QED
    BY <2>2, <2>3
<1>5. CASE AdmitDispatch(r)
  <2>1. UNCHANGED <<status, reservation, fence, account, disk, usage, ledger,
                    worker, faults, limit, cut, edits>>
    BY <1>5 DEF AdmitDispatch, NoOtherChange, workerVars, policyVars
  <2>2. stage[r] = "reserved" /\ (stage' = stage \/ stage' = [stage EXCEPT ![r] = "admitted"])
    BY <1>5 DEF AdmitDispatch
  <2>3. TypeOK'
    BY <1>2, <2>1, <2>2 DEF IInv, TypeOK, Generations, Stages
  <2>4. \A q \in Runs : RunInv(q)'
    BY <2>1, <2>2 DEF IInv, TypeOK, RunInv, Begun, Covered, Billed
  <2>5. QED
    BY <2>3, <2>4 DEF IInv
<1>6. QED
  BY <1>3, <1>4, <1>5

\* The executor and the provider.
LEMMA ExecutorStep ==
  ASSUME IInv, NEW r \in Runs,
         HandOff(r) \/ Undispatch(r) \/ Checkpoint(r) \/ EndWork(r) \/ FinalReceipt(r) \/ Finish(r)
  PROVE  IInv'
<1>1. UNCHANGED <<fence, reservation, account, usage, ledger, generation, budgetHeld,
                  worker, faults, limit, cut, edits>>
  BY DEF HandOff, Undispatch, Checkpoint, EndWork, FinalReceipt, Finish,
         NoOtherChange, workerVars, policyVars
<1>2. CASE HandOff(r) \/ Undispatch(r) \/ EndWork(r)
  <2>1. UNCHANGED <<status, disk>>
    BY <1>2 DEF HandOff, Undispatch, EndWork, NoOtherChange
  <2>2. \E s \in {"working", "undone", "ended"} : stage' = [stage EXCEPT ![r] = s]
    BY <1>2 DEF HandOff, Undispatch, EndWork
  <2>3. TypeOK'
    BY <1>1, <2>1, <2>2 DEF IInv, TypeOK, Stages
  <2>4. \A q \in Runs : RunInv(q)'
    BY <1>1, <1>2, <2>1 DEF IInv, TypeOK, RunInv, Begun, Covered, Billed, HandOff, Undispatch,
                             EndWork, MayStart
  <2>5. QED
    BY <2>3, <2>4 DEF IInv
<1>3. CASE Checkpoint(r)
  <2>1. UNCHANGED <<status, stage>>
    BY <1>3 DEF Checkpoint
  <2>2. disk[r] \in Receipt /\ disk[r].cost < MaxCost /\ MaxCost \in Nat
    BY <1>3, AmountAssumption DEF Checkpoint, IInv, TypeOK
  <2>3. [disk[r] EXCEPT !.cost = @ + 1] \in Receipt
    BY <2>2 DEF Receipt
  <2>4. disk' = [disk EXCEPT ![r] = [disk[r] EXCEPT !.cost = @ + 1]]
    BY <1>3 DEF Checkpoint
  <2>5. TypeOK'
    BY <1>1, <2>1, <2>3, <2>4 DEF IInv, TypeOK
  <2>6. stage[r] = "working" /\ account[r] # "accounted" /\ ~disk[r].complete
    BY <1>3 DEF Checkpoint, IInv, RunInv, Covered, Billed
  <2>7. \A q \in Runs : disk'[q].complete = disk[q].complete /\ (q # r => disk'[q] = disk[q])
    BY <2>2, <2>4 DEF IInv, TypeOK, Receipt
  <2>8. \A q \in Runs : RunInv(q)'
    BY <1>1, <2>1, <2>6, <2>7 DEF IInv, RunInv, Begun, Covered, Billed
  <2>9. QED
    BY <2>5, <2>8 DEF IInv
<1>4. CASE FinalReceipt(r)
  <2>1. UNCHANGED <<status, stage>> /\ stage[r] = "ended" /\ ~disk[r].complete
    BY <1>4 DEF FinalReceipt
  <2>2. PICK cost \in 0..MaxCost : disk' = [disk EXCEPT ![r] = [cost |-> cost, complete |-> TRUE]]
    BY <1>4 DEF FinalReceipt
  <2>3. TypeOK'
    BY <1>1, <2>1, <2>2 DEF IInv, TypeOK, Receipt
  <2>4. \A q \in Runs : RunInv(q)'
    BY <1>1, <2>1, <2>2 DEF IInv, TypeOK, RunInv, Begun, Covered, Billed
  <2>5. QED
    BY <2>3, <2>4 DEF IInv
<1>5. CASE Finish(r)
  <2>1. UNCHANGED <<stage, disk>> /\ stage[r] # "working" /\ status' = [status EXCEPT ![r] = "terminal"]
    BY <1>5 DEF Finish, NoOtherChange
  <2>2. TypeOK'
    BY <1>1, <2>1 DEF IInv, TypeOK
  <2>3. \A q \in Runs : RunInv(q)'
    BY <1>1, <2>1 DEF IInv, TypeOK, RunInv, Begun, Covered, Billed
  <2>4. QED
    BY <2>2, <2>3 DEF IInv
<1>6. QED
  BY <1>2, <1>3, <1>4, <1>5

\* Receipts and the settlement of a run.
LEMMA AccountingStep ==
  ASSUME IInv, NEW r \in Runs, PersistReceipt(r) \/ AccountRunCost(r)
  PROVE  IInv'
<1>1. generation \in Generations
  BY DEF IInv, TypeOK, Generations
<1>2. generation' \in Generations /\ budgetHeld' \in [Scopes -> BOOLEAN]
  <2>1. CASE UNCHANGED <<generation, budgetHeld>>
    BY <1>1, <2>1 DEF IInv, TypeOK
  <2>2. CASE ~UNCHANGED <<generation, budgetHeld>>
    <3>1. PICK g \in {generation, Requested(generation, ActiveOn(ScopesOf[r]))} :
            EvaluateAffected(ScopesOf[r], g)
      BY <2>2 DEF PersistReceipt, AccountRunCost
    <3>2. g \in Generations
      BY <1>1, RequestedType
    <3>3. QED
      BY <3>1, <3>2, AffectedType DEF IInv
  <2>3. QED
    BY <2>1, <2>2
<1>3. UNCHANGED <<status, stage, fence, disk, worker, faults, limit, cut, edits>>
      /\ usage' = [usage EXCEPT ![r] = disk[r]]
  BY DEF PersistReceipt, AccountRunCost, workerVars, policyVars
<1>4. CASE PersistReceipt(r)
  <2>1. UNCHANGED <<reservation, account, ledger>>
    BY <1>4 DEF PersistReceipt
  <2>2. TypeOK'
    BY <1>2, <1>3, <2>1 DEF IInv, TypeOK, Generations
  <2>3. \A q \in Runs : RunInv(q)'
    BY <1>3, <2>1 DEF IInv, RunInv, Begun, Covered, Billed
  <2>4. QED
    BY <2>2, <2>3 DEF IInv
<1>5. CASE AccountRunCost(r)
  <2>1. \/ stage[r] = "undone"
        \/ stage[r] = "ended" /\ disk[r].complete
    <3>1. Billed(r)
      BY DEF IInv, RunInv
    <3>2. Settled(r)
      BY <1>5 DEF AccountRunCost
    <3>3. disk[r].complete => stage[r] = "ended"
      BY <3>1 DEF Billed
    <3>4. stage[r] = "undone" \/ disk[r].complete
      BY <3>2, Zenon DEF Settled
    <3>5. QED
      BY <3>3, <3>4, Zenon
  <2>2. account' = [account EXCEPT ![r] = "accounted"]
    BY <1>5 DEF AccountRunCost
  <2>3. PICK s \in {"released", "settled"} : reservation' = [reservation EXCEPT ![r].state = s]
    BY <1>5 DEF AccountRunCost
  <2>4. disk[r].cost \in 0..MaxCost
    BY DEF IInv, TypeOK, Receipt
  <2>5. /\ ledger' \in [Runs -> 0..MaxCost]
        /\ \A q \in Runs : q # r => ledger'[q] = ledger[q]
        /\ stage[r] = "undone" \/ ledger'[r] = disk[r].cost
    BY <1>5, <2>4 DEF AccountRunCost, IInv, TypeOK
  <2>6. reservation' \in [Runs -> Reservations]
        /\ \A q \in Runs : reservation'[q].state = IF q = r THEN s ELSE reservation[q].state
    <3>1. reservation \in [Runs -> Reservations]
      BY DEF IInv, TypeOK, Reservations
    <3>2. [reservation[r] EXCEPT !.state = s] \in Reservations
      BY <3>1 DEF Reservations
    <3>3. reservation' = [reservation EXCEPT ![r] = [reservation[r] EXCEPT !.state = s]]
      BY <2>3
    <3>4. [reservation[r] EXCEPT !.state = s].state = s
      BY <3>1 DEF Reservations
    <3>5. QED
      BY <3>1, <3>2, <3>3, <3>4
  <2>7. TypeOK'
    <3>1. account' \in [Runs -> {"none", "pending", "accounted"}]
      BY <2>2 DEF IInv, TypeOK
    <3>2. QED
      BY <1>2, <1>3, <2>5, <2>6, <3>1 DEF IInv, TypeOK, Generations, Reservations
  <2>8. ASSUME NEW q \in Runs PROVE RunInv(q)'
    <3>1. RunInv(q)
      BY DEF IInv
    <3>2. CASE q = r
      <4>1. account'[q] = "accounted" /\ reservation'[q].state # "none"
        BY <2>2, <2>6, <3>2 DEF IInv, TypeOK
      <4>2. Begun(q)' /\ Covered(q)'
        BY <1>3, <2>1, <3>2, <4>1 DEF Begun, Covered
      <4>3. Billed(q)'
        <5>1. disk'[q] = disk[q] /\ stage'[q] = stage[q]
          BY <1>3
        <5>2. disk[q].complete => stage[q] = "ended"
          BY <3>1 DEF RunInv, Billed
        <5>3. stage[q] = "undone" \/ ledger'[q] = disk[q].cost
          BY <2>5, <3>2
        <5>4. QED
          BY <2>1, <3>2, <5>1, <5>2, <5>3, Zenon DEF Billed
      <4>4. QED
        BY <4>2, <4>3 DEF RunInv
    <3>3. CASE q # r
      <4>1. account'[q] = account[q] /\ reservation'[q].state = reservation[q].state
            /\ ledger'[q] = ledger[q]
        BY <2>2, <2>5, <2>6, <3>3 DEF IInv, TypeOK
      <4>2. QED
        BY <1>3, <3>1, <4>1 DEF RunInv, Begun, Covered, Billed
    <3>4. QED
      BY <3>2, <3>3
  <2>9. QED
    BY <2>7, <2>8 DEF IInv
<1>6. QED
  BY <1>4, <1>5

------------------------------------------------------------------------------
(* Policies and the enforcement worker.                                       *)

\* A Stop that is fenced or acknowledged.
LEMMA StopStep ==
  ASSUME IInv,
         (\E p \in Policies : FenceScope(p)) \/ (\E r \in Runs : StopRun(r))
  PROVE  IInv'
<1>1. UNCHANGED <<reservation, account, disk, usage, ledger, generation, budgetHeld,
                  faults, limit, cut, edits>>
  BY DEF FenceScope, StopRun, workerVars, policyVars, Working
<1>2. CASE \E p \in Policies : FenceScope(p)
  <2>0. PICK p \in Policies : FenceScope(p)
    BY <1>2
  <2>1. UNCHANGED <<status, stage>>
    BY <2>0 DEF FenceScope
  <2>2. fence' \in [Runs -> Policies \cup {"none", "delivered"}]
        /\ \A q \in Runs : fence'[q] = "delivered" => fence[q] = "delivered"
    BY <2>0, NameAssumption DEF FenceScope, IInv, TypeOK
  <2>3. worker' = [worker EXCEPT ![p] = [@ EXCEPT !.phase = "stopping", !.runs = PendingOf(fence', ScopeOf[p])]]
        /\ PendingOf(fence', ScopeOf[p]) \subseteq Runs
    BY <2>0 DEF FenceScope, Working, PendingOf
  <2>4. TypeOK'
    <3>1. worker \in Workers
      BY DEF IInv, TypeOK, Workers
    <3>2. [worker[p] EXCEPT !.phase = "stopping", !.runs = PendingOf(fence', ScopeOf[p])]
            \in [phase : {"idle", "picked", "fencing", "stopping", "marking"},
                 version : Nat, runs : SUBSET Runs]
      BY <2>3, <3>1 DEF Workers
    <3>3. worker' \in Workers
      BY <2>3, <3>1, <3>2 DEF Workers
    <3>4. QED
      BY <1>1, <2>1, <2>2, <3>3 DEF IInv, TypeOK, Workers
  <2>5. \A q \in Runs : RunInv(q)'
    BY <1>1, <2>1, <2>2 DEF IInv, RunInv, Begun, Covered, Billed
  <2>6. QED
    BY <2>4, <2>5 DEF IInv
<1>3. CASE \E r \in Runs : StopRun(r)
  <2>0. PICK r \in Runs : StopRun(r)
    BY <1>3
  <2>1. fence' = [fence EXCEPT ![r] = "delivered"] /\ status' = [status EXCEPT ![r] = "terminal"]
        /\ stage' = (IF stage[r] = "working" THEN [stage EXCEPT ![r] = "ended"] ELSE stage)
        /\ UNCHANGED worker
    BY <2>0 DEF StopRun, workerVars
  <2>2. TypeOK'
    BY <1>1, <2>1 DEF IInv, TypeOK, Stages
  <2>3. \A q \in Runs : RunInv(q)'
    BY <1>1, <2>1 DEF IInv, TypeOK, RunInv, Begun, Covered, Billed
  <2>4. QED
    BY <2>2, <2>3 DEF IInv
<1>4. QED
  BY <1>2, <1>3

\* Everything else leaves the runs alone.
LEMMA PolicyStep ==
  ASSUME IInv,
         \/ \E p \in Policies : \/ UpsertPolicy(p) \/ Pick(p) \/ Authorise(p)
                               \/ PickCommitted(p) \/ MarkDelivered(p) \/ FailDelivery(p)
         \/ \E s \in Scopes : ReconcileScope(s)
         \/ Restart
  PROVE  IInv'
<1>1. UNCHANGED runVars
  BY DEF UpsertPolicy, ReconcileScope, Pick, Authorise, PickCommitted, MarkDelivered,
         FailDelivery, Restart
<1>2. \A r \in Runs : RunInv(r)'
  BY <1>1 DEF IInv, RunInv, Begun, Covered, Billed, runVars
<1>3. generation \in Generations
  BY DEF IInv, TypeOK, Generations
<1>4. ASSUME NEW p \in Policies, UpsertPolicy(p) PROVE TypeOK'
  <2>1. UNCHANGED <<worker, faults>> /\ cut' \subseteq Policies
        /\ edits' \in 0..MaxEdits /\ limit' \in [Policies -> 0..MaxLimit]
    BY <1>4, AmountAssumption DEF UpsertPolicy, IInv, TypeOK, workerVars
  <2>2. generation' \in Generations
    <3>1. PICK g \in Upserted(p) : generation' = IF Blocks(p)' THEN Requested(g, {p}) ELSE g
      BY <1>4 DEF UpsertPolicy
    <3>2. g \in Generations
      BY <1>3 DEF Upserted, Generations
    <3>3. Requested(g, {p}) \in Generations
      BY <3>2 DEF Requested, Generations
    <3>4. QED
      BY <3>1, <3>2, <3>3
  <2>3. budgetHeld' \in [Scopes -> BOOLEAN]
    <3>1. PICK held : /\ budgetHeld' = [budgetHeld EXCEPT ![ScopeOf[p]] = held]
                      /\ held \in BOOLEAN
      BY <1>4 DEF UpsertPolicy
    <3>2. QED
      BY <3>1 DEF IInv, TypeOK
  <2>4. QED
    BY <1>1, <2>1, <2>2, <2>3 DEF IInv, TypeOK, runVars, Generations
<1>5. ASSUME NEW s \in Scopes, ReconcileScope(s) PROVE TypeOK'
  <2>1. generation' \in Generations /\ budgetHeld' \in [Scopes -> BOOLEAN]
    BY <1>5, ReconcileType DEF ReconcileScope, IInv
  <2>2. UNCHANGED <<worker, faults, limit, cut, edits>>
    BY <1>5 DEF ReconcileScope, workerVars, policyVars
  <2>3. QED
    BY <1>1, <2>1, <2>2 DEF IInv, TypeOK, runVars, Generations
<1>6. ASSUME NEW p \in Policies, Pick(p) \/ Authorise(p) \/ PickCommitted(p) PROVE TypeOK'
  <2>1. UNCHANGED <<generation, budgetHeld, faults, limit, cut, edits>>
    BY <1>6 DEF Pick, Authorise, PickCommitted, Working, policyVars
  <2>2. worker' \in Workers
    <3>1. CASE Pick(p)
      BY <3>1 DEF Pick, Workers, IInv, TypeOK
    <3>2. CASE Authorise(p)
      <4>1. worker[p] \in [phase : {"picked"}, version : Nat, runs : SUBSET Runs]
        BY <3>2 DEF Authorise, IInv, TypeOK
      <4>2. PICK phase \in {"fencing", "marking"}, runs \in SUBSET Runs :
              worker' = [worker EXCEPT ![p] = [worker[p] EXCEPT !.phase = phase, !.runs = runs]]
        <5>1. CASE Current(p) /\ Blocks(p)
          BY <3>2, <5>1 DEF Authorise, Working
        <5>2. CASE ~(Current(p) /\ Blocks(p))
          BY <3>2, <5>2 DEF Authorise, Working
        <5>3. QED
          BY <5>1, <5>2
      <4>3. QED
        BY <4>1, <4>2 DEF Workers, IInv, TypeOK
    <3>3. CASE PickCommitted(p)
      BY <3>3 DEF PickCommitted, PendingOf, Workers, IInv, TypeOK
    <3>4. QED
      BY <1>6, <3>1, <3>2, <3>3
  <2>3. QED
    BY <1>1, <2>1, <2>2 DEF IInv, TypeOK, runVars, Workers
<1>7. ASSUME (\E p \in Policies : MarkDelivered(p) \/ FailDelivery(p)) \/ Restart PROVE TypeOK'
  <2>1. UNCHANGED <<budgetHeld, limit, cut, edits>> /\ faults' \in 0..MaxFaults
    BY <1>7, AmountAssumption DEF MarkDelivered, FailDelivery, Restart, policyVars, IInv, TypeOK
  <2>2. Idle \in [phase : {"idle"}, version : Nat, runs : SUBSET Runs]
    BY DEF Idle
  <2>3. worker' \in Workers
    <3>1. worker \in Workers
      BY DEF IInv, TypeOK, Workers
    <3>2. CASE \E p \in Policies : MarkDelivered(p)
      BY <2>2, <3>1, <3>2 DEF MarkDelivered, Workers
    <3>3. CASE \E p \in Policies : FailDelivery(p)
      BY <2>2, <3>1, <3>3 DEF FailDelivery, Workers
    <3>4. CASE Restart
      BY <2>2, <3>4 DEF Restart, Workers
    <3>5. QED
      BY <1>7, <3>2, <3>3, <3>4
  <2>4. generation' \in Generations
    <3>1. CASE \E p \in Policies : MarkDelivered(p)
      <4>1. PICK p \in Policies : MarkDelivered(p)
        BY <3>1
      <4>2. worker[p].version \in Nat
        BY DEF IInv, TypeOK
      <4>3. QED
        BY <1>3, <4>1, <4>2 DEF MarkDelivered, Generations
    <3>2. CASE ~\E p \in Policies : MarkDelivered(p)
      BY <1>3, <1>7, <3>2 DEF FailDelivery, Restart
    <3>3. QED
      BY <3>1, <3>2
  <2>5. QED
    BY <1>1, <2>1, <2>3, <2>4 DEF IInv, TypeOK, runVars, Generations, Workers
<1>8. QED
  BY <1>2, <1>4, <1>5, <1>6, <1>7 DEF IInv

------------------------------------------------------------------------------
(* The invariant and the properties of the runs.                              *)

\* The invariant holds at the start, and every step keeps it.
LEMMA InitInv == Init => IInv
<1> SUFFICES ASSUME Init PROVE IInv
  OBVIOUS
<1>2. TypeOK
  <2>1. disk \in [Runs -> Receipt] /\ usage \in [Runs -> Receipt]
    BY AmountAssumption DEF Init, Receipt
  <2>2. worker \in Workers
    BY DEF Init, Workers, Idle
  <2>3. generation \in Generations /\ reservation \in [Runs -> Reservations]
    BY DEF Init, Generations, Reservations
  <2>4. QED
    BY <2>1, <2>2, <2>3, AmountAssumption DEF Init, TypeOK, Stages, Workers, Generations, Reservations
<1>3. ASSUME NEW r \in Runs PROVE RunInv(r)
  <2>1. stage[r] = "idle" /\ account[r] = "none" /\ disk[r].complete = FALSE
    BY DEF Init
  <2>2. QED
    BY <2>1 DEF RunInv, Begun, Covered, Billed
<1>4. QED
  BY <1>2, <1>3 DEF IInv

LEMMA NextInv == IInv /\ [Next]_vars => IInv'
<1>1. SUFFICES ASSUME IInv, [Next]_vars PROVE IInv'
  OBVIOUS
<1>2. CASE UNCHANGED vars
  BY <1>1, <1>2 DEF IInv, TypeOK, RunInv, Begun, Covered, Billed, vars, runVars
<1>3. ASSUME NEW r \in Runs,
             \/ Enqueue(r) \/ Claim(r) \/ Reserve(r) \/ AdmitDispatch(r)
             \/ HandOff(r) \/ Undispatch(r) \/ Checkpoint(r) \/ EndWork(r)
             \/ FinalReceipt(r) \/ Finish(r) \/ PersistReceipt(r) \/ AccountRunCost(r)
      PROVE  IInv'
  BY <1>1, <1>3, AdmissionStep, ExecutorStep, AccountingStep
<1>4. CASE (\E p \in Policies : FenceScope(p)) \/ (\E r \in Runs : StopRun(r))
  BY <1>1, <1>4, StopStep
<1>5. CASE \/ \E p \in Policies : \/ UpsertPolicy(p) \/ Pick(p) \/ Authorise(p)
                                 \/ PickCommitted(p) \/ MarkDelivered(p) \/ FailDelivery(p)
           \/ \E s \in Scopes : ReconcileScope(s)
           \/ Restart
  BY <1>1, <1>5, PolicyStep
<1>6. QED
  BY <1>1, <1>2, <1>3, <1>4, <1>5 DEF Next, WorkerStep

\* The invariant above is one, for every run, policy and amount.
THEOREM Invariance == Spec => []IInv
BY InitInv, NextInv, PTL DEF Spec

\* The types of the declared variables, for any instance.
THEOREM TypeCorrect == Spec => []TypeOK
<1>1. IInv => TypeOK
  BY DEF IInv
<1>2. QED
  BY Invariance, <1>1, PTL

\* Work is reserved and owed, and what is charged is the final bill: for any
\* number of runs and policies and any interleaving of receipts and Stops.
THEOREM SpendAccounted == Spec => []SpendIsAccounted
<1>1. IInv => SpendIsAccounted
  BY DEF IInv, RunInv, Covered, Billed, SpendIsAccounted
<1>2. QED
  BY Invariance, <1>1, PTL

\* A Stop that has been acknowledged is not overtaken by the dispatch.
THEOREM StopFinal == Spec => []StopIsFinal
<1>1. IInv => StopIsFinal
  BY DEF IInv, RunInv, Covered, StopIsFinal
<1>2. QED
  BY Invariance, <1>1, PTL

------------------------------------------------------------------------------
(* Sums of cents.                                                             *)

\* The same costs of the runs of a scope are the same total.
LEMMA SameTotal ==
  ASSUME NEW s, NEW c, NEW d, \A r \in RunsOf(s) : c[r] = d[r]
  PROVE  Total(s, c) = Total(s, d)
<1>1. Cents(s, c) = Cents(s, d)
  BY DEF Cents
<1> QED
  BY <1>1 DEF Total

\* A total is a number, and the cents of one run count once.
LEMMA TotalFinite ==
  ASSUME NEW s, NEW c \in [Runs -> Nat]
  PROVE  IsFiniteSet(Cents(s, c)) /\ Total(s, c) \in Nat
<1> DEFINE block == [r \in RunsOf(s) |-> {r} \X (1..c[r])]
           blocks == {{r} \X (1..c[r]) : r \in RunsOf(s)}
<1>1. IsFiniteSet(RunsOf(s))
  BY ScopeAssumption, FS_Subset DEF RunsOf
<1>2. block \in Surjection(RunsOf(s), blocks)
  BY DEF Surjection
<1>3. IsFiniteSet(blocks)
  BY <1>1, <1>2, FS_Surjection
<1>4. \A r \in RunsOf(s) : IsFiniteSet({r} \X (1..c[r]))
  <2> TAKE r \in RunsOf(s)
  <2>1. c[r] \in Nat
    BY DEF RunsOf
  <2>2. IsFiniteSet(1..c[r])
    BY <2>1, FS_Interval
  <2> QED
    BY <2>2, FS_Singleton, FS_Product
<1>5. \A T \in blocks : IsFiniteSet(T)
  BY <1>4
<1>6. IsFiniteSet(UNION blocks)
  BY <1>3, <1>5, FS_UNION
<1>7. IsFiniteSet(Cents(s, c))
  BY <1>6 DEF Cents
<1> QED
  BY <1>7, FS_CardinalityType DEF Total

\* Lower costs are a lower total.
LEMMA LowerTotal ==
  ASSUME NEW s, NEW c \in [Runs -> Nat], NEW d \in [Runs -> Nat],
         \A r \in RunsOf(s) : c[r] <= d[r]
  PROVE  Total(s, c) <= Total(s, d)
<1>1. Cents(s, c) \subseteq Cents(s, d)
  <2>1. \A r \in RunsOf(s) : 1..c[r] \subseteq 1..d[r]
    BY DEF RunsOf
  <2> QED
    BY <2>1 DEF Cents
<1>2. IsFiniteSet(Cents(s, d))
  BY TotalFinite
<1>3. Cardinality(Cents(s, c)) <= Cardinality(Cents(s, d))
  BY <1>1, <1>2, FS_Subset
<1> QED
  BY <1>3 DEF Total

\* One run more costs its own cents more, at most.
LEMMA OneMoreTotal ==
  ASSUME NEW s, NEW c \in [Runs -> Nat], NEW d \in [Runs -> Nat], NEW q \in Runs,
         \A r \in Runs \ {q} : c[r] <= d[r], d[q] = 0
  PROVE  Total(s, c) <= Total(s, d) + c[q]
<1> DEFINE own == {q} \X (1..c[q])
<1>1. c[q] \in Nat /\ IsFiniteSet(1..c[q]) /\ Cardinality(1..c[q]) = c[q]
  BY FS_Interval
<1>2. IsFiniteSet({q}) /\ Cardinality({q}) = 1
  BY FS_Singleton
<1>3. IsFiniteSet(own) /\ Cardinality(own) = c[q]
  <2>1. IsFiniteSet(own) /\ Cardinality(own) = Cardinality({q}) * Cardinality(1..c[q])
    BY <1>1, <1>2, FS_Product
  <2>2. Cardinality(own) = 1 * c[q]
    BY <1>1, <1>2, <2>1
  <2>3. QED
    BY <1>1, <2>1, <2>2
<1>4. Cents(s, c) \subseteq Cents(s, d) \cup own
  <2>1. \A r \in RunsOf(s) \ {q} : 1..c[r] \subseteq 1..d[r]
    BY DEF RunsOf
  <2> QED
    BY <2>1 DEF Cents
<1>5. IsFiniteSet(Cents(s, d)) /\ Total(s, d) \in Nat /\ Total(s, c) \in Nat
  BY TotalFinite
<1> HIDE DEF own
<1>6. /\ IsFiniteSet(Cents(s, d) \cup own)
      /\ Cardinality(Cents(s, d) \cup own)
           = Cardinality(Cents(s, d)) + Cardinality(own) - Cardinality(Cents(s, d) \cap own)
  BY <1>3, <1>5, FS_Union
<1>7. Cardinality(Cents(s, d) \cap own) \in Nat
  BY <1>3, FS_Intersection, FS_CardinalityType
<1>8. Cardinality(Cents(s, c)) <= Cardinality(Cents(s, d) \cup own)
  BY <1>4, <1>6, FS_Subset
<1> QED
  BY <1>1, <1>3, <1>5, <1>6, <1>7, <1>8 DEF Total

\* Nothing costs nothing.
LEMMA NoTotal ==
  ASSUME NEW s, NEW c, \A r \in RunsOf(s) : c[r] = 0
  PROVE  Total(s, c) = 0
<1>1. Cents(s, c) = {}
  BY DEF Cents
<1> QED
  BY <1>1, FS_EmptySet DEF Total

------------------------------------------------------------------------------
(* What a run owes.                                                           *)

\* A reservation is held as long as its accounting is pending, and nothing is charged
\* before; a run that never reserved has cost nothing.
Tracked(r) ==
  /\ account[r] = "none" <=> reservation[r].state = "none"
  /\ account[r] = "pending" <=> reservation[r].state = "held"
  /\ account[r] = "none" => usage[r].cost = 0 /\ reservation[r].amount = 0
  /\ account[r] # "accounted" => ledger[r] = 0
  /\ ledger[r] <= usage[r].cost
  /\ status[r] \in {"none", "queued"} => account[r] = "none"

TInv == IInv /\ \A r \in Runs : Tracked(r)

\* Steps that neither reserve nor account: a run starts once and ends for good.
Calm ==
  /\ UNCHANGED <<account, reservation, usage, ledger>>
  /\ \A r \in Runs : /\ status'[r] \in {"none", "queued"} => status[r] \in {"none", "queued"}
                     /\ status[r] = "terminal" => status'[r] = "terminal"

LEMMA CalmRun ==
  ASSUME IInv, NEW r \in Runs,
         \/ Enqueue(r) \/ Claim(r) \/ AdmitDispatch(r) \/ HandOff(r) \/ Undispatch(r)
         \/ Checkpoint(r) \/ EndWork(r) \/ FinalReceipt(r) \/ Finish(r) \/ StopRun(r)
  PROVE  Calm
<1>1. UNCHANGED <<account, reservation, usage, ledger>>
  BY DEF Enqueue, Claim, AdmitDispatch, HandOff, Undispatch, Checkpoint, EndWork, FinalReceipt,
         Finish, StopRun, NoOtherChange
<1>2. \/ UNCHANGED status
      \/ status[r] = "none" /\ status' = [status EXCEPT ![r] = "queued"]
      \/ status[r] = "queued" /\ \E x \in {"running", "terminal"} : status' = [status EXCEPT ![r] = x]
      \/ status' = [status EXCEPT ![r] = "terminal"]
  BY DEF Enqueue, Claim, AdmitDispatch, HandOff, Undispatch, Checkpoint, EndWork, FinalReceipt,
         Finish, StopRun, NoOtherChange
<1> QED
  BY <1>1, <1>2 DEF Calm, IInv, TypeOK

LEMMA CalmOther ==
  ASSUME \/ \E p \in Policies : UpsertPolicy(p) \/ WorkerStep(p) \/ FailDelivery(p)
         \/ \E s \in Scopes : ReconcileScope(s)
         \/ Restart \/ UNCHANGED vars
  PROVE  Calm
<1>1. UNCHANGED <<account, reservation, usage, ledger, status>>
  BY DEF UpsertPolicy, WorkerStep, FailDelivery, ReconcileScope, Restart, Pick, Authorise,
         FenceScope, PickCommitted, MarkDelivered, runVars, vars
<1> QED
  BY <1>1 DEF Calm

LEMMA CalmTracked ==
  ASSUME TInv, Calm
  PROVE  \A r \in Runs : Tracked(r)'
BY DEF TInv, Calm, Tracked

\* The costs of a run, as numbers.
LEMMA Costs ==
  ASSUME IInv, NEW r \in Runs
  PROVE  /\ ledger[r] \in Nat /\ usage[r].cost \in Nat /\ disk[r].cost \in Nat
         /\ reservation[r].amount \in Nat
         /\ reservation[r].state \in {"none", "held", "settled", "released"}
         /\ account[r] \in {"none", "pending", "accounted"}
<1>1. usage[r] \in Receipt /\ disk[r] \in Receipt /\ ledger[r] \in 0..MaxCost
      /\ reservation[r] \in [state : {"none", "held", "settled", "released"}, amount : Nat]
      /\ account[r] \in {"none", "pending", "accounted"} /\ MaxCost \in Nat
  BY AmountAssumption DEF IInv, TypeOK
<1> QED
  BY <1>1 DEF Receipt

\* A reservation is made for a run that had none, and changes no other row.
Reserved(r, amount) ==
  /\ amount \in Nat /\ amount \in Amount(r) /\ HasCapacity(r, amount)
  /\ reservation' = [reservation EXCEPT ![r] = [state |-> "held", amount |-> amount]]
  /\ account' = [account EXCEPT ![r] = "pending"]
  /\ UNCHANGED <<usage, ledger, status>>

LEMMA ReserveEffect ==
  ASSUME NEW r \in Runs, Reserve(r)
  PROVE  /\ reservation[r].state = "none" /\ status[r] = "running"
         /\ UNCHANGED <<account, reservation, usage, ledger, status>>
            \/ \E amount \in Nat : Reserved(r, amount)
<1>1. reservation[r].state = "none" /\ status[r] = "running" /\ UNCHANGED <<usage, ledger, status>>
  BY DEF Reserve, MayStart
<1>2. \A amount \in Amount(r) : amount \in Nat
  BY AmountAssumption DEF Amount, ActiveOn
<1> QED
  BY <1>1, <1>2 DEF Reserve, Reserved

LEMMA ReservedTracked ==
  ASSUME TInv, NEW r \in Runs, reservation[r].state = "none", status[r] = "running",
         NEW amount, Reserved(r, amount)
  PROVE  \A q \in Runs : Tracked(q)'
<1>1. account[r] = "none" /\ ledger[r] = 0 /\ ledger[r] <= usage[r].cost
  BY DEF TInv, Tracked
<1>2. /\ reservation'[r] = [state |-> "held", amount |-> amount] /\ account'[r] = "pending"
      /\ \A q \in Runs \ {r} : reservation'[q] = reservation[q] /\ account'[q] = account[q]
      /\ UNCHANGED <<usage, ledger, status>>
  BY DEF Reserved, TInv, IInv, TypeOK
<1> QED
  BY <1>1, <1>2 DEF TInv, Tracked

LEMMA PersistedTracked ==
  ASSUME TInv, NEW r \in Runs, PersistReceipt(r)
  PROVE  \A q \in Runs : Tracked(q)'
<1>1. /\ account[r] = "pending" /\ ledger[r] = 0 /\ disk[r].cost \in Nat
      /\ UNCHANGED <<account, reservation, ledger, status>> /\ usage'[r] = disk[r]
      /\ \A q \in Runs \ {r} : usage'[q] = usage[q]
  BY Costs DEF PersistReceipt, TInv, Tracked, IInv, TypeOK
<1> QED
  BY <1>1 DEF TInv, Tracked

\* The rows of a run that is accounted.
LEMMA AccountEffect ==
  ASSUME TInv, NEW r \in Runs, AccountRunCost(r)
  PROVE  /\ account[r] = "pending" /\ account'[r] = "accounted" /\ usage'[r] = disk[r]
         /\ reservation'[r].state \in {"settled", "released"}
         /\ reservation'[r].amount = reservation[r].amount
         /\ ledger'[r] \in Nat /\ ledger'[r] <= disk[r].cost
         /\ \A q \in Runs \ {r} : /\ account'[q] = account[q] /\ usage'[q] = usage[q]
                                  /\ reservation'[q] = reservation[q] /\ ledger'[q] = ledger[q]
         /\ UNCHANGED <<status, limit, cut>>
<1>1. ledger[r] = 0 /\ disk[r].cost \in Nat
  BY Costs DEF AccountRunCost, TInv, Tracked
<1>2. /\ account[r] = "pending" /\ account' = [account EXCEPT ![r] = "accounted"]
      /\ usage' = [usage EXCEPT ![r] = disk[r]] /\ UNCHANGED <<status, limit, cut>>
      /\ ledger' \in {ledger, [ledger EXCEPT ![r] = disk[r].cost]}
  BY DEF AccountRunCost, policyVars
<1>3. PICK x \in {"settled", "released"} : reservation' = [reservation EXCEPT ![r].state = x]
  BY DEF AccountRunCost
<1>4. /\ reservation'[r].state \in {"settled", "released"}
      /\ reservation'[r].amount = reservation[r].amount
      /\ \A q \in Runs \ {r} : reservation'[q] = reservation[q]
  BY <1>3 DEF TInv, IInv, TypeOK
<1>5. /\ account'[r] = "accounted" /\ usage'[r] = disk[r]
      /\ \A q \in Runs \ {r} : account'[q] = account[q] /\ usage'[q] = usage[q]
  BY <1>2 DEF TInv, IInv, TypeOK
<1>6. /\ ledger'[r] \in Nat /\ ledger'[r] <= disk[r].cost
      /\ \A q \in Runs \ {r} : ledger'[q] = ledger[q]
  BY <1>1, <1>2 DEF TInv, IInv, TypeOK
<1> QED
  BY <1>2, <1>4, <1>5, <1>6

LEMMA AccountTracked ==
  ASSUME TInv, NEW r \in Runs, AccountRunCost(r)
  PROVE  \A q \in Runs : Tracked(q)'
<1>1. \A q \in Runs \ {r} : Tracked(q)'
  BY AccountEffect DEF TInv, Tracked
<1>2. Tracked(r)'
  BY AccountEffect DEF TInv, Tracked
<1> QED
  BY <1>1, <1>2

------------------------------------------------------------------------------
(* Holds follow what is spent.                                                *)

\* A policy of the scope blocks it.
Due(s) == \E p \in PoliciesOf(s) : limit[p] > 0 /\ Blocks(p)

HoldRight(s) ==
  /\ (\E p \in PoliciesOf(s) : Overspent(p)) => budgetHeld[s]
  /\ budgetHeld[s] => Due(s)

LEMMA DueBlocking ==
  ASSUME NEW s
  PROVE  Blocking({s}) # {} <=> Due(s)
BY DEF Blocking, ActiveOn, Due, PoliciesOf

LEMMA DueBlockingNext ==
  ASSUME NEW s
  PROVE  (Blocking({s}) # {})' <=> Due(s)'
BY DEF Blocking, ActiveOn, Due, PoliciesOf

LEMMA HoldsAreRight == HoldTracksSpend <=> \A s \in Scopes : HoldRight(s)
BY DueBlocking, Zenon DEF HoldTracksSpend, HoldRight

\* What a scope has spent is the same where its runs have spent the same.
LEMMA ObservedSame ==
  ASSUME NEW s, \A r \in RunsOf(s) : ledger'[r] = ledger[r] /\ Live(r)' = Live(r)
  PROVE  Observed(s)' = Observed(s)
<1> DEFINE c == [r \in Runs |-> ledger[r] + Live(r)]
           d == [r \in Runs |-> ledger'[r] + Live(r)']
<1>1. \A r \in RunsOf(s) : c[r] = d[r]
  BY DEF RunsOf
<1>2. Observed(s) = Total(s, c) /\ Observed(s)' = Total(s, d)
  BY DEF Observed
<1> HIDE DEF c, d
<1> QED
  BY <1>1, <1>2, SameTotal

\* A step that changes neither the spending of a scope nor its policies, and settles no debt.
Unmoved(s) ==
  /\ \A r \in RunsOf(s) : /\ ledger'[r] = ledger[r] /\ Live(r)' = Live(r)
                          /\ account[r] = "pending" /\ status[r] = "terminal"
                               => account'[r] = "pending" /\ status'[r] = "terminal"
  /\ \A p \in PoliciesOf(s) : limit'[p] = limit[p]

LEMMA UnmovedPolicies ==
  ASSUME NEW s, Unmoved(s)
  PROVE  \A p \in PoliciesOf(s) : /\ Overspent(p)' <=> Overspent(p)
                                  /\ Blocks(p) => Blocks(p)'
<1> TAKE p \in PoliciesOf(s)
<1>1. ScopeOf[p] = s /\ limit'[p] = limit[p]
  BY DEF Unmoved, PoliciesOf
<1>2. Observed(s)' = Observed(s)
  BY ObservedSame DEF Unmoved
<1>3. Overspent(p)' <=> Overspent(p)
  BY <1>1, <1>2 DEF Overspent
<1>4. Owing(s) => Owing(s)'
  BY DEF Unmoved, Owing
<1>5. Blocks(p) => Blocks(p)'
  BY <1>1, <1>3, <1>4 DEF Blocks
<1> QED
  BY <1>3, <1>5

\* A hold that is kept, or set to what the scope owes, is right afterwards.
LEMMA HoldUnmoved ==
  ASSUME NEW s, HoldRight(s), Unmoved(s),
         \/ budgetHeld'[s] = budgetHeld[s]
         \/ budgetHeld'[s] <=> Due(s)
  PROVE  HoldRight(s)'
<1>1. Due(s) => Due(s)'
  BY UnmovedPolicies DEF Due, Unmoved
<1>2. (\E p \in PoliciesOf(s) : Overspent(p))' <=> \E p \in PoliciesOf(s) : Overspent(p)
  BY UnmovedPolicies
<1>3. (\E p \in PoliciesOf(s) : Overspent(p)) => Due(s)
  BY DEF Overspent, Blocks, Due
<1> QED
  BY <1>1, <1>2, <1>3, Zenon DEF HoldRight

\* A hold that is set to what the scope owes after the step.
LEMMA HoldEvaluated ==
  ASSUME NEW s, budgetHeld'[s] <=> Due(s)'
  PROVE  HoldRight(s)'
<1>1. (\E p \in PoliciesOf(s) : Overspent(p))' => Due(s)'
  BY DEF Overspent, Blocks, Due
<1> QED
  BY <1>1, Zenon DEF HoldRight

\* The reconciliation sets the holds of scopes that block and lifts those of scopes that
\* do not.
LEMMA ReconcileHolds ==
  ASSUME NEW blocked, NEW healthy, Reconcile(blocked, healthy), NEW s \in Scopes, HoldRight(s),
         s \in blocked => Due(s), s \in healthy => ~Due(s)
  PROVE  \/ budgetHeld'[s] = budgetHeld[s]
         \/ budgetHeld'[s] <=> Due(s)
<1>1. budgetHeld'[s] = IF s \in blocked THEN TRUE
                       ELSE IF s \in healthy /\ PoliciesOf(s) # {} THEN FALSE
                       ELSE budgetHeld[s]
  BY DEF Reconcile
<1> QED
  BY <1>1, Zenon

\* The first scope that blocks a run is the least one.
LEMMA FirstBlocked ==
  ASSUME NEW r \in Runs, BlockedOf(r) # {}
  PROVE  /\ Min(BlockedOf(r)) \in BlockedOf(r)
         /\ \A s \in BlockedOf(r) : Min(BlockedOf(r)) <= s
<1>1. BlockedOf(r) \subseteq Nat
  BY ScopeAssumption DEF BlockedOf
<1> DEFINE R == {p \in Nat \X Nat : p[1] < p[2]}
<1>2. IsWellFoundedOn(R, Nat)
  BY NatLessThanWellFounded DEF OpToRel
<1>3. \A y, z \in Nat : y < z => <<y, z>> \in R
  OBVIOUS
<1> HIDE DEF R
<1>4. PICK x \in BlockedOf(r) : \A y \in BlockedOf(r) : <<y, x>> \notin R
  BY <1>1, <1>2, WFMin
<1>5. \A y \in BlockedOf(r) : x <= y
  <2> TAKE y \in BlockedOf(r)
  <2>1. x \in Nat /\ y \in Nat /\ <<y, x>> \notin R
    BY <1>1, <1>4
  <2>2. ~(y < x)
    BY <2>1, <1>3
  <2> QED
    BY <2>1, <2>2
<1> QED
  BY <1>4, <1>5 DEF Min

LEMMA AdmissionHolds ==
  ASSUME NEW r \in Runs, EvaluateAdmission(r), NEW s \in Scopes, HoldRight(s)
  PROVE  \/ budgetHeld'[s] = budgetHeld[s]
         \/ budgetHeld'[s] <=> Due(s)
<1>1. \A x \in ScopesOf[r] : x \in BlockedOf(r) <=> Due(x)
  BY DueBlocking DEF BlockedOf
<1>2. CASE BlockedOf(r) = {}
  <2>1. Reconcile({}, ScopesOf[r])
    BY <1>2 DEF EvaluateAdmission
  <2> QED
    BY <1>1, <1>2, <2>1, ReconcileHolds
<1>3. CASE BlockedOf(r) # {}
  <2> DEFINE first == Min(BlockedOf(r))
             before == {x \in ScopesOf[r] : x < first}
  <2>1. Reconcile({first}, before)
    BY <1>3 DEF EvaluateAdmission
  <2>2. first \in BlockedOf(r) /\ first \in ScopesOf[r] /\ ScopesOf[r] \subseteq Nat
        /\ \A x \in BlockedOf(r) : first <= x
    BY <1>3, FirstBlocked, ScopeAssumption DEF BlockedOf
  <2> HIDE DEF first
  <2>3. \A x \in before : x \in ScopesOf[r] /\ x \notin BlockedOf(r)
    BY <2>2
  <2>4. \A x \in before : ~Due(x)
    BY <1>1, <2>3
  <2>5. \A x \in {first} : Due(x)
    BY <1>1, <2>2
  <2> HIDE DEF before
  <2> QED
    BY <2>1, <2>4, <2>5, ReconcileHolds
<1> QED
  BY <1>2, <1>3

------------------------------------------------------------------------------
(* The steps and the holds.                                                   *)

\* A calm step that edits no policy moves nothing that a hold depends on.
LEMMA CalmUnmoved ==
  ASSUME Calm, UNCHANGED limit, NEW s
  PROVE  Unmoved(s)
<1>1. \A r \in RunsOf(s) : r \in Runs
  BY DEF RunsOf
<1>2. \A r \in RunsOf(s) : Live(r)' = Live(r)
  BY DEF Calm, Live
<1> QED
  BY <1>1, <1>2 DEF Calm, Unmoved

\* The actions that change holds by a reconciliation, or not at all.
LEMMA CalmHolds ==
  ASSUME NEW s \in Scopes, HoldRight(s), Calm, UNCHANGED limit,
         \/ UNCHANGED budgetHeld
         \/ \E r \in Runs : EvaluateAdmission(r)
         \/ \E x \in Scopes : ReconcileScope(x)
  PROVE  HoldRight(s)'
<1>1. Unmoved(s)
  BY CalmUnmoved
<1>2. ASSUME NEW x \in Scopes, ReconcileScope(x)
      PROVE  budgetHeld'[s] = budgetHeld[s] \/ (budgetHeld'[s] <=> Due(s))
  <2>1. CASE Blocking({x}) = {}
    <3>1. Reconcile({}, {x}) /\ ~Due(x)
      BY <1>2, <2>1, DueBlocking DEF ReconcileScope
    <3> QED
      BY <3>1, ReconcileHolds
  <2>2. CASE Blocking({x}) # {}
    <3>1. Reconcile({x}, {}) /\ Due(x)
      BY <1>2, <2>2, DueBlocking DEF ReconcileScope
    <3> QED
      BY <3>1, ReconcileHolds
  <2> QED
    BY <2>1, <2>2
<1>3. budgetHeld'[s] = budgetHeld[s] \/ (budgetHeld'[s] <=> Due(s))
  <2>1. CASE UNCHANGED budgetHeld
    BY <2>1
  <2>2. CASE \E r \in Runs : EvaluateAdmission(r)
    BY <2>2, AdmissionHolds
  <2>3. CASE \E x \in Scopes : ReconcileScope(x)
    BY <2>3, <1>2
  <2> QED
    BY <2>1, <2>2, <2>3
<1> QED
  BY <1>1, <1>3, HoldUnmoved

\* A reservation promises; it spends nothing yet.
LEMMA ReserveHolds ==
  ASSUME TInv, NEW r \in Runs, Reserve(r), NEW s \in Scopes, HoldRight(s)
  PROVE  HoldRight(s)'
<1>1. EvaluateAdmission(r) /\ UNCHANGED limit
  BY DEF Reserve, policyVars
<1>2. CASE UNCHANGED <<account, reservation, usage, ledger, status>>
  <2>1. Calm
    BY <1>2 DEF Calm
  <2> QED
    BY <1>1, <2>1, CalmHolds
<1>3. ASSUME NEW amount \in Nat, Reserved(r, amount)
      PROVE  HoldRight(s)'
  <2>1. account[r] = "none" /\ usage[r].cost = 0 /\ status[r] = "running"
    BY ReserveEffect DEF TInv, Tracked
  <2>2. /\ UNCHANGED <<usage, ledger, status>> /\ account'[r] = "pending"
        /\ \A q \in Runs \ {r} : account'[q] = account[q]
    BY <1>3 DEF Reserved, TInv, IInv, TypeOK
  <2>3. \A q \in Runs : Live(q)' = Live(q)
    BY <2>1, <2>2 DEF Live
  <2>4. Unmoved(s)
    BY <1>1, <2>1, <2>2, <2>3 DEF Unmoved, RunsOf
  <2> QED
    BY <1>1, <2>4, AdmissionHolds, HoldUnmoved
<1> QED
  BY <1>2, <1>3, ReserveEffect

\* An evaluation of the scopes of a run, after rows of that run have changed.
LEMMA AffectedHolds ==
  ASSUME IInv, NEW r \in Runs, NEW g, EvaluateAffected(ScopesOf[r], g), UNCHANGED limit,
         NEW s \in Scopes, HoldRight(s), s \notin ScopesOf[r] => Unmoved(s)
  PROVE  HoldRight(s)'
<1>1. budgetHeld'[s] = IF s \in ScopesOf[r] /\ ActiveOn({s}) # {}
                       THEN (Blocking({s}) # {})' ELSE budgetHeld[s]
  BY DEF EvaluateAffected
<1>2. CASE s \notin ScopesOf[r]
  BY <1>1, <1>2, HoldUnmoved
<1>3. CASE s \in ScopesOf[r] /\ ActiveOn({s}) # {}
  <2>1. budgetHeld'[s] <=> Due(s)'
    BY <1>1, <1>3, DueBlockingNext
  <2> QED
    BY <2>1, HoldEvaluated
<1>4. CASE s \in ScopesOf[r] /\ ActiveOn({s}) = {}
  <2>1. \A p \in PoliciesOf(s) : ~(limit[p] > 0)
    BY <1>4 DEF ActiveOn, PoliciesOf
  <2>2. ~Due(s) /\ ~Due(s)' /\ ~(\E p \in PoliciesOf(s) : Overspent(p))'
    BY <2>1 DEF Due, Overspent
  <2>3. budgetHeld'[s] = budgetHeld[s]
    BY <1>1, <1>4
  <2> QED
    BY <2>2, <2>3, Zenon DEF HoldRight
<1> QED
  BY <1>2, <1>3, <1>4

\* A receipt is persisted, or a run is accounted.
LEMMA AccountingHolds ==
  ASSUME TInv, NEW r \in Runs, PersistReceipt(r) \/ AccountRunCost(r),
         NEW s \in Scopes, HoldRight(s)
  PROVE  HoldRight(s)'
<1>1. /\ UNCHANGED <<status, limit>>
      /\ \A q \in Runs \ {r} : /\ usage'[q] = usage[q] /\ account'[q] = account[q]
                               /\ ledger'[q] = ledger[q]
  <2>1. CASE PersistReceipt(r)
    BY <2>1 DEF PersistReceipt, policyVars, TInv, IInv, TypeOK
  <2>2. CASE AccountRunCost(r)
    BY <2>2, AccountEffect
  <2> QED
    BY <2>1, <2>2
<1>2. \A q \in Runs \ {r} : Live(q)' = Live(q)
  BY <1>1 DEF Live
<1>3. s \notin ScopesOf[r] => Unmoved(s)
  BY <1>1, <1>2 DEF Unmoved, RunsOf
<1>4. CASE \E g : EvaluateAffected(ScopesOf[r], g)
  BY <1>1, <1>3, <1>4, AffectedHolds DEF TInv
<1>5. CASE PersistReceipt(r) /\ UNCHANGED <<generation, budgetHeld>> /\ disk[r].cost = usage[r].cost
  <2>1. UNCHANGED <<account, ledger>> /\ usage'[r] = disk[r]
    BY <1>5 DEF PersistReceipt, TInv, IInv, TypeOK
  <2>2. Live(r)' = Live(r)
    BY <1>5, <2>1 DEF Live
  <2>3. Unmoved(s)
    BY <1>1, <1>2, <2>1, <2>2 DEF Unmoved, RunsOf
  <2> QED
    BY <1>5, <2>3, HoldUnmoved
<1> QED
  BY <1>4, <1>5 DEF PersistReceipt, AccountRunCost

\* An edit of a policy sets the hold of its scope.
LEMMA UpsertHolds ==
  ASSUME IInv, NEW p \in Policies, UpsertPolicy(p), NEW s \in Scopes, HoldRight(s)
  PROVE  HoldRight(s)'
<1>1. /\ Calm /\ budgetHeld' = [budgetHeld EXCEPT ![ScopeOf[p]] =
                                  (Blocking({ScopeOf[p]}) # {})' /\ (@ \/ Blocks(p)')]
      /\ ScopeOf[p] \in Scopes
      /\ \A q \in Policies \ {p} : limit'[q] = limit[q]
  BY CalmOther, ScopeAssumption DEF UpsertPolicy, IInv, TypeOK
<1>2. \A r \in Runs : Live(r)' = Live(r)
  BY <1>1 DEF Calm, Live
<1>3. CASE ScopeOf[p] # s
  <2>1. budgetHeld'[s] = budgetHeld[s]
    BY <1>1, <1>3 DEF IInv, TypeOK
  <2>2. Unmoved(s)
    BY <1>1, <1>2, <1>3 DEF Unmoved, RunsOf, PoliciesOf, Calm
  <2> QED
    BY <2>1, <2>2, HoldUnmoved
<1>4. CASE ScopeOf[p] = s
  <2>1. budgetHeld'[s] <=> Due(s)' /\ (budgetHeld[s] \/ Blocks(p)')
    <3>1. budgetHeld'[s] = ((Blocking({s}) # {})' /\ (budgetHeld[s] \/ Blocks(p)'))
      BY <1>1, <1>4 DEF IInv, TypeOK
    <3> QED
      BY <3>1, DueBlockingNext
  <2>2. Observed(s)' = Observed(s)
    BY <1>1, <1>2, ObservedSame DEF Calm, RunsOf
  <2>3. \A q \in PoliciesOf(s) \ {p} : Overspent(q)' => Overspent(q)
    BY <1>1, <2>2 DEF Overspent, PoliciesOf
  <2>4. (\E q \in PoliciesOf(s) : Overspent(q))' => budgetHeld[s] \/ Blocks(p)'
    BY <2>3, Zenon DEF HoldRight, Blocks
  <2>5. (\E q \in PoliciesOf(s) : Overspent(q))' => Due(s)'
    BY DEF Overspent, Blocks, Due
  <2> QED
    BY <2>1, <2>4, <2>5, Zenon DEF HoldRight
<1> QED
  BY <1>3, <1>4

------------------------------------------------------------------------------
(* Promises stay within the amounts.                                          *)

\* What a run costs or has been promised, and what of it its reservation covers.
Spent(r)  == ledger[r] + Held(r)
Capped(r) == IF Spent(r) > reservation[r].amount THEN reservation[r].amount ELSE Spent(r)
Caps      == [r \in Runs |-> Capped(r)]

\* The covered costs of a scope stay within every amount that was not cut below them.
WithinLimit == \A p \in Policies :
  limit[p] > 0 /\ p \notin cut => Total(ScopeOf[p], Caps) <= limit[p]

LEMMA CapNumbers ==
  ASSUME IInv, NEW r \in Runs
  PROVE  /\ Live(r) \in Nat /\ Held(r) \in Nat /\ Spent(r) \in Nat /\ Capped(r) \in Nat
         /\ Capped(r) <= Spent(r) /\ Capped(r) <= reservation[r].amount
<1>1. Live(r) \in Nat
  BY Costs DEF Live
<1>2. Held(r) \in Nat
  BY <1>1, Costs DEF Held
<1>3. Spent(r) \in Nat
  BY <1>2, Costs DEF Spent
<1> QED
  BY <1>1, <1>2, <1>3, Costs DEF Capped

CapsAreNumbers ==
  /\ Caps \in [Runs -> Nat]
  /\ \A r \in Runs : Caps[r] = Capped(r) /\ Capped(r) <= reservation[r].amount

LEMMA CapsType == IInv => CapsAreNumbers
BY CapNumbers DEF Caps, CapsAreNumbers

LEMMA CapsTypeNext == IInv' => CapsAreNumbers'
BY CapsType, PTL

LEMMA CommittedTotal ==
  ASSUME IInv, NEW s
  PROVE  LET spent == [r \in Runs |-> Spent(r)]
         IN  spent \in [Runs -> Nat] /\ Committed(s) = Total(s, spent)
BY CapNumbers DEF Committed, Spent

\* What is covered is part of what is committed.
LEMMA CapsCommitted ==
  ASSUME IInv, NEW s
  PROVE  Total(s, Caps) <= Committed(s)
<1> DEFINE spent == [r \in Runs |-> Spent(r)]
<1>1. spent \in [Runs -> Nat] /\ Committed(s) = Total(s, spent)
  BY CommittedTotal
<1>2. \A r \in RunsOf(s) : Caps[r] <= spent[r]
  BY CapNumbers, CapsType DEF RunsOf, CapsAreNumbers
<1> HIDE DEF spent
<1> QED
  BY <1>1, <1>2, CapsType, LowerTotal DEF CapsAreNumbers

\* A held reservation covers its own amount; a run without one covers nothing.
LEMMA CappedBy ==
  ASSUME TInv, NEW r \in Runs
  PROVE  /\ account[r] = "pending" => Capped(r) = reservation[r].amount
         /\ account[r] = "none" => Capped(r) = 0
<1>1. Tracked(r)
  BY DEF TInv
<1>2. /\ Live(r) \in Nat /\ Held(r) \in Nat /\ ledger[r] \in Nat /\ reservation[r].amount \in Nat
      /\ Capped(r) <= reservation[r].amount /\ Capped(r) \in Nat
  BY CapNumbers, Costs DEF TInv
<1>3. account[r] = "pending" => Held(r) >= reservation[r].amount /\ ledger[r] = 0
  BY <1>1, <1>2 DEF Tracked, Held
<1> QED
  BY <1>1, <1>2, <1>3 DEF Tracked, Capped, Spent

\* Steps that cover no more than before.
LEMMA LowerCaps ==
  ASSUME IInv, IInv', \A r \in Runs : Capped(r)' <= Capped(r), NEW s
  PROVE  Total(s, Caps') <= Total(s, Caps)
<1>1. Caps' \in [Runs -> Nat] /\ \A r \in Runs : Caps'[r] = Capped(r)'
  BY CapsTypeNext DEF CapsAreNumbers
<1> QED
  BY <1>1, CapsType, LowerTotal DEF RunsOf, CapsAreNumbers

\* Amounts stand, and nothing more is covered.
LEMMA WithinLower ==
  ASSUME IInv, IInv', WithinLimit, UNCHANGED <<limit, cut>>, \A r \in Runs : Capped(r)' <= Capped(r)
  PROVE  WithinLimit'
<1> SUFFICES ASSUME NEW p \in Policies, limit[p] > 0, p \notin cut
             PROVE  Total(ScopeOf[p], Caps') <= limit[p]
  BY DEF WithinLimit
<1>1. Total(ScopeOf[p], Caps) <= limit[p] /\ limit[p] \in Nat
  BY DEF WithinLimit, IInv, TypeOK
<1>2. /\ Total(ScopeOf[p], Caps) \in Nat /\ Total(ScopeOf[p], Caps') \in Nat
  BY CapsType, CapsTypeNext, TotalFinite DEF CapsAreNumbers
<1>3. Total(ScopeOf[p], Caps') <= Total(ScopeOf[p], Caps)
  BY LowerCaps
<1> QED
  BY <1>1, <1>2, <1>3

LEMMA SameCaps ==
  ASSUME IInv, UNCHANGED <<account, reservation, usage, ledger>>
  PROVE  \A r \in Runs : Capped(r)' = Capped(r) /\ Capped(r)' <= Capped(r)
<1>1. \A r \in Runs : Capped(r)' = Capped(r)
  BY DEF Capped, Spent, Held, Live
<1> QED
  BY <1>1, CapNumbers

\* Receipts and settlements never cover more than the reservation did.
LEMMA AccountingWithin ==
  ASSUME TInv, IInv', \A q \in Runs : Tracked(q)', WithinLimit, NEW r \in Runs,
         PersistReceipt(r) \/ AccountRunCost(r)
  PROVE  WithinLimit'
<1>1. IInv /\ Tracked(r)
  BY DEF TInv
<1>2. /\ UNCHANGED <<limit, cut>> /\ account[r] = "pending"
      /\ reservation'[r].amount = reservation[r].amount
      /\ \A q \in Runs \ {r} : /\ account'[q] = account[q] /\ usage'[q] = usage[q]
                               /\ reservation'[q] = reservation[q] /\ ledger'[q] = ledger[q]
  <2>1. CASE PersistReceipt(r)
    BY <2>1 DEF PersistReceipt, policyVars, TInv, IInv, TypeOK
  <2>2. CASE AccountRunCost(r)
    BY <2>2, AccountEffect
  <2> QED
    BY <2>1, <2>2
<1>3. \A q \in Runs \ {r} : Capped(q)' = Capped(q)
  BY <1>2 DEF Capped, Spent, Held, Live
<1>4. Capped(r)' <= Capped(r)
  <2>1. Capped(r) = reservation[r].amount
    BY <1>2, CappedBy
  <2>2. Capped(r)' <= reservation'[r].amount
    BY CapsTypeNext DEF CapsAreNumbers
  <2> QED
    BY <1>2, <2>1, <2>2
<1>5. \A q \in Runs : Capped(q)' <= Capped(q)
  BY <1>1, <1>3, <1>4, CapNumbers
<1> QED
  BY <1>1, <1>2, <1>5, WithinLower

\* A reservation is made where it fits in beside all that is committed.
LEMMA ReserveWithin ==
  ASSUME TInv, IInv', WithinLimit, NEW r \in Runs, Reserve(r)
  PROVE  WithinLimit'
<1>1. IInv /\ UNCHANGED <<limit, cut>>
  BY DEF TInv, Reserve, policyVars
<1>2. CASE UNCHANGED <<account, reservation, usage, ledger, status>>
  BY <1>1, <1>2, SameCaps, WithinLower
<1>3. ASSUME NEW amount \in Nat, Reserved(r, amount)
      PROVE  WithinLimit'
  <2>1. account[r] = "none"
    BY ReserveEffect DEF TInv, Tracked
  <2>2. /\ reservation'[r].amount = amount
        /\ \A q \in Runs \ {r} : /\ account'[q] = account[q] /\ usage'[q] = usage[q]
                                 /\ reservation'[q] = reservation[q] /\ ledger'[q] = ledger[q]
    BY <1>3 DEF Reserved, TInv, IInv, TypeOK
  <2>3. \A q \in Runs \ {r} : Capped(q)' = Capped(q)
    BY <2>2 DEF Capped, Spent, Held, Live
  <2>4. Capped(r) = 0
    BY <2>1, CappedBy
  <2>5. /\ Caps \in [Runs -> Nat] /\ Caps' \in [Runs -> Nat]
        /\ \A q \in Runs : Caps[q] = Capped(q) /\ Caps'[q] = Capped(q)'
    BY <1>1, CapsType, CapsTypeNext DEF CapsAreNumbers
  <2>6. Capped(r)' <= amount
    <3>1. Capped(r)' <= reservation'[r].amount
      BY CapsTypeNext DEF CapsAreNumbers
    <3> QED
      BY <2>2, <3>1
  <2>7. ASSUME NEW p \in Policies, limit[p] > 0, p \notin cut
        PROVE  Total(ScopeOf[p], Caps') <= limit[p]
    <3> DEFINE s == ScopeOf[p]
    <3>1. /\ Total(s, Caps) \in Nat /\ Total(s, Caps') \in Nat /\ limit[p] \in Nat
          /\ Total(s, Caps) <= limit[p]
      BY <1>1, <2>5, <2>7, TotalFinite DEF WithinLimit, IInv, TypeOK
    <3>2. CASE s \notin ScopesOf[r]
      <4>1. \A q \in RunsOf(s) : Caps'[q] = Caps[q]
        BY <2>3, <2>5, <3>2 DEF RunsOf
      <4>2. Total(s, Caps') = Total(s, Caps)
        BY <4>1, SameTotal
      <4> QED
        BY <3>1, <4>2
    <3>3. CASE s \in ScopesOf[r]
      <4>1. Committed(s) + amount =< limit[p]
        BY <1>3, <2>7, <3>3 DEF Reserved, HasCapacity, ActiveOn
      <4>2. Total(s, Caps) <= Committed(s)
        BY <1>1, CapsCommitted
      <4>3. Committed(s) \in Nat
        BY <1>1, CommittedTotal, TotalFinite
      <4>4. \A q \in Runs \ {r} : Caps'[q] <= Caps[q]
        BY <2>3, <2>5
      <4>5. Total(s, Caps') <= Total(s, Caps) + Caps'[r]
        BY <2>4, <2>5, <4>4, OneMoreTotal
      <4>6. Caps'[r] \in Nat /\ Caps'[r] <= amount
        BY <2>5, <2>6
      <4> QED
        BY <3>1, <4>1, <4>2, <4>3, <4>5, <4>6
    <3> QED
      BY <3>2, <3>3
  <2> QED
    BY <1>1, <2>7 DEF WithinLimit
<1> QED
  BY <1>2, <1>3, ReserveEffect

\* An edit below what is committed cuts the policy.
LEMMA UpsertWithin ==
  ASSUME IInv, IInv', WithinLimit, NEW p \in Policies, UpsertPolicy(p)
  PROVE  WithinLimit'
<1>1. Calm
  BY CalmOther
<1>2. \A r \in Runs : Capped(r)' = Capped(r)
  BY <1>1, SameCaps DEF Calm
<1>3. Caps' = Caps
  BY <1>2 DEF Caps
<1>4. PICK amount \in 0..MaxLimit :
        /\ limit' = [limit EXCEPT ![p] = amount]
        /\ cut' = IF Committed(ScopeOf[p]) > amount THEN cut \cup {p} ELSE cut \ {p}
  BY DEF UpsertPolicy
<1> SUFFICES ASSUME NEW q \in Policies, limit'[q] > 0, q \notin cut'
             PROVE  Total(ScopeOf[q], Caps) <= limit'[q]
  BY <1>3 DEF WithinLimit
<1>5. CASE q # p
  BY <1>4, <1>5 DEF WithinLimit, IInv, TypeOK
<1>6. CASE q = p
  <2>1. Total(ScopeOf[p], Caps) <= Committed(ScopeOf[p])
    BY CapsCommitted
  <2>2. Committed(ScopeOf[p]) \in Nat /\ Total(ScopeOf[p], Caps) \in Nat
    BY CommittedTotal, CapsType, TotalFinite DEF CapsAreNumbers
  <2>3. limit'[p] = amount /\ amount \in Nat
    BY <1>4, AmountAssumption DEF IInv, TypeOK
  <2>4. ~(Committed(ScopeOf[p]) > amount)
    BY <1>4, <1>6
  <2> QED
    BY <1>6, <2>1, <2>2, <2>3, <2>4
<1> QED
  BY <1>5, <1>6

------------------------------------------------------------------------------
(* Holds and promises, over whole behaviours.                                 *)

\* Books adds to the invariant of the runs what they owe, the holds, and the promises.
Books == /\ \A r \in Runs : Tracked(r)
         /\ \A s \in Scopes : HoldRight(s)
         /\ WithinLimit

LEMMA InitBooks == Init => Books
<1> SUFFICES ASSUME Init PROVE Books
  OBVIOUS
<1>1. \A r \in Runs : Tracked(r)
  BY DEF Init, Tracked
<1>2. \A r \in Runs : ledger[r] = 0 /\ Live(r) = 0 /\ Capped(r) = 0
  BY DEF Init, Live, Held, Spent, Capped
<1>3. \A s \in Scopes : HoldRight(s)
  <2> TAKE s \in Scopes
  <2> DEFINE c == [r \in Runs |-> ledger[r] + Live(r)]
  <2>1. \A r \in RunsOf(s) : c[r] = 0
    BY <1>2 DEF RunsOf
  <2>2. Observed(s) = 0
    BY <2>1, NoTotal DEF Observed
  <2>3. \A p \in PoliciesOf(s) : ~Overspent(p)
    <3> TAKE p \in PoliciesOf(s)
    <3>1. ScopeOf[p] = s /\ limit[p] \in Nat
      BY AmountAssumption DEF PoliciesOf, Init
    <3> QED
      BY <2>2, <3>1 DEF Overspent
  <2>4. budgetHeld[s] = FALSE
    BY DEF Init
  <2> QED
    BY <2>3, <2>4, Zenon DEF HoldRight
<1>4. WithinLimit
  <2>1. \A s : Total(s, Caps) = 0
    <3> TAKE s
    <3>1. \A r \in RunsOf(s) : Caps[r] = 0
      BY <1>2 DEF Caps, RunsOf
    <3> QED
      BY <3>1, NoTotal
  <2>2. \A p \in Policies : limit[p] \in Nat
    BY AmountAssumption DEF Init
  <2> QED
    BY <2>1, <2>2 DEF WithinLimit
<1> QED
  BY <1>1, <1>3, <1>4 DEF Books

\* A step of the worker, or one that a run takes by itself, leaves the holds alone.
LEMMA HoldsLeft ==
  ASSUME \/ \E r \in Runs : \/ HandOff(r) \/ Undispatch(r) \/ Checkpoint(r) \/ EndWork(r)
                            \/ FinalReceipt(r) \/ Finish(r) \/ StopRun(r)
         \/ \E p \in Policies : WorkerStep(p) \/ FailDelivery(p)
         \/ Restart \/ UNCHANGED vars
  PROVE  UNCHANGED <<budgetHeld, limit, cut>>
BY DEF HandOff, Undispatch, Checkpoint, EndWork, FinalReceipt, Finish, StopRun, WorkerStep,
       FailDelivery, Restart, Pick, Authorise, FenceScope, PickCommitted, MarkDelivered, vars,
       NoOtherChange, policyVars

\* Calm steps keep the books, when the holds are reconciled or left alone.
LEMMA CalmBooks ==
  ASSUME IInv, Books, IInv', Calm, UNCHANGED <<limit, cut>>,
         \/ UNCHANGED budgetHeld
         \/ \E r \in Runs : EvaluateAdmission(r)
         \/ \E x \in Scopes : ReconcileScope(x)
  PROVE  Books'
<1>1. \A r \in Runs : Tracked(r)'
  BY CalmTracked DEF TInv, Books
<1>2. \A s \in Scopes : HoldRight(s)'
  BY CalmHolds DEF Books
<1>3. WithinLimit'
  BY SameCaps, WithinLower DEF Books, Calm
<1> QED
  BY <1>1, <1>2, <1>3 DEF Books

LEMMA NextBooks == IInv /\ Books /\ [Next]_vars => Books'
<1> SUFFICES ASSUME IInv, Books, [Next]_vars PROVE Books'
  OBVIOUS
<1>1. IInv' /\ TInv /\ WithinLimit /\ \A s \in Scopes : HoldRight(s)
  BY NextInv DEF TInv, Books
<1>2. CASE \/ \E r \in Runs : \/ HandOff(r) \/ Undispatch(r) \/ Checkpoint(r) \/ EndWork(r)
                              \/ FinalReceipt(r) \/ Finish(r) \/ StopRun(r)
           \/ \E p \in Policies : WorkerStep(p) \/ FailDelivery(p)
           \/ Restart \/ UNCHANGED vars
  <2>1. Calm
    BY <1>2, CalmRun, CalmOther
  <2> QED
    BY <1>1, <1>2, <2>1, HoldsLeft, CalmBooks
<1>3. ASSUME NEW r \in Runs, Enqueue(r) \/ Claim(r) \/ AdmitDispatch(r)
      PROVE  Books'
  <2>1. Calm
    BY <1>3, CalmRun
  <2>2. EvaluateAdmission(r) /\ UNCHANGED <<limit, cut>>
    BY <1>3 DEF Enqueue, Claim, AdmitDispatch, NoOtherChange, policyVars
  <2> QED
    BY <1>1, <2>1, <2>2, CalmBooks
<1>4. ASSUME NEW x \in Scopes, ReconcileScope(x)
      PROVE  Books'
  <2>1. Calm /\ UNCHANGED <<limit, cut>>
    BY <1>4, CalmOther DEF ReconcileScope, policyVars
  <2> QED
    BY <1>1, <1>4, <2>1, CalmBooks
<1>5. ASSUME NEW r \in Runs, Reserve(r)
      PROVE  Books'
  <2>1. \A q \in Runs : Tracked(q)'
    <3>1. CASE UNCHANGED <<account, reservation, usage, ledger, status>>
      BY <1>1, <3>1, CalmTracked DEF Calm
    <3> QED
      BY <1>1, <1>5, <3>1, ReserveEffect, ReservedTracked
  <2> QED
    BY <1>1, <1>5, <2>1, ReserveHolds, ReserveWithin DEF Books
<1>6. ASSUME NEW r \in Runs, PersistReceipt(r) \/ AccountRunCost(r)
      PROVE  Books'
  <2>1. \A q \in Runs : Tracked(q)'
    BY <1>1, <1>6, PersistedTracked, AccountTracked
  <2> QED
    BY <1>1, <1>6, <2>1, AccountingHolds, AccountingWithin DEF Books
<1>7. ASSUME NEW p \in Policies, UpsertPolicy(p)
      PROVE  Books'
  <2>1. \A q \in Runs : Tracked(q)'
    BY <1>1, <1>7, CalmOther, CalmTracked
  <2> QED
    BY <1>1, <1>7, <2>1, UpsertHolds, UpsertWithin DEF Books
<1> QED
  BY <1>2, <1>3, <1>4, <1>5, <1>6, <1>7 DEF Next

\* What runs owe, the holds of scopes and the promises to policies stay in order together.
THEOREM BooksKept == Spec => [](IInv /\ Books)
BY InitInv, NextInv, InitBooks, NextBooks, PTL DEF Spec

\* A scope that has spent its budget is held, and a hold does not outlive what it was for:
\* for any runs and policies, whatever settles, is corrected or is edited in between.
THEOREM HoldsTrackSpend == Spec => []HoldTracksSpend
<1>1. Books => HoldTracksSpend
  BY HoldsAreRight DEF Books
<1>2. QED
  BY BooksKept, <1>1, PTL

\* Runs that are admitted concurrently never promise more than a policy allows, unless a
\* run costs more than its reservation or an edit lowers the amount.
THEOREM NeverOverbooked == Spec => []NoOverbooking
<1>1. IInv /\ Books => NoOverbooking
  <2> SUFFICES ASSUME IInv, Books, NEW p \in Policies, limit[p] > 0, p \notin cut,
                      Committed(ScopeOf[p]) > limit[p],
                      \A r \in RunsOf(ScopeOf[p]) : ~(usage[r].cost > reservation[r].amount)
               PROVE  FALSE
    BY DEF NoOverbooking
  <2> DEFINE s == ScopeOf[p]
             spent == [r \in Runs |-> Spent(r)]
  <2>1. \A r \in RunsOf(s) : spent[r] = Caps[r]
    <3> TAKE r \in RunsOf(s)
    <3>1. r \in Runs /\ Tracked(r) /\ usage[r].cost <= reservation[r].amount
      BY Costs DEF RunsOf, Books
    <3>2. Spent(r) <= reservation[r].amount
      <4>1. CASE account[r] = "pending"
        BY <3>1, <4>1, Costs DEF Tracked, Spent, Held, Live
      <4>2. CASE account[r] # "pending"
        BY <3>1, <4>2, Costs DEF Tracked, Spent, Held, Live
      <4> QED
        BY <4>1, <4>2
    <3> QED
      BY <3>1, <3>2, CapNumbers, Costs DEF Capped, Caps
  <2>2. Total(s, spent) = Total(s, Caps)
    BY <2>1, SameTotal
  <2>3. Committed(s) = Total(s, spent) /\ Total(s, Caps) \in Nat
    BY CommittedTotal, CapsType, TotalFinite DEF CapsAreNumbers
  <2>4. Total(s, Caps) <= limit[p] /\ limit[p] \in Nat
    BY DEF Books, WithinLimit, IInv, TypeOK
  <2> QED
    BY <2>2, <2>3, <2>4
<1>2. QED
  BY BooksKept, <1>1, PTL

================================================================================
