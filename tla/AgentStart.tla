------------------------------- MODULE AgentStart -------------------------------
(***************************************************************************)
(* Starting the queued runs of one agent: startNextQueuedRunForAgent        *)
(* (server/src/services/heartbeat/queue.ts) under the agent start lock      *)
(* (server/src/services/agent-start-lock.ts), in one server process.        *)
(*                                                                          *)
(* Every wake, every finished executor, every cancelled run and the         *)
(* periodic pass call it.  A call waits for the call registered before it,  *)
(* or until that one is 30 s old; it then counts the agent's running runs,  *)
(* reads the queue and claims as many runs as there are free slots.  A      *)
(* claim that finds the run held cancels it, and cancelling a run calls     *)
(* this function again and awaits it: a call can wait for itself.           *)
(*                                                                          *)
(* The agent stays invokable.  What the claim checks is one gate per run,   *)
(* the order in which the queue is tried is arbitrary.                      *)
(***************************************************************************)
EXTENDS Naturals, FiniteSets

CONSTANTS Runs,          \* the runs of the agent
          Calls,         \* calls of the function; a finished one is used again
          Sweep,         \* the call of the periodic pass (resumeQueuedRuns)
          NoCall,
          Gates,         \* Gates[r]: what the claim of r may come to find
          MaxConcurrent, \* policy.maxConcurrentRuns
          Stale,         \* AGENT_START_LOCK_STALE_MS, in ticks
          MaxStarts,     \* bound on the calls of wakes and finished executors
          MaxFaults      \* bound on the calls that hang or throw

\* "later": not now (setup, dependencies, a claim refused with a 4xx);
\* "held": cancelled by the claim (pause hold, budget); "refused": a 403.
GateValues == {"open", "later", "held", "refused"}

ASSUME CallsAssumption == Sweep \in Calls /\ NoCall \notin Calls
ASSUME RunsAssumption  == IsFiniteSet(Runs)
ASSUME GatesAssumption == Gates \in [Runs -> SUBSET GateValues]
ASSUME BoundAssumption == /\ MaxConcurrent \in Nat /\ Stale \in Nat \ {0}
                          /\ MaxStarts \in Nat /\ MaxFaults \in Nat

VARIABLES status,     \* the runs' rows; "claimed": running, not yet executed
          gate,       \* what a claim of the run finds
          lock,       \* startLocksByAgent: the call registered last
          pc, prev,   \* prev[c]: the call that c waits for
          age,        \* ticks since the call registered, at most Stale
          before,     \* <<c, d>>: c registered before d and still has the lock
          slots,      \* availableSlots
          todo,       \* prioritizedRuns not yet tried
          got,        \* claimedRuns
          rejected,   \* rejectedClaims
          child,      \* the call that c awaits in cancelRunInternal
          threw,      \* the call ends with an error
          starts, faults,
          overlapped  \* two calls have been under the lock at once

lockVars == <<lock, prev, age, before>>
workVars == <<slots, todo, got, rejected>>
vars == <<status, gate, pc, lockVars, workVars, child, threw, starts, faults,
          overlapped>>

InsidePcs == {"entered", "counted", "claiming", "cancelled", "nested",
              "aborting", "hung"}
Pcs == InsidePcs \cup {"idle", "waiting", "settling", "cancelledAfter",
                       "nestedAfter"}

Inside(c)   == pc[c] \in InsidePcs
Active(c)   == pc[c] = "waiting" \/ Inside(c)
Occupied    == {r \in Runs : status[r] \in {"claimed", "running"}}
QueuedRuns  == {r \in Runs : status[r] = "queued"}
Live(r)     == status[r] \in {"queued", "claimed", "running"}
IsRoot(c)   == \A p \in Calls : child[p] # c

TypeOK ==
  /\ status \in [Runs -> {"new", "queued", "claimed", "running", "ended"}]
  /\ gate \in [Runs -> GateValues]
  /\ pc \in [Calls -> Pcs]
  /\ lock \in Calls \cup {NoCall}
  /\ prev \in [Calls -> Calls \cup {NoCall}]
  /\ age \in [Calls -> 0..Stale]
  /\ before \subseteq Calls \X Calls
  /\ slots \in [Calls -> 0..MaxConcurrent]
  /\ todo \in [Calls -> SUBSET Runs]
  /\ got \in [Calls -> SUBSET Runs]
  /\ rejected \in [Calls -> SUBSET Runs]
  /\ child \in [Calls -> Calls \cup {NoCall}]
  /\ threw \in [Calls -> BOOLEAN]
  /\ starts \in Nat /\ faults \in Nat
  /\ overlapped \in BOOLEAN

Init ==
  /\ status = [r \in Runs |-> "new"]
  /\ gate \in {g \in [Runs -> GateValues] : \A r \in Runs : g[r] \in Gates[r]}
  /\ pc = [c \in Calls |-> "idle"]
  /\ lock = NoCall
  /\ prev = [c \in Calls |-> NoCall]
  /\ age = [c \in Calls |-> 0]
  /\ before = {}
  /\ slots = [c \in Calls |-> 0]
  /\ todo = [c \in Calls |-> {}]
  /\ got = [c \in Calls |-> {}]
  /\ rejected = [c \in Calls |-> {}]
  /\ child = [c \in Calls |-> NoCall]
  /\ threw = [c \in Calls |-> FALSE]
  /\ starts = 0 /\ faults = 0
  /\ overlapped = FALSE

------------------------------------------------------------------------------
(* The lock.                                                                *)

\* withAgentStartLock up to its first await: c waits for the call registered
\* last, and is itself the last one from now on.
Register(c) ==
  /\ pc[c] = "idle"
  /\ prev' = [prev EXCEPT ![c] = lock]
  /\ age' = [age EXCEPT ![c] = 0]
  /\ before' = before \cup {<<e, c>> : e \in {d \in Calls : Active(d)}}
  /\ lock' = c
  /\ threw' = [threw EXCEPT ![c] = FALSE]

\* Mutated form of MayEnter: the wait has no timeout.
MayEnterSettled(c) == prev[c] = NoCall

\* waitForAgentStartLock: the marker of the previous call is settled, or that
\* call registered AGENT_START_LOCK_STALE_MS ago, whatever it has waited since.
MayEnter(c) == prev[c] # NoCall => age[prev[c]] = Stale

Enter(c) ==
  /\ pc[c] = "waiting"
  /\ MayEnter(c)
  /\ pc' = [pc EXCEPT ![c] = "entered"]
  /\ prev' = [prev EXCEPT ![c] = NoCall]
  /\ overlapped' = (overlapped \/ \E d \in Calls : Inside(d))
  /\ UNCHANGED <<status, gate, lock, age, before, workVars, child, threw,
                 starts, faults>>

\* Mutated form of ReleaseLock: the entry is deleted whoever registered it.
ReleaseLockOfAnyone(c) ==
  /\ lock' = NoCall
  /\ prev' = [d \in Calls |-> IF prev[d] = c THEN NoCall ELSE prev[d]]
  /\ before' = {e \in before : e[1] # c /\ e[2] # c}
  /\ age' = [age EXCEPT ![c] = 0]

\* fn has returned or thrown: the marker settles, and the entry is deleted when
\* it is still this call's.
ReleaseLock(c) ==
  /\ lock' = IF lock = c THEN NoCall ELSE lock
  /\ prev' = [d \in Calls |-> IF prev[d] = c THEN NoCall ELSE prev[d]]
  /\ before' = {e \in before : e[1] # c /\ e[2] # c}
  /\ age' = [age EXCEPT ![c] = 0]

\* Time passes for every call that has registered.
Tick ==
  /\ \E c \in Calls : Active(c) /\ age[c] < Stale
  /\ age' = [c \in Calls |-> IF Active(c) /\ age[c] < Stale THEN age[c] + 1
                             ELSE age[c]]
  /\ UNCHANGED <<status, gate, pc, lock, prev, before, workVars, child, threw,
                 starts, faults, overlapped>>

------------------------------------------------------------------------------
(* Who calls.                                                               *)

\* A wake, a finished executor, a reaped run.
StartCall(c) ==
  /\ c # Sweep /\ starts < MaxStarts
  /\ Register(c)
  /\ pc' = [pc EXCEPT ![c] = "waiting"]
  /\ starts' = starts + 1
  /\ UNCHANGED <<status, gate, workVars, child, faults, overlapped>>

\* The periodic pass reaches an agent that has queued runs; the pass before it
\* has ended (createTrackedSingleFlight).
StartSweep ==
  /\ QueuedRuns # {}
  /\ Register(Sweep)
  /\ pc' = [pc EXCEPT ![Sweep] = "waiting"]
  /\ UNCHANGED <<status, gate, workVars, child, starts, faults, overlapped>>

\* The end of cancelRunInternal: it starts the agent's next run and awaits that.
StartNested(c, d) ==
  /\ pc[c] \in {"cancelled", "cancelledAfter"} /\ d # Sweep
  /\ Register(d)
  /\ pc' = [pc EXCEPT ![d] = "waiting",
                      ![c] = IF @ = "cancelled" THEN "nested" ELSE "nestedAfter"]
  /\ child' = [child EXCEPT ![c] = d]
  /\ UNCHANGED <<status, gate, workVars, starts, faults, overlapped>>

------------------------------------------------------------------------------
(* Under the lock.                                                          *)

\* Mutated form of FreeSlots: off by one.
OneSlotTooMany == IF MaxConcurrent + 1 > Cardinality(Occupied)
                  THEN MaxConcurrent + 1 - Cardinality(Occupied) ELSE 0

\* availableSlots
FreeSlots == IF MaxConcurrent > Cardinality(Occupied)
             THEN MaxConcurrent - Cardinality(Occupied) ELSE 0

\* countRunningRunsForAgent; without a free slot the queue is not read.
Count(c) ==
  /\ pc[c] = "entered"
  /\ slots' = [slots EXCEPT ![c] = FreeSlots]
  /\ pc' = [pc EXCEPT ![c] = IF FreeSlots = 0 THEN "claiming" ELSE "counted"]
  /\ UNCHANGED <<status, gate, lockVars, todo, got, rejected, child, threw,
                 starts, faults, overlapped>>

\* The agent's queued runs, as the claims will see them one after the other.
ReadQueue(c) ==
  /\ pc[c] = "counted"
  /\ todo' = [todo EXCEPT ![c] = QueuedRuns]
  /\ pc' = [pc EXCEPT ![c] = "claiming"]
  /\ UNCHANGED <<status, gate, lockVars, slots, got, rejected, child, threw,
                 starts, faults, overlapped>>

\* Mutated form of Tries: one claim too many.
TriesOneMore(c, r) == /\ pc[c] = "claiming" /\ r \in todo[c]
                      /\ Cardinality(got[c]) <= slots[c]

\* The loop over prioritizedRuns reaches r.
Tries(c, r) == /\ pc[c] = "claiming" /\ r \in todo[c]
               /\ Cardinality(got[c]) < slots[c]

\* Mutated form of ClaimRun: the claim does not look at the row's status.
ClaimAnyRun(c, r) ==
  /\ Tries(c, r)
  /\ gate[r] = "open"
  /\ status' = [status EXCEPT ![r] = "claimed"]
  /\ got' = [got EXCEPT ![c] = @ \cup {r}]
  /\ todo' = [todo EXCEPT ![c] = @ \ {r}]
  /\ UNCHANGED <<gate, pc, lockVars, slots, rejected, child, threw, starts,
                 faults, overlapped>>

\* claimQueuedRun commits: the row was still queued.
ClaimRun(c, r) ==
  /\ Tries(c, r)
  /\ gate[r] = "open" /\ status[r] = "queued"
  /\ status' = [status EXCEPT ![r] = "claimed"]
  /\ got' = [got EXCEPT ![c] = @ \cup {r}]
  /\ todo' = [todo EXCEPT ![c] = @ \ {r}]
  /\ UNCHANGED <<gate, pc, lockVars, slots, rejected, child, threw, starts,
                 faults, overlapped>>

\* claimQueuedRun returns null, or a 4xx leaves the run for a later pass.
PassOver(c, r) ==
  /\ Tries(c, r)
  /\ \/ gate[r] = "later"
     \/ gate[r] = "held" /\ ~Live(r)
     \/ gate[r] \in {"open", "refused"} /\ status[r] # "queued"
  /\ todo' = [todo EXCEPT ![c] = @ \ {r}]
  /\ UNCHANGED <<status, gate, pc, lockVars, slots, got, rejected, child, threw,
                 starts, faults, overlapped>>

\* A 403: the run is cancelled once the lock is released.
Refuse(c, r) ==
  /\ Tries(c, r)
  /\ gate[r] = "refused" /\ status[r] = "queued"
  /\ rejected' = [rejected EXCEPT ![c] = @ \cup {r}]
  /\ todo' = [todo EXCEPT ![c] = @ \ {r}]
  /\ UNCHANGED <<status, gate, pc, lockVars, slots, got, child, threw, starts,
                 faults, overlapped>>

\* The claim finds the run held and cancels it, under the lock.
CancelHeld(c, r) ==
  /\ Tries(c, r)
  /\ gate[r] = "held" /\ Live(r)
  /\ status' = [status EXCEPT ![r] = "ended"]
  /\ todo' = [todo EXCEPT ![c] = @ \ {r}]
  /\ pc' = [pc EXCEPT ![c] = "cancelled"]
  /\ UNCHANGED <<gate, lockVars, slots, got, rejected, child, threw, starts,
                 faults, overlapped>>

\* The loop is over: the claimed runs are executed, those still running at
\* least, and the lock is released.
Finish(c) ==
  /\ pc[c] = "claiming"
  /\ todo[c] = {} \/ Cardinality(got[c]) >= slots[c]
  /\ status' = [r \in Runs |-> IF r \in got[c] /\ status[r] = "claimed"
                               THEN "running" ELSE status[r]]
  /\ pc' = [pc EXCEPT ![c] = "settling"]
  /\ todo' = [todo EXCEPT ![c] = {}]
  /\ got' = [got EXCEPT ![c] = {}]
  /\ slots' = [slots EXCEPT ![c] = 0]
  /\ ReleaseLock(c)
  /\ UNCHANGED <<gate, rejected, child, threw, starts, faults, overlapped>>

\* An error under the lock: what was claimed stays running, with no executor.
Abort(c) ==
  /\ pc[c] = "aborting"
  /\ threw' = [threw EXCEPT ![c] = TRUE]
  /\ pc' = [pc EXCEPT ![c] = "settling"]
  /\ todo' = [todo EXCEPT ![c] = {}]
  /\ got' = [got EXCEPT ![c] = {}]
  /\ slots' = [slots EXCEPT ![c] = 0]
  /\ ReleaseLock(c)
  /\ UNCHANGED <<status, gate, rejected, child, starts, faults, overlapped>>

------------------------------------------------------------------------------
(* After the lock is released.                                              *)

\* cancelRejectedQueuedRuns, one run; a run that has ended needs nothing.
CancelRejected(c, r) ==
  /\ pc[c] = "settling" /\ r \in rejected[c]
  /\ rejected' = [rejected EXCEPT ![c] = @ \ {r}]
  /\ IF Live(r)
       THEN /\ status' = [status EXCEPT ![r] = "ended"]
            /\ pc' = [pc EXCEPT ![c] = "cancelledAfter"]
       ELSE UNCHANGED <<status, pc>>
  /\ UNCHANGED <<gate, lockVars, slots, todo, got, child, threw, starts, faults,
                 overlapped>>

\* The promise settles.  An awaiting claim goes on, or fails with it; a failed
\* cancellation of a rejected run is only logged.
Return(c) ==
  /\ pc[c] = "settling" /\ rejected[c] = {}
  /\ pc' = [d \in Calls |->
              IF d = c THEN "idle"
              ELSE IF child[d] # c THEN pc[d]
              ELSE IF pc[d] = "nestedAfter" THEN "settling"
              ELSE IF threw[c] THEN "aborting" ELSE "claiming"]
  /\ child' = [d \in Calls |-> IF child[d] = c THEN NoCall ELSE child[d]]
  /\ UNCHANGED <<status, gate, lockVars, workVars, threw, starts, faults,
                 overlapped>>

------------------------------------------------------------------------------
(* The runs, and what can go wrong.                                         *)

\* A wake commits a queued run.
Enqueue(r) ==
  /\ status[r] = "new"
  /\ status' = [status EXCEPT ![r] = "queued"]
  /\ UNCHANGED <<gate, pc, lockVars, workVars, child, threw, starts, faults,
                 overlapped>>

\* The executor of a run ends it.
EndRun(r) ==
  /\ status[r] = "running"
  /\ status' = [status EXCEPT ![r] = "ended"]
  /\ UNCHANGED <<gate, pc, lockVars, workVars, child, threw, starts, faults,
                 overlapped>>

\* reapOrphanedRuns: a running row without an executor, minutes after its claim.
ReapRun(r) ==
  /\ status[r] = "claimed"
  /\ \A c \in Calls : r \in got[c] => age[c] = Stale
  /\ status' = [status EXCEPT ![r] = "ended"]
  /\ UNCHANGED <<gate, pc, lockVars, workVars, child, threw, starts, faults,
                 overlapped>>

\* A hold or a budget stop reaches the run, or what delayed it is over.
HoldRun(r) ==
  /\ gate[r] \in {"open", "later"} /\ "held" \in Gates[r]
  /\ gate' = [gate EXCEPT ![r] = "held"]
  /\ UNCHANGED <<status, pc, lockVars, workVars, child, threw, starts, faults,
                 overlapped>>

ClearRun(r) ==
  /\ gate[r] = "later"
  /\ gate' = [gate EXCEPT ![r] = "open"]
  /\ UNCHANGED <<status, pc, lockVars, workVars, child, threw, starts, faults,
                 overlapped>>

\* A statement of the call never returns, or throws.
Fault(c) ==
  /\ pc[c] \in {"entered", "counted", "claiming"}
  /\ faults < MaxFaults
  /\ faults' = faults + 1
  /\ \/ pc' = [pc EXCEPT ![c] = "aborting"]
     \/ c # Sweep /\ IsRoot(c) /\ pc' = [pc EXCEPT ![c] = "hung"]
  /\ UNCHANGED <<status, gate, lockVars, workVars, child, threw, starts,
                 overlapped>>

------------------------------------------------------------------------------
Step(c) ==
  \/ Enter(c) \/ Count(c) \/ ReadQueue(c) \/ Finish(c) \/ Abort(c) \/ Return(c)
  \/ \E r \in Runs : \/ ClaimRun(c, r) \/ PassOver(c, r) \/ Refuse(c, r)
                     \/ CancelHeld(c, r) \/ CancelRejected(c, r)
  \/ \E d \in Calls : StartNested(c, d)

RunStep(r) == EndRun(r) \/ ReapRun(r) \/ ClearRun(r)

Next ==
  \/ \E c \in Calls : StartCall(c) \/ Step(c) \/ Fault(c)
  \/ StartSweep
  \/ Tick
  \/ \E r \in Runs : Enqueue(r) \/ HoldRun(r) \/ RunStep(r)

Spec == Init /\ [][Next]_vars

\* The event loop runs every call that does not hang, timers fire, the periodic
\* pass comes again, executors end, orphaned rows are reaped and what delays a
\* run clears.
Fairness ==
  /\ \A c \in Calls : WF_vars(Step(c))
  /\ WF_vars(StartSweep)
  /\ WF_vars(Tick)
  /\ \A r \in Runs : WF_vars(RunStep(r))

FairSpec == Spec /\ Fairness

------------------------------------------------------------------------------
\* Of two calls under the lock at once the one registered first is at least
\* AGENT_START_LOCK_STALE_MS old: the lock is exclusive for everybody younger,
\* although it is passed along a chain of promises, from calls that time out,
\* and its entry is deleted and set by different calls.
ExclusiveUnlessStale ==
  \A c, d \in Calls : Inside(c) /\ Inside(d) /\ <<c, d>> \in before
                        => age[c] = Stale

\* As long as no two calls have been under the lock at once, the agent has at
\* most maxConcurrentRuns running runs, although the claims do not compare.
SlotsRespected == ~overlapped => Cardinality(Occupied) <= MaxConcurrent

\* No run is claimed, and then executed, by two calls, even when they overlap.
OneClaimer ==
  \A c, d \in Calls : c # d => got[c] \cap got[d] = {}

\* A queued run is claimed or settled in the end: a call that hangs under the
\* lock, or waits there for a call of its own, does not freeze the queue.
QueuedRunSettles ==
  \A r \in Runs : status[r] = "queued" ~> status[r] # "queued"

\* What the settings form says: at most maxConcurrentRuns run simultaneously.
LimitHolds == Cardinality(Occupied) <= MaxConcurrent
================================================================================
