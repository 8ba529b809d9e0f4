------------------------ MODULE LegacyControllerLease ------------------------
(***************************************************************************)
(* The controller lease of one legacy heartbeat run                         *)
(* (server/src/services/legacy-controller-lease.ts and its callers).        *)
(*                                                                          *)
(* The server process that claims a queued run writes its boot identifier   *)
(* and a lease into the run's row; while it runs the adapter it renews the  *)
(* lease and keeps a local deadline, and aborts the adapter when a renewal  *)
(* is refused, fails, or the deadline passes.  Another process that finds   *)
(* the lease expired replaces the boot identifier (revocation), and reads   *)
(* the execution stage committed with that write to decide whether a retry  *)
(* can be made safely.                                                      *)
(*                                                                          *)
(* Time is discrete.  The database and the processes measure durations at   *)
(* one rate; a local timer may fire up to Lateness ticks after it is due    *)
(* (a busy event loop), and a database statement may take any time.         *)
(***************************************************************************)
EXTENDS Naturals

CONSTANTS Boots,       \* server processes, each with its own boot identifier
          NoBoot,      \* the row has no controller yet
          RandomBoot,  \* any identifier written by a revocation: nobody's boot
          Lease,       \* LEGACY_CONTROLLER_LEASE_MS
          Lateness,    \* how late a local timer callback may run
          MaxTime      \* bound on the clock

ASSUME BootsAssumption == NoBoot \notin Boots /\ RandomBoot \notin Boots
                          /\ NoBoot # RandomBoot
ASSUME TimeAssumption  == Lease \in Nat /\ Lateness \in Nat /\ MaxTime \in Nat

VARIABLES now,        \* the clock
          row,        \* the heartbeat_runs row
          watch,      \* watch[b]: process b's executor and its lease watcher
          attempt,    \* attempt[b][k]: process b's renewal attempt of kind k
          revocation  \* what the last revocation saw, and when

vars == <<now, row, watch, attempt, revocation>>

\* A renewal is started by the interval timer, or by the dispatch of the run.
Kinds == {"interval", "dispatch"}

\* The terminal statuses: a cancelled run is told apart from the other ones.
Ended        == {"ended", "cancelled"}
RunStatus    == {"queued", "running"} \cup Ended
Stages       == {"none", "preparing", "dispatching", "settled"}
WatchPhases  == {"off", "on", "aborted", "stopped"}
AttemptState == {"idle", "inflight", "renewed", "refused", "admitted"}

Row     == [status : RunStatus, boot : Boots \cup {NoBoot, RandomBoot},
            expires : Nat, stage : Stages]
Attempt == [st : AttemptState, startedAt : Nat]

TypeOK ==
  /\ now \in Nat
  /\ row \in Row
  /\ watch \in [Boots -> [phase : WatchPhases, deadline : Nat,
                          entered : BOOLEAN]]
  /\ attempt \in [Boots -> [Kinds -> Attempt]]
  /\ revocation \in [stage : Stages, at : Nat]

Idle == [st |-> "idle", startedAt |-> 0]

Init ==
  /\ now = 0
  /\ row = [status |-> "queued", boot |-> NoBoot, expires |-> 0, stage |-> "none"]
  /\ watch = [b \in Boots |-> [phase |-> "off", deadline |-> 0, entered |-> FALSE]]
  /\ attempt = [b \in Boots |-> [k \in Kinds |-> Idle]]
  /\ revocation = [stage |-> "none", at |-> 0]

Revoked == row.boot = RandomBoot
Watching(b) == watch[b].phase = "on"

------------------------------------------------------------------------------
(* The row: claim, renewal, revocation, settlement.                         *)

\* legacyControllerClaim: the fields committed by the UPDATE that claims the
\* queued run.  executeRun then reads the row again, returns unless the boot is
\* still its own, and starts the watcher with the expiry it read.  The model takes
\* this as one step, so the clock that wrote the first expiry and the clock of the
\* process that waits for it are one, and the read is answered before the expiry.
Claim(b) ==
  /\ row.status = "queued"
  /\ row' = [status |-> "running", boot |-> b, expires |-> now + Lease,
             stage |-> "preparing"]
  /\ watch' = [watch EXCEPT ![b] = [phase |-> "on", deadline |-> now + Lease,
                                    entered |-> FALSE]]
  /\ UNCHANGED <<now, attempt, revocation>>

\* Mutated form of MayRenew: the renewal does not compare the boot identifier.
MayRenewAnyBoot(b) == row.status = "running" /\ row.expires > now

\* The WHERE clause of renewLegacyControllerLease.
MayRenew(b) == row.status = "running" /\ row.boot = b /\ row.expires > now

\* Mutated form of CommitRenewal: the stage is left for a later UPDATE.
CommitRenewalWithoutStage(b, k) ==
  /\ attempt[b][k].st = "inflight"
  /\ IF MayRenew(b)
       THEN /\ row' = [row EXCEPT !.expires = now + Lease]
            /\ attempt' = [attempt EXCEPT ![b][k].st = "renewed"]
       ELSE /\ attempt' = [attempt EXCEPT ![b][k].st = "refused"]
            /\ UNCHANGED row
  /\ UNCHANGED <<now, watch, revocation>>

\* The UPDATE of a renewal commits, or finds no row.
CommitRenewal(b, k) ==
  /\ attempt[b][k].st = "inflight"
  /\ IF MayRenew(b)
       THEN /\ row' = [row EXCEPT !.expires = now + Lease,
                                  !.stage = IF k = "dispatch" THEN "dispatching" ELSE @]
            /\ attempt' = [attempt EXCEPT ![b][k].st = "renewed"]
       ELSE /\ attempt' = [attempt EXCEPT ![b][k].st = "refused"]
            /\ UNCHANGED row
  /\ UNCHANGED <<now, watch, revocation>>

\* The WHERE clause of revokeExpiredLegacyControllerWithState.  The reaper has
\* read the row just before, so the boot it compares with is the row's.
MayRevoke == row.status = "running" /\ row.boot # NoBoot /\ row.expires <= now

\* Revocation by a process whose executor does not run this run (the reaper
\* skips a run that is tracked locally or whose lease is live).
Revoke(o) ==
  /\ MayRevoke
  /\ ~Watching(o)
  /\ row' = [row EXCEPT !.boot = RandomBoot, !.expires = now + Lease]
  /\ revocation' = [stage |-> row.stage,
                    at |-> IF Revoked THEN revocation.at ELSE now]
  /\ UNCHANGED <<now, watch, attempt>>

\* The reaper then fails the run it revoked (setRunStatusFromLive, from running).
FailRevoked ==
  /\ Revoked
  /\ row.status = "running"
  /\ row' = [row EXCEPT !.status = "ended"]
  /\ UNCHANGED <<now, watch, attempt, revocation>>

\* Mutated form of CancelRun: a terminal status the row does not have.
CancelRunUnknownStatus ==
  /\ row.status = "running"
  /\ row' = [row EXCEPT !.status = "stopping"]
  /\ UNCHANGED <<now, watch, attempt, revocation>>

\* An operator's Stop or another authority makes the running run terminal.
CancelRun ==
  /\ row.status = "running"
  /\ ~Revoked
  /\ \E s \in Ended : row' = [row EXCEPT !.status = s]
  /\ UNCHANGED <<now, watch, attempt, revocation>>

------------------------------------------------------------------------------
(* The watcher of the executing process.                                     *)

\* assertOwned: a renewal attempt starts.  The interval timer has at most one
\* outstanding (pending); the executor asks once, before it hands the run over.
BeginRenewal(b, k) ==
  /\ Watching(b)
  /\ attempt[b][k].st = "idle"
  /\ k = "dispatch" => ~watch[b].entered
  /\ attempt' = [attempt EXCEPT ![b][k] = [st |-> "inflight", startedAt |-> now]]
  /\ UNCHANGED <<now, row, watch, revocation>>

\* Mutated form of RetryRenewal: a local timeout restarts the attempt's clock
\* although its UPDATE may have committed.
RetryAnsweredRenewal(b, k) ==
  /\ Watching(b)
  /\ attempt[b][k].st \in {"inflight", "renewed"}
  /\ attempt[b][k].startedAt < now
  /\ attempt' = [attempt EXCEPT ![b][k].startedAt = now]
  /\ UNCHANGED <<now, row, watch, revocation>>

\* The statement timeout rolled the UPDATE back: the loop tries again, and the
\* local deadline will be measured from the new attempt.
RetryRenewal(b, k) ==
  /\ Watching(b)
  /\ attempt[b][k].st = "inflight"
  /\ attempt[b][k].startedAt < now
  /\ attempt' = [attempt EXCEPT ![b][k].startedAt = now]
  /\ UNCHANGED <<now, row, watch, revocation>>

\* Mutated form of AcceptRenewal: the deadline is measured from the answer.
AcceptRenewalFromAnswer(b, k) ==
  /\ Watching(b)
  /\ attempt[b][k].st = "renewed"
  /\ watch' = [watch EXCEPT ![b].deadline = now + Lease]
  /\ attempt' = [attempt EXCEPT ![b][k].st = IF k = "dispatch" THEN "admitted" ELSE "idle"]
  /\ UNCHANGED <<now, row, revocation>>

\* The answer of a successful attempt: armDeadline(LEASE - (now - startedAt)).
AcceptRenewal(b, k) ==
  /\ Watching(b)
  /\ attempt[b][k].st = "renewed"
  /\ watch' = [watch EXCEPT ![b].deadline = attempt[b][k].startedAt + Lease]
  /\ attempt' = [attempt EXCEPT ![b][k].st = IF k = "dispatch" THEN "admitted" ELSE "idle"]
  /\ UNCHANGED <<now, row, revocation>>

\* lost("renewal_rejected") for a refused attempt; lost("renewal_error") for an
\* interval attempt whose connection failed, before or after the commit.
LoseLease(b, k) ==
  /\ Watching(b)
  /\ \/ attempt[b][k].st = "refused"
     \/ k = "interval" /\ attempt[b][k].st \in {"inflight", "renewed"}
  /\ watch' = [watch EXCEPT ![b].phase = "aborted"]
  /\ UNCHANGED <<now, row, attempt, revocation>>

\* lost("renewal_deadline").
DeadlinePassed(b) ==
  /\ Watching(b)
  /\ now >= watch[b].deadline
  /\ watch' = [watch EXCEPT ![b].phase = "aborted"]
  /\ UNCHANGED <<now, row, attempt, revocation>>

\* dispatchResolvedInteractionContinuationAfterAdmission: the adapter is entered
\* only after assertOwned("dispatching") returned.  The checks between the two
\* may take time, and the abort signal is the adapter's to obey.
EnterAdapter(b) ==
  /\ watch[b].phase \in {"on", "aborted"}
  /\ attempt[b]["dispatch"].st = "admitted"
  /\ watch' = [watch EXCEPT ![b].entered = TRUE]
  /\ attempt' = [attempt EXCEPT ![b]["dispatch"] = Idle]
  /\ UNCHANGED <<now, row, revocation>>

\* The executor ends: it makes its own running run terminal (finalization is a
\* compare-and-set on running), settles the lease columns of a terminal row that
\* is still its own, its stage only when the run was cancelled, and stops the
\* watcher.
FinishExecution(b) ==
  /\ watch[b].phase \in {"on", "aborted"}
  /\ \E s \in Ended :
       /\ row.status \in Ended => s = row.status
       /\ row' = IF row.boot = b
                   THEN [row EXCEPT !.status = s, !.expires = 0,
                                    !.stage = IF s = "cancelled" THEN "settled" ELSE @]
                   ELSE [row EXCEPT !.status = s]
  /\ watch' = [watch EXCEPT ![b].phase = "stopped"]
  /\ attempt' = [attempt EXCEPT ![b] = [k \in Kinds |-> Idle]]
  /\ UNCHANGED <<now, revocation>>

\* The process dies with its adapter and timers; a renewal that has reached the
\* database may still commit.
Crash(b) ==
  /\ watch[b].phase \in {"on", "aborted"}
  /\ watch' = [watch EXCEPT ![b].phase = "stopped"]
  /\ UNCHANGED <<now, row, attempt, revocation>>

\* A timer that is due fires within Lateness.
Tick ==
  /\ now < MaxTime
  /\ \A b \in Boots : Watching(b) => now < watch[b].deadline + Lateness
  /\ now' = now + 1
  /\ UNCHANGED <<row, watch, attempt, revocation>>

Next ==
  \/ \E b \in Boots : \/ Claim(b) \/ Revoke(b) \/ DeadlinePassed(b)
                      \/ EnterAdapter(b) \/ FinishExecution(b) \/ Crash(b)
  \/ \E b \in Boots, k \in Kinds : \/ BeginRenewal(b, k) \/ RetryRenewal(b, k)
                                   \/ CommitRenewal(b, k) \/ AcceptRenewal(b, k)
                                   \/ LoseLease(b, k)
  \/ FailRevoked \/ CancelRun \/ Tick

Spec == Init /\ [][Next]_vars

------------------------------------------------------------------------------
(* Properties.                                                               *)

\* Once another process has revoked the lease, the old controller's adapter
\* still runs unaborted only while its local deadline callback is late: cleanup
\* never overlaps a controller that believes in its lease for longer than that
\* (legacy-controller-lease.ts, the deadline measured from the attempt's start).
RevokedControllerStops ==
  Revoked => \A b \in Boots : Watching(b) => now <= revocation.at + Lateness

\* A revocation that read the stage "preparing" proves that no adapter has been
\* or will be entered by the old controller, however late its timers are: this
\* is what lets the reaper retry the run (recovery.ts, providerWorkStarted).
PreparingProvesNoWork ==
  Revoked /\ revocation.stage = "preparing" => \A b \in Boots : ~watch[b].entered

\* The stage that a revocation returned cannot advance afterwards, because a
\* renewal needs the boot identifier that the revocation replaced.
StageFrozenByRevocation == [][Revoked => row'.stage = row.stage]_vars

\* A live controller's lease never expires under it: as long as the row is its
\* own and its watcher trusts the lease, the row's expiry is not before the
\* local deadline, however renewals overlap, time out or answer late.
DeadlineCoveredByLease ==
  \A b \in Boots : Watching(b) /\ row.boot = b /\ row.status = "running"
                     => watch[b].deadline <= row.expires
==============================================================================
