--------------------- MODULE LegacyControllerLeaseProofs ---------------------
(***************************************************************************)
(* Proofs about LegacyControllerLease, for any set of processes, lease,      *)
(* lateness and clock bound.  The inductive invariant says which process     *)
(* may hold a trusted lease, until when, and what the adapter may have done. *)
(***************************************************************************)
EXTENDS LegacyControllerLease, TLAPS

------------------------------------------------------------------------------
(* The inductive invariant.                                                   *)

\* A process that has nothing to do with the run.
Uninvolved(b) ==
  /\ watch[b].phase = "off"
  /\ ~watch[b].entered
  /\ \A k \in Kinds : attempt[b][k].st = "idle"

\* The run is claimed once, so that at most one process is its controller.
OneController ==
  /\ row.boot = NoBoot <=> row.status = "queued"
  /\ \A b \in Boots : row.boot # b /\ ~Revoked => Uninvolved(b)

\* Attempts started in the past, and the lease ends no later than a new one would.
Past ==
  /\ row.expires <= now + Lease
  /\ \A b \in Boots, k \in Kinds : attempt[b][k].startedAt <= now

\* What the controller trusts, or will trust once an answer arrives, ends before
\* the lease in the row does; after a revocation, before the revocation.
Covered ==
  \A b \in Boots :
    /\ row.boot = b /\ row.status = "running" =>
         /\ Watching(b) => watch[b].deadline <= row.expires
         /\ \A k \in Kinds : attempt[b][k].st = "renewed"
                               => attempt[b][k].startedAt + Lease <= row.expires
    /\ Revoked =>
         /\ Watching(b) => watch[b].deadline <= revocation.at
         /\ \A k \in Kinds : attempt[b][k].st = "renewed"
                               => attempt[b][k].startedAt + Lease <= revocation.at

\* The adapter is entered, or may be, only after the row said so, and the last
\* revocation has read it.
Dispatched ==
  /\ Revoked => revocation.stage = row.stage
  /\ \A b \in Boots :
       watch[b].entered \/ attempt[b]["dispatch"].st \in {"renewed", "admitted"}
         => row.stage \in {"dispatching", "settled"}

IInv == /\ TypeOK
        /\ OneController
        /\ Past
        /\ Covered
        /\ RevokedControllerStops
        /\ Dispatched

------------------------------------------------------------------------------
(* The invariant is inductive: one lemma per conjunct, one step per action.    *)

\* The constants of an instance: a lease and a lateness are durations, and no
\* process has the identifier of a revocation.
LEMMA Constants ==
  /\ Lease \in Nat /\ Lateness \in Nat /\ MaxTime \in Nat
  /\ NoBoot \notin Boots /\ RandomBoot \notin Boots /\ NoBoot # RandomBoot
BY BootsAssumption, TimeAssumption

\* The invariant holds before the run is claimed.
LEMMA Initially == Init => IInv
<1> SUFFICES ASSUME Init PROVE IInv
  OBVIOUS
<1>1. TypeOK
  BY Constants DEF Init, TypeOK, Row, Attempt, Idle, RunStatus, Ended, Stages, WatchPhases, AttemptState, Kinds
<1>2. OneController /\ Dispatched
  BY Constants DEF Init, OneController, Dispatched, Uninvolved, Revoked, Idle, Kinds
<1>3. Past /\ Covered /\ RevokedControllerStops
  BY Constants DEF Init, Past, Covered, RevokedControllerStops, Revoked, Watching, Idle, Kinds
<1>4. QED
  BY <1>1, <1>2, <1>3 DEF IInv

\* The rows that the UPDATEs of this module write are rows.
LEMMA RowTypes ==
  ASSUME NEW r \in Row, NEW n \in Nat, NEW s \in Stages
  PROVE  /\ [r EXCEPT !.boot = RandomBoot, !.expires = n] \in Row
         /\ [r EXCEPT !.expires = n, !.stage = s] \in Row
BY DEF Row

\* What the UPDATE of a renewal changes, and what it leaves alone.
LEMMA CommitEffect ==
  ASSUME TypeOK, NEW b \in Boots, NEW k \in Kinds, CommitRenewal(b, k)
  PROVE  /\ now' = now /\ watch' = watch /\ revocation' = revocation
         /\ row' \in Row
         /\ attempt' \in [Boots -> [Kinds -> Attempt]]
         /\ row'.status = row.status /\ row'.boot = row.boot
         /\ \A c \in Boots, j \in Kinds :
              /\ attempt'[c][j].startedAt = attempt[c][j].startedAt
              /\ \/ attempt'[c][j].st = attempt[c][j].st
                 \/ c = b /\ j = k /\ attempt'[c][j].st = "refused"
                 \/ c = b /\ j = k /\ MayRenew(b)
         /\ ~MayRenew(b) => row' = row
         /\ MayRenew(b) =>
              /\ row'.expires = now + Lease
              /\ row'.stage = IF k = "dispatch" THEN "dispatching" ELSE row.stage
         /\ attempt[b][k].st = "inflight"
<1>1. PICK s \in {"renewed", "refused"} :
        attempt' = [attempt EXCEPT ![b][k].st = s] /\ (s = "renewed" <=> MayRenew(b))
  BY DEF CommitRenewal
<1>2. attempt' \in [Boots -> [Kinds -> Attempt]]
  <2>1. attempt \in [Boots -> [Kinds -> Attempt]] /\ attempt[b][k] \in Attempt
    BY DEF TypeOK
  <2>2. [attempt[b][k] EXCEPT !.st = s] \in Attempt
    BY <2>1 DEF Attempt, AttemptState
  <2>3. QED
    BY <1>1, <2>1, <2>2
<1>3. row' \in Row
  <2>1. now + Lease \in Nat
    BY Constants DEF TypeOK
  <2>2. CASE MayRenew(b)
    <3>1. PICK t \in Stages : row' = [row EXCEPT !.expires = now + Lease, !.stage = t]
      BY <2>2 DEF CommitRenewal, Stages, TypeOK, Row
    <3>2. QED
      BY <3>1, <2>1, RowTypes DEF TypeOK
  <2>3. CASE ~MayRenew(b)
    BY <2>3 DEF CommitRenewal, TypeOK
  <2>4. QED
    BY <2>2, <2>3
<1>4. /\ row'.status = row.status /\ row'.boot = row.boot
      /\ MayRenew(b) => /\ row'.expires = now + Lease
                        /\ row'.stage = IF k = "dispatch" THEN "dispatching" ELSE row.stage
      /\ ~MayRenew(b) => row' = row
  BY DEF CommitRenewal, TypeOK, Row
<1>5. \A c \in Boots, j \in Kinds :
        /\ attempt'[c][j].startedAt = attempt[c][j].startedAt
        /\ attempt'[c][j].st = IF c = b /\ j = k THEN s ELSE attempt[c][j].st
  BY <1>1 DEF TypeOK, Attempt
<1>6. now' = now /\ watch' = watch /\ revocation' = revocation /\ attempt[b][k].st = "inflight"
  BY DEF CommitRenewal
<1>7. QED
  BY <1>1, <1>2, <1>3, <1>4, <1>5, <1>6

\* What the end of an executor changes, and what it leaves alone.
LEMMA FinishEffect ==
  ASSUME TypeOK, NEW b \in Boots, FinishExecution(b)
  PROVE  /\ now' = now /\ revocation' = revocation
         /\ row' \in Row
         /\ row'.status \in Ended /\ row'.boot = row.boot
         /\ row.boot = b \/ row'.stage = row.stage
         /\ row'.stage \in {row.stage, "settled"}
         /\ row'.expires \in {0, row.expires}
         /\ watch[b].phase # "off"
         /\ watch' \in [Boots -> [phase : WatchPhases, deadline : Nat, entered : BOOLEAN]]
         /\ \A c \in Boots : /\ watch'[c].phase = IF c = b THEN "stopped" ELSE watch[c].phase
                             /\ watch'[c].deadline = watch[c].deadline
                             /\ watch'[c].entered = watch[c].entered
         /\ attempt' \in [Boots -> [Kinds -> Attempt]]
         /\ \A c \in Boots, k \in Kinds :
              /\ attempt'[c][k].st = IF c = b THEN "idle" ELSE attempt[c][k].st
              /\ attempt'[c][k].startedAt = IF c = b THEN 0 ELSE attempt[c][k].startedAt
<1>1. PICK s \in Ended, t \in {row.stage, "settled"}, n \in {0, row.expires} :
        /\ row' = [row EXCEPT !.status = s, !.expires = n, !.stage = t]
        /\ row.boot = b \/ t = row.stage
  <2>1. row \in Row
    BY DEF TypeOK
  <2>2. PICK s \in Ended :
          row' = IF row.boot = b
                   THEN [row EXCEPT !.status = s, !.expires = 0,
                                    !.stage = IF s = "cancelled" THEN "settled" ELSE @]
                   ELSE [row EXCEPT !.status = s]
    BY DEF FinishExecution
  <2>3. CASE row.boot = b
    BY <2>2, <2>3
  <2>4. CASE row.boot # b
    <3>1. [row EXCEPT !.status = s] = [row EXCEPT !.status = s, !.expires = row.expires, !.stage = row.stage]
      BY <2>1 DEF Row
    <3>2. QED
      BY <2>2, <2>4, <3>1
  <2>5. QED
    BY <2>3, <2>4
<1>2. row' \in Row
  <2>1. s \in RunStatus /\ t \in Stages /\ n \in Nat
    BY <1>1 DEF TypeOK, Row, RunStatus, Stages
  <2>2. QED
    BY <1>1, <2>1 DEF TypeOK, Row
<1>3. row'.status \in Ended /\ row'.boot = row.boot
  BY <1>1 DEF TypeOK, Row
<1>4. row'.stage = t /\ row'.expires = n
  BY <1>1 DEF TypeOK, Row
<1>5. /\ attempt' \in [Boots -> [Kinds -> Attempt]]
      /\ \A c \in Boots, k \in Kinds :
           /\ attempt'[c][k].st = IF c = b THEN "idle" ELSE attempt[c][k].st
           /\ attempt'[c][k].startedAt = IF c = b THEN 0 ELSE attempt[c][k].startedAt
  <2>1. Idle \in Attempt
    BY DEF Idle, Attempt, AttemptState
  <2>2. [k \in Kinds |-> Idle] \in [Kinds -> Attempt]
    BY <2>1
  <2>3. attempt' = [attempt EXCEPT ![b] = [k \in Kinds |-> Idle]]
    BY DEF FinishExecution
  <2>4. QED
    BY <2>2, <2>3 DEF TypeOK, Idle
<1>6. /\ watch' \in [Boots -> [phase : WatchPhases, deadline : Nat, entered : BOOLEAN]]
      /\ \A c \in Boots : /\ watch'[c].phase = IF c = b THEN "stopped" ELSE watch[c].phase
                          /\ watch'[c].deadline = watch[c].deadline
                          /\ watch'[c].entered = watch[c].entered
  BY DEF FinishExecution, TypeOK, WatchPhases
<1>7. QED
  BY <1>1, <1>2, <1>3, <1>4, <1>5, <1>6 DEF FinishExecution

\* Every step keeps the types.
LEMMA TypeStep == TypeOK /\ [Next]_vars => TypeOK'
<1> SUFFICES ASSUME TypeOK, [Next]_vars PROVE TypeOK'
  OBVIOUS
<1>1. ASSUME NEW b \in Boots, Claim(b) PROVE TypeOK'
  BY <1>1, Constants DEF Claim, TypeOK, Row, RunStatus, Ended, Stages, WatchPhases
<1>2. ASSUME NEW b \in Boots, Revoke(b) PROVE TypeOK'
  <2>1. now + Lease \in Nat
    BY Constants DEF TypeOK
  <2>2. row' \in Row
    BY <1>2, <2>1, RowTypes DEF Revoke, TypeOK
  <2>3. revocation' \in [stage : Stages, at : Nat]
    BY <1>2 DEF Revoke, TypeOK, Row
  <2>4. QED
    BY <1>2, <2>2, <2>3 DEF Revoke, TypeOK
<1>3. ASSUME NEW b \in Boots, DeadlinePassed(b) PROVE TypeOK'
  BY <1>3 DEF DeadlinePassed, TypeOK, WatchPhases
<1>4. ASSUME NEW b \in Boots, EnterAdapter(b) PROVE TypeOK'
  BY <1>4 DEF EnterAdapter, TypeOK, Attempt, Idle, AttemptState
<1>5. ASSUME NEW b \in Boots, FinishExecution(b) PROVE TypeOK'
  BY <1>5, FinishEffect DEF TypeOK
<1>6. ASSUME NEW b \in Boots, Crash(b) PROVE TypeOK'
  BY <1>6 DEF Crash, TypeOK, WatchPhases
<1>7. ASSUME NEW b \in Boots, NEW k \in Kinds, BeginRenewal(b, k) PROVE TypeOK'
  BY <1>7 DEF BeginRenewal, TypeOK, Attempt, AttemptState
<1>8. ASSUME NEW b \in Boots, NEW k \in Kinds, RetryRenewal(b, k) PROVE TypeOK'
  <2>1. attempt' \in [Boots -> [Kinds -> Attempt]]
    BY <1>8 DEF RetryRenewal, TypeOK, Attempt
  <2>2. QED
    BY <1>8, <2>1 DEF RetryRenewal, TypeOK
<1>9. ASSUME NEW b \in Boots, NEW k \in Kinds, CommitRenewal(b, k) PROVE TypeOK'
  BY <1>9, CommitEffect DEF TypeOK
<1>10. ASSUME NEW b \in Boots, NEW k \in Kinds, AcceptRenewal(b, k) PROVE TypeOK'
  <2>1. attempt' \in [Boots -> [Kinds -> Attempt]]
    <3>1. PICK s \in AttemptState : attempt' = [attempt EXCEPT ![b][k].st = s]
      BY <1>10 DEF AcceptRenewal, AttemptState
    <3>2. QED
      BY <3>1 DEF TypeOK, Attempt
  <2>2. attempt[b][k].startedAt + Lease \in Nat
    BY Constants DEF TypeOK, Attempt
  <2>3. watch' \in [Boots -> [phase : WatchPhases, deadline : Nat, entered : BOOLEAN]]
    BY <1>10, <2>2 DEF AcceptRenewal, TypeOK
  <2>4. QED
    BY <1>10, <2>1, <2>3 DEF AcceptRenewal, TypeOK
<1>11. ASSUME NEW b \in Boots, NEW k \in Kinds, LoseLease(b, k) PROVE TypeOK'
  BY <1>11 DEF LoseLease, TypeOK, WatchPhases
<1>12. ASSUME FailRevoked PROVE TypeOK'
  BY <1>12 DEF FailRevoked, TypeOK, Row, RunStatus, Ended
<1>13. ASSUME CancelRun PROVE TypeOK'
  BY <1>13 DEF CancelRun, TypeOK, Row, RunStatus, Ended
<1>14. ASSUME Tick PROVE TypeOK'
  BY <1>14 DEF Tick, TypeOK
<1>15. CASE UNCHANGED vars
  BY <1>15 DEF vars, TypeOK
<1>16. QED
  BY <1>1, <1>2, <1>3, <1>4, <1>5, <1>6, <1>7, <1>8, <1>9, <1>10, <1>11, <1>12, <1>13, <1>14, <1>15 DEF Next

\* A queued run is nobody's, and a claimed one is claimed by one process only.
LEMMA OneControllerStep == TypeOK /\ OneController /\ [Next]_vars => OneController'
<1> SUFFICES ASSUME TypeOK /\ OneController, [Next]_vars PROVE OneController'
  OBVIOUS
<1>1. ASSUME NEW b \in Boots, Claim(b) PROVE OneController'
  BY <1>1, Constants DEF Claim, OneController, Uninvolved, Revoked
<1>2. ASSUME NEW b \in Boots, Revoke(b) PROVE OneController'
  BY <1>2, Constants DEF Revoke, OneController, Revoked, MayRevoke
<1>3. ASSUME NEW b \in Boots, DeadlinePassed(b) PROVE OneController'
  BY <1>3 DEF DeadlinePassed, OneController, Uninvolved, Revoked, Watching
<1>4. ASSUME NEW b \in Boots, EnterAdapter(b) PROVE OneController'
  BY <1>4 DEF EnterAdapter, OneController, Uninvolved, Revoked
<1>5. ASSUME NEW b \in Boots, FinishExecution(b) PROVE OneController'
  <2>1. /\ row'.boot = row.boot /\ row'.status # "queued" /\ watch[b].phase # "off"
        /\ \A c \in Boots \ {b} : /\ watch'[c].phase = watch[c].phase
                                 /\ watch'[c].entered = watch[c].entered
                                 /\ \A k \in Kinds : attempt'[c][k].st = attempt[c][k].st
    BY <1>5, FinishEffect DEF Ended
  <2>2. ~Uninvolved(b)
    BY <2>1 DEF Uninvolved
  <2>3. row.boot # NoBoot
    BY <2>2, Constants DEF OneController, Revoked
  <2>4. \A c \in Boots \ {b} : Uninvolved(c) => Uninvolved(c)'
    BY <2>1 DEF Uninvolved
  <2>5. QED
    BY <2>1, <2>2, <2>3, <2>4 DEF OneController, Revoked
<1>6. ASSUME NEW b \in Boots, Crash(b) PROVE OneController'
  BY <1>6 DEF Crash, OneController, Uninvolved, Revoked
<1>7. ASSUME NEW b \in Boots, NEW k \in Kinds, BeginRenewal(b, k) PROVE OneController'
  BY <1>7 DEF BeginRenewal, OneController, Uninvolved, Revoked, Watching
<1>8. ASSUME NEW b \in Boots, NEW k \in Kinds, RetryRenewal(b, k) PROVE OneController'
  BY <1>8 DEF RetryRenewal, OneController, Uninvolved, Revoked
<1>9. ASSUME NEW b \in Boots, NEW k \in Kinds, CommitRenewal(b, k) PROVE OneController'
  BY <1>9, CommitEffect DEF OneController, Uninvolved, Revoked, Kinds
<1>10. ASSUME NEW b \in Boots, NEW k \in Kinds, AcceptRenewal(b, k) PROVE OneController'
  BY <1>10 DEF AcceptRenewal, OneController, Uninvolved, Revoked
<1>11. ASSUME NEW b \in Boots, NEW k \in Kinds, LoseLease(b, k) PROVE OneController'
  BY <1>11 DEF LoseLease, OneController, Uninvolved, Revoked
<1>12. ASSUME FailRevoked PROVE OneController'
  BY <1>12 DEF FailRevoked, OneController, Revoked
<1>13. ASSUME CancelRun PROVE OneController'
  BY <1>13 DEF CancelRun, OneController, Uninvolved, Ended, Revoked, TypeOK, Row
<1>14. ASSUME Tick PROVE OneController'
  BY <1>14 DEF Tick, OneController, Uninvolved, Revoked
<1>15. CASE UNCHANGED vars
  BY <1>15 DEF vars, OneController, Uninvolved, Revoked
<1>16. QED
  BY <1>1, <1>2, <1>3, <1>4, <1>5, <1>6, <1>7, <1>8, <1>9, <1>10, <1>11, <1>12, <1>13, <1>14, <1>15 DEF Next

\* No step writes a time that lies ahead of what the clock allows.
LEMMA PastStep == TypeOK /\ Past /\ [Next]_vars => Past'
<1> SUFFICES ASSUME TypeOK /\ Past, [Next]_vars PROVE Past'
  OBVIOUS
<1>1. ASSUME NEW b \in Boots, Claim(b) PROVE Past'
  BY <1>1, Constants DEF Claim, TypeOK, Past
<1>2. ASSUME NEW b \in Boots, Revoke(b) PROVE Past'
  BY <1>2, Constants DEF Revoke, TypeOK, Past
<1>3. ASSUME NEW b \in Boots, DeadlinePassed(b) PROVE Past'
  BY <1>3 DEF DeadlinePassed, Past
<1>4. ASSUME NEW b \in Boots, EnterAdapter(b) PROVE Past'
  BY <1>4 DEF EnterAdapter, TypeOK, Past, Idle
<1>5. ASSUME NEW b \in Boots, FinishExecution(b) PROVE Past'
  <2>1. now' = now /\ row'.expires \in {0, row.expires} /\ now + Lease \in Nat /\ 0 <= now
    BY <1>5, FinishEffect, Constants DEF TypeOK
  <2>2. row'.expires <= now' + Lease
    BY <2>1 DEF Past
  <2>3. \A c \in Boots, k \in Kinds : attempt'[c][k].startedAt <= now'
    <3>1. \A c \in Boots, k \in Kinds :
            attempt'[c][k].startedAt = IF c = b THEN 0 ELSE attempt[c][k].startedAt
      BY <1>5, FinishEffect
    <3>2. QED
      BY <2>1, <3>1 DEF Past
  <2>4. QED
    BY <2>2, <2>3 DEF Past
<1>6. ASSUME NEW b \in Boots, Crash(b) PROVE Past'
  BY <1>6 DEF Crash, Past
<1>7. ASSUME NEW b \in Boots, NEW k \in Kinds, BeginRenewal(b, k) PROVE Past'
  BY <1>7 DEF BeginRenewal, TypeOK, Past
<1>8. ASSUME NEW b \in Boots, NEW k \in Kinds, RetryRenewal(b, k) PROVE Past'
  BY <1>8 DEF RetryRenewal, TypeOK, Past
<1>9. ASSUME NEW b \in Boots, NEW k \in Kinds, CommitRenewal(b, k) PROVE Past'
  BY <1>9, CommitEffect DEF Row, Past, Kinds, MayRenew
<1>10. ASSUME NEW b \in Boots, NEW k \in Kinds, AcceptRenewal(b, k) PROVE Past'
  BY <1>10 DEF AcceptRenewal, Past
<1>11. ASSUME NEW b \in Boots, NEW k \in Kinds, LoseLease(b, k) PROVE Past'
  BY <1>11 DEF LoseLease, Past
<1>12. ASSUME FailRevoked PROVE Past'
  BY <1>12 DEF FailRevoked, Past
<1>13. ASSUME CancelRun PROVE Past'
  BY <1>13 DEF CancelRun, Past
<1>14. ASSUME Tick PROVE Past'
  BY <1>14, Constants DEF Tick, TypeOK, Row, Attempt, Past
<1>15. CASE UNCHANGED vars
  BY <1>15 DEF vars, Past
<1>16. QED
  BY <1>1, <1>2, <1>3, <1>4, <1>5, <1>6, <1>7, <1>8, <1>9, <1>10, <1>11, <1>12, <1>13, <1>14, <1>15 DEF Next

\* A revocation needs an expired lease, which covers all that its controller trusts.
LEMMA CoveredStep == TypeOK /\ OneController /\ Past /\ Covered /\ [Next]_vars => Covered'
<1> SUFFICES ASSUME TypeOK /\ OneController /\ Past /\ Covered, [Next]_vars PROVE Covered'
  OBVIOUS
<1>1. ASSUME NEW b \in Boots, Claim(b) PROVE Covered'
  BY <1>1, Constants DEF Claim, TypeOK, OneController, Uninvolved, Covered, Revoked
<1>2. ASSUME NEW b \in Boots, Revoke(b) PROVE Covered'
  BY <1>2, Constants DEF Revoke, TypeOK, Row, Attempt, OneController, Uninvolved, Covered, Watching, MayRevoke
<1>3. ASSUME NEW b \in Boots, DeadlinePassed(b) PROVE Covered'
  BY <1>3 DEF DeadlinePassed, Covered, Revoked, Watching
<1>4. ASSUME NEW b \in Boots, EnterAdapter(b) PROVE Covered'
  BY <1>4 DEF EnterAdapter, Covered, Revoked, Watching, Idle
<1>5. ASSUME NEW b \in Boots, FinishExecution(b) PROVE Covered'
  <2>1. /\ row'.boot = row.boot /\ row'.status # "running" /\ revocation' = revocation
        /\ \A c \in Boots : /\ watch'[c].phase = "on" => watch[c].phase = "on"
                            /\ watch'[c].deadline = watch[c].deadline
        /\ \A c \in Boots, k \in Kinds :
             attempt'[c][k].st = "renewed" => /\ attempt[c][k].st = "renewed"
                                              /\ attempt'[c][k].startedAt = attempt[c][k].startedAt
    BY <1>5, FinishEffect DEF Ended
  <2>2. QED
    BY <2>1 DEF Covered, Revoked, Watching
<1>6. ASSUME NEW b \in Boots, Crash(b) PROVE Covered'
  BY <1>6, Constants DEF Crash, TypeOK, Row, Attempt, OneController, Uninvolved, Past, Covered, Revoked, Watching, Idle, Kinds
<1>7. ASSUME NEW b \in Boots, NEW k \in Kinds, BeginRenewal(b, k) PROVE Covered'
  BY <1>7, Constants DEF BeginRenewal, TypeOK, Row, Attempt, OneController, Uninvolved, Past, Covered, Revoked, Watching, Idle, Kinds
<1>8. ASSUME NEW b \in Boots, NEW k \in Kinds, RetryRenewal(b, k) PROVE Covered'
  BY <1>8, Constants DEF RetryRenewal, TypeOK, Row, Attempt, OneController, Uninvolved, Past, Covered, Revoked, Watching, Idle, Kinds
<1>9. ASSUME NEW b \in Boots, NEW k \in Kinds, CommitRenewal(b, k) PROVE Covered'
  <2>1. /\ row'.boot = row.boot /\ row'.status = row.status
        /\ watch' = watch /\ revocation' = revocation /\ now' = now
    BY <1>9, CommitEffect
  <2>2. \A c \in Boots, j \in Kinds :
          /\ attempt'[c][j].startedAt = attempt[c][j].startedAt
          /\ attempt'[c][j].st = "renewed" => attempt[c][j].st = "renewed" \/ MayRenew(b)
    BY <1>9, CommitEffect
  <2>3. CASE MayRenew(b)
    <3>1. row'.expires = now + Lease /\ row.expires <= now + Lease /\ ~Revoked /\ ~Revoked'
      BY <1>9, <2>1, <2>3, CommitEffect, Constants DEF MayRenew, Revoked, Past
    <3>2. \A c \in Boots, j \in Kinds :
            /\ attempt'[c][j].startedAt \in Nat
            /\ attempt'[c][j].startedAt + Lease <= row'.expires
      BY <2>2, <3>1, Constants DEF Past, TypeOK, Attempt
    <3>3. \A c \in Boots : row.boot = c /\ row.status = "running" /\ Watching(c)
                             => watch[c].deadline <= row'.expires
      BY <3>1, Constants DEF Covered, TypeOK, Row
    <3>4. QED
      BY <2>1, <3>1, <3>2, <3>3 DEF Covered, Watching
  <2>4. CASE ~MayRenew(b)
    <3>1. row' = row
      BY <1>9, <2>4, CommitEffect
    <3>2. QED
      BY <2>1, <2>2, <2>4, <3>1 DEF Covered, Watching, Revoked
  <2>5. QED
    BY <2>3, <2>4
<1>10. ASSUME NEW b \in Boots, NEW k \in Kinds, AcceptRenewal(b, k) PROVE Covered'
  BY <1>10, Constants DEF AcceptRenewal, TypeOK, Row, Attempt, OneController, Uninvolved, Past, Covered, Revoked, Watching, Idle, Kinds
<1>11. ASSUME NEW b \in Boots, NEW k \in Kinds, LoseLease(b, k) PROVE Covered'
  BY <1>11, Constants DEF LoseLease, TypeOK, Row, Attempt, OneController, Uninvolved, Past, Covered, Revoked, Watching, Idle, Kinds
<1>12. ASSUME FailRevoked PROVE Covered'
  BY <1>12, Constants DEF FailRevoked, TypeOK, Row, Attempt, OneController, Uninvolved, Past, Covered, Revoked, Watching, Idle, Kinds
<1>13. ASSUME CancelRun PROVE Covered'
  BY <1>13, Constants DEF CancelRun, TypeOK, Row, Attempt, OneController, Uninvolved, Past, Covered, Revoked, Watching, Idle, Kinds
<1>14. ASSUME Tick PROVE Covered'
  BY <1>14, Constants DEF Tick, TypeOK, Row, Attempt, OneController, Uninvolved, Past, Covered, Revoked, Watching, Idle, Kinds
<1>15. CASE UNCHANGED vars
  BY <1>15 DEF vars, TypeOK, Row, Attempt, OneController, Uninvolved, Past, Covered, Revoked, Watching, Idle, Kinds
<1>16. QED
  BY <1>1, <1>2, <1>3, <1>4, <1>5, <1>6, <1>7, <1>8, <1>9, <1>10, <1>11, <1>12, <1>13, <1>14, <1>15 DEF Next

\* After the revocation the clock runs only until the covered deadline is late.
LEMMA RevokedStep == TypeOK /\ OneController /\ Covered /\ RevokedControllerStops /\ [Next]_vars => RevokedControllerStops'
<1> SUFFICES ASSUME TypeOK /\ OneController /\ Covered /\ RevokedControllerStops, [Next]_vars PROVE RevokedControllerStops'
  OBVIOUS
<1>1. ASSUME NEW b \in Boots, Claim(b) PROVE RevokedControllerStops'
  BY <1>1, Constants DEF Claim, TypeOK, Row, Attempt, OneController, Uninvolved, Covered, RevokedControllerStops, Revoked, Watching, Idle, Kinds
<1>2. ASSUME NEW b \in Boots, Revoke(b) PROVE RevokedControllerStops'
  BY <1>2, Constants DEF Revoke, TypeOK, Row, Attempt, OneController, Uninvolved, Covered, RevokedControllerStops, Revoked, Watching, Idle, Kinds, MayRevoke
<1>3. ASSUME NEW b \in Boots, DeadlinePassed(b) PROVE RevokedControllerStops'
  BY <1>3, Constants DEF DeadlinePassed, TypeOK, Row, Attempt, OneController, Uninvolved, Covered, RevokedControllerStops, Revoked, Watching, Idle, Kinds
<1>4. ASSUME NEW b \in Boots, EnterAdapter(b) PROVE RevokedControllerStops'
  BY <1>4, Constants DEF EnterAdapter, TypeOK, Row, Attempt, OneController, Uninvolved, Covered, RevokedControllerStops, Revoked, Watching, Idle, Kinds
<1>5. ASSUME NEW b \in Boots, FinishExecution(b) PROVE RevokedControllerStops'
  <2>1. /\ row'.boot = row.boot /\ revocation' = revocation /\ now' = now
        /\ \A c \in Boots : watch'[c].phase = "on" => watch[c].phase = "on"
    BY <1>5, FinishEffect
  <2>2. QED
    BY <2>1 DEF RevokedControllerStops, Revoked, Watching
<1>6. ASSUME NEW b \in Boots, Crash(b) PROVE RevokedControllerStops'
  BY <1>6, Constants DEF Crash, TypeOK, Row, Attempt, OneController, Uninvolved, Covered, RevokedControllerStops, Revoked, Watching, Idle, Kinds
<1>7. ASSUME NEW b \in Boots, NEW k \in Kinds, BeginRenewal(b, k) PROVE RevokedControllerStops'
  BY <1>7, Constants DEF BeginRenewal, TypeOK, Row, Attempt, OneController, Uninvolved, Covered, RevokedControllerStops, Revoked, Watching, Idle, Kinds
<1>8. ASSUME NEW b \in Boots, NEW k \in Kinds, RetryRenewal(b, k) PROVE RevokedControllerStops'
  BY <1>8, Constants DEF RetryRenewal, TypeOK, Row, Attempt, OneController, Uninvolved, Covered, RevokedControllerStops, Revoked, Watching, Idle, Kinds
<1>9. ASSUME NEW b \in Boots, NEW k \in Kinds, CommitRenewal(b, k) PROVE RevokedControllerStops'
  BY <1>9, Constants DEF CommitRenewal, TypeOK, Row, Attempt, OneController, Uninvolved, Covered, RevokedControllerStops, Revoked, Watching, Idle, Kinds, MayRenew
<1>10. ASSUME NEW b \in Boots, NEW k \in Kinds, AcceptRenewal(b, k) PROVE RevokedControllerStops'
  BY <1>10, Constants DEF AcceptRenewal, TypeOK, Row, Attempt, OneController, Uninvolved, Covered, RevokedControllerStops, Revoked, Watching, Idle, Kinds
<1>11. ASSUME NEW b \in Boots, NEW k \in Kinds, LoseLease(b, k) PROVE RevokedControllerStops'
  BY <1>11, Constants DEF LoseLease, TypeOK, Row, Attempt, OneController, Uninvolved, Covered, RevokedControllerStops, Revoked, Watching, Idle, Kinds
<1>12. ASSUME FailRevoked PROVE RevokedControllerStops'
  BY <1>12, Constants DEF FailRevoked, TypeOK, Row, Attempt, OneController, Uninvolved, Covered, RevokedControllerStops, Revoked, Watching, Idle, Kinds
<1>13. ASSUME CancelRun PROVE RevokedControllerStops'
  BY <1>13, Constants DEF CancelRun, TypeOK, Row, Attempt, OneController, Uninvolved, Covered, RevokedControllerStops, Revoked, Watching, Idle, Kinds
<1>14. ASSUME Tick PROVE RevokedControllerStops'
  BY <1>14, Constants DEF Tick, TypeOK, Row, Attempt, OneController, Uninvolved, Covered, RevokedControllerStops, Revoked, Watching, Idle, Kinds
<1>15. CASE UNCHANGED vars
  BY <1>15 DEF vars, TypeOK, Row, Attempt, OneController, Uninvolved, Covered, RevokedControllerStops, Revoked, Watching, Idle, Kinds
<1>16. QED
  BY <1>1, <1>2, <1>3, <1>4, <1>5, <1>6, <1>7, <1>8, <1>9, <1>10, <1>11, <1>12, <1>13, <1>14, <1>15 DEF Next

\* The stage is written with the renewal that admits the adapter, and by nobody else.
LEMMA DispatchedStep == TypeOK /\ OneController /\ Dispatched /\ [Next]_vars => Dispatched'
<1> SUFFICES ASSUME TypeOK /\ OneController /\ Dispatched, [Next]_vars PROVE Dispatched'
  OBVIOUS
<1>1. ASSUME NEW b \in Boots, Claim(b) PROVE Dispatched'
  BY <1>1, Constants DEF Claim, TypeOK, Row, Attempt, OneController, Uninvolved, Dispatched, Revoked, Watching, Idle, Kinds
<1>2. ASSUME NEW b \in Boots, Revoke(b) PROVE Dispatched'
  BY <1>2, Constants DEF Revoke, TypeOK, Row, Attempt, OneController, Uninvolved, Dispatched, Revoked, Watching, Idle, Kinds, MayRevoke
<1>3. ASSUME NEW b \in Boots, DeadlinePassed(b) PROVE Dispatched'
  BY <1>3, Constants DEF DeadlinePassed, TypeOK, Row, Attempt, OneController, Uninvolved, Dispatched, Revoked, Watching, Idle, Kinds
<1>4. ASSUME NEW b \in Boots, EnterAdapter(b) PROVE Dispatched'
  BY <1>4, Constants DEF EnterAdapter, TypeOK, Row, Attempt, OneController, Uninvolved, Dispatched, Revoked, Watching, Idle, Kinds
<1>5. ASSUME NEW b \in Boots, FinishExecution(b) PROVE Dispatched'
  <2>1. /\ row'.boot = row.boot /\ revocation' = revocation
        /\ row.boot = b \/ row'.stage = row.stage
        /\ row'.stage \in {row.stage, "settled"}
    BY <1>5, FinishEffect
  <2>2. Revoked' => revocation'.stage = row'.stage
    BY <2>1, Constants DEF Dispatched, Revoked
  <2>3. \A c \in Boots :
          watch'[c].entered \/ attempt'[c]["dispatch"].st \in {"renewed", "admitted"}
            => watch[c].entered \/ attempt[c]["dispatch"].st \in {"renewed", "admitted"}
    BY <1>5, FinishEffect DEF TypeOK, Idle, Kinds
  <2>4. QED
    BY <2>1, <2>2, <2>3 DEF Dispatched
<1>6. ASSUME NEW b \in Boots, Crash(b) PROVE Dispatched'
  BY <1>6, Constants DEF Crash, TypeOK, Row, Attempt, OneController, Uninvolved, Dispatched, Revoked, Watching, Idle, Kinds
<1>7. ASSUME NEW b \in Boots, NEW k \in Kinds, BeginRenewal(b, k) PROVE Dispatched'
  BY <1>7, Constants DEF BeginRenewal, TypeOK, Row, Attempt, OneController, Uninvolved, Dispatched, Revoked, Watching, Idle, Kinds
<1>8. ASSUME NEW b \in Boots, NEW k \in Kinds, RetryRenewal(b, k) PROVE Dispatched'
  BY <1>8, Constants DEF RetryRenewal, TypeOK, Row, Attempt, OneController, Uninvolved, Dispatched, Revoked, Watching, Idle, Kinds
<1>9. ASSUME NEW b \in Boots, NEW k \in Kinds, CommitRenewal(b, k) PROVE Dispatched'
  <2>1. row'.boot = row.boot /\ watch' = watch /\ revocation' = revocation
    BY <1>9, CommitEffect
  <2>2. Revoked' => revocation'.stage = row'.stage
    <3>1. Revoked' => Revoked /\ ~MayRenew(b)
      BY <2>1, Constants DEF Revoked, MayRenew
    <3>2. ~MayRenew(b) => row' = row
      BY <1>9, CommitEffect
    <3>3. QED
      BY <2>1, <3>1, <3>2 DEF Dispatched
  <2>3. row.stage \in {"dispatching", "settled"} => row'.stage \in {"dispatching", "settled"}
    BY <1>9, CommitEffect
  <2>4. ASSUME NEW c \in Boots,
               watch'[c].entered \/ attempt'[c]["dispatch"].st \in {"renewed", "admitted"}
        PROVE  row'.stage \in {"dispatching", "settled"}
    <3>1. \/ attempt'[c]["dispatch"].st = attempt[c]["dispatch"].st
          \/ attempt'[c]["dispatch"].st = "refused"
          \/ k = "dispatch" /\ MayRenew(b)
      BY <1>9, CommitEffect DEF Kinds
    <3>2. k = "dispatch" /\ MayRenew(b) => row'.stage = "dispatching"
      BY <1>9, CommitEffect
    <3>3. QED
      BY <2>1, <2>3, <2>4, <3>1, <3>2 DEF Dispatched
  <2>5. QED
    BY <2>2, <2>4 DEF Dispatched
<1>10. ASSUME NEW b \in Boots, NEW k \in Kinds, AcceptRenewal(b, k) PROVE Dispatched'
  BY <1>10, Constants DEF AcceptRenewal, TypeOK, Row, Attempt, OneController, Uninvolved, Dispatched, Revoked, Watching, Idle, Kinds
<1>11. ASSUME NEW b \in Boots, NEW k \in Kinds, LoseLease(b, k) PROVE Dispatched'
  BY <1>11, Constants DEF LoseLease, TypeOK, Row, Attempt, OneController, Uninvolved, Dispatched, Revoked, Watching, Idle, Kinds
<1>12. ASSUME FailRevoked PROVE Dispatched'
  BY <1>12, Constants DEF FailRevoked, TypeOK, Row, Attempt, OneController, Uninvolved, Dispatched, Revoked, Watching, Idle, Kinds
<1>13. ASSUME CancelRun PROVE Dispatched'
  BY <1>13, Constants DEF CancelRun, TypeOK, Row, Attempt, OneController, Uninvolved, Dispatched, Revoked, Watching, Idle, Kinds
<1>14. ASSUME Tick PROVE Dispatched'
  BY <1>14, Constants DEF Tick, TypeOK, Row, Attempt, OneController, Uninvolved, Dispatched, Revoked, Watching, Idle, Kinds
<1>15. CASE UNCHANGED vars
  BY <1>15 DEF vars, TypeOK, Row, Attempt, OneController, Uninvolved, Dispatched, Revoked, Watching, Idle, Kinds
<1>16. QED
  BY <1>1, <1>2, <1>3, <1>4, <1>5, <1>6, <1>7, <1>8, <1>9, <1>10, <1>11, <1>12, <1>13, <1>14, <1>15 DEF Next

\* The invariant holds in every state the run can reach.
THEOREM Invariance == Spec => []IInv
<1>1. IInv /\ [Next]_vars => IInv'
  BY TypeStep, OneControllerStep, PastStep, CoveredStep, RevokedStep, DispatchedStep DEF IInv
<1>2. QED
  BY Initially, <1>1, PTL DEF Spec

------------------------------------------------------------------------------
(* What follows.                                                               *)

\* The row, the watchers and the renewals keep their types.
THEOREM TypeCorrect == Spec => []TypeOK
<1>1. IInv => TypeOK
  BY DEF IInv
<1>2. QED
  BY Invariance, <1>1, PTL

\* A revoked controller trusts its lease no longer than its timer is late, for any
\* lease, lateness and number of processes.
THEOREM RevokedStops == Spec => []RevokedControllerStops
<1>1. IInv => RevokedControllerStops
  BY DEF IInv
<1>2. QED
  BY Invariance, <1>1, PTL

\* The local deadline never outlives the lease in the row, however renewals overlap.
THEOREM DeadlineCovered == Spec => []DeadlineCoveredByLease
<1>1. IInv => DeadlineCoveredByLease
  BY DEF IInv, Covered, DeadlineCoveredByLease
<1>2. QED
  BY Invariance, <1>1, PTL

\* A run revoked while it was preparing was never handed to the adapter, and never
\* will be: this is what makes its retry safe.
THEOREM PreparingSafe == Spec => []PreparingProvesNoWork
<1>1. IInv => PreparingProvesNoWork
  BY DEF IInv, Dispatched, PreparingProvesNoWork
<1>2. QED
  BY Invariance, <1>1, PTL

\* No step moves the stage of a revoked run.
THEOREM StageFrozen == Spec => StageFrozenByRevocation
<1>1. IInv /\ [Next]_vars => [Revoked => row'.stage = row.stage]_vars
  <2> SUFFICES ASSUME IInv, Next, Revoked PROVE row'.stage = row.stage
    BY DEF vars
  <2>1. TypeOK /\ row.status # "queued"
    BY Constants DEF IInv, OneController, Revoked
  <2>2. \A b \in Boots : ~MayRenew(b)
    BY Constants DEF MayRenew, Revoked
  <2>3. CASE \E b \in Boots : Claim(b)
    BY <2>1, <2>3 DEF Claim
  <2>4. CASE \E b \in Boots, k \in Kinds : CommitRenewal(b, k)
    BY <2>2, <2>4 DEF CommitRenewal
  <2>5. CASE \E b \in Boots : Revoke(b) \/ FinishExecution(b)
    <3>1. \A b \in Boots : row.boot # b
      BY Constants DEF Revoked
    <3>2. CASE \E b \in Boots : Revoke(b)
      BY <2>1, <3>2 DEF Revoke, TypeOK, Row
    <3>3. CASE \E b \in Boots : FinishExecution(b)
      BY <2>1, <3>1, <3>3, FinishEffect
    <3>4. QED
      BY <2>5, <3>2, <3>3
  <2>6. CASE FailRevoked \/ CancelRun
    BY <2>1, <2>6 DEF FailRevoked, CancelRun, TypeOK, Row
  <2>7. CASE row' = row
    BY <2>7
  <2>8. QED
    BY <2>3, <2>4, <2>5, <2>6, <2>7 DEF Next, DeadlinePassed, EnterAdapter, Crash,
       BeginRenewal, RetryRenewal, AcceptRenewal, LoseLease, Tick
<1>2. QED
  BY Invariance, <1>1, PTL DEF Spec, StageFrozenByRevocation
==============================================================================
