----------------------------- MODULE MessageProofs -----------------------------
(***************************************************************************)
(* Proofs about the messages of IssueExecution: that none is given to two    *)
(* executions, that none is lost while the issue keeps its assignee, and     *)
(* whose run an issue executes.  They strengthen the invariant of            *)
(* IssueExecutionProofs.                                                     *)
(***************************************************************************)
EXTENDS IssueExecutionProofs

------------------------------------------------------------------------------
(* What the steps of one run change.                                          *)

\* An active run r takes a step with its own wake; it gets no further message.
Turn(r) ==
  /\ Active(r) /\ Sound(run, wake)'
  /\ wake[run[r].wake].st \in {"queued", "claimed"} /\ wake[run[r].wake].run = r
  /\ \A q \in Rows \ {r} : run'[q] = run[q]
  /\ \A w \in Rows \ {run[r].wake} : wake'[w] = wake[w]
  /\ run'[r].wake = run[r].wake /\ run'[r].of = run[r].of /\ run'[r].agent = run[r].agent
  /\ run'[r].ctx \subseteq run[r].ctx /\ (run[r].stopped => run'[r].stopped)
  /\ wake'[run[r].wake].run = r /\ wake'[run[r].wake].agent = wake[run[r].wake].agent
  /\ wake'[run[r].wake].msg = wake[run[r].wake].msg
  /\ wake'[run[r].wake].env \subseteq wake[run[r].wake].env
  /\ wake'[run[r].wake].st \notin {"none", "deferred", "coalesced"}
\* It only changes its status.
PlainTurn(r) ==
  /\ Turn(r) /\ run'[r].ctx = run[r].ctx
  /\ wake'[run[r].wake].env = wake[run[r].wake].env

\* The own wake of an active run.
LEMMA OwnWakeOf ==
  ASSUME IInv, NEW r \in Rows, Active(r)
  PROVE  /\ run \in RunRows /\ wake \in WakeRows
         /\ run[r] \in RunRecord /\ run[r].wake \in Rows /\ wake[run[r].wake] \in WakeRecord
         /\ wake[run[r].wake].st \in {"queued", "claimed"} /\ wake[run[r].wake].run = r
         /\ wake[run[r].wake].env \subseteq run[r].ctx
         /\ Waiting(r) => wake[run[r].wake].st = "queued"
<1>1. /\ run \in RunRows /\ wake \in WakeRows
      /\ run[r] \in RunRecord /\ run[r].wake \in Rows /\ wake[run[r].wake] \in WakeRecord
  BY DEF IInv, Sound, RunRows, WakeRows, RunRecord
<1>2. /\ wake[run[r].wake].st \in {"queued", "claimed"} /\ wake[run[r].wake].run = r
      /\ Waiting(r) => wake[run[r].wake].st = "queued"
  BY DEF IInv, Sound, OwnWake, Active, Waiting, Waits
<1>3. wake[run[r].wake].env \subseteq run[r].ctx
  BY <1>1, <1>2 DEF IInv, Sound, Enclosed
<1>4. QED
  BY <1>1, <1>2, <1>3

\* Only the status of a run is written.
LEMMA StatusWritten ==
  ASSUME IInv, NEW r \in Rows, NEW x, run' = [run EXCEPT ![r].st = x]
  PROVE  /\ \A q \in Rows \ {r} : run'[q] = run[q]
         /\ run'[r].st = x /\ run'[r].wake = run[r].wake /\ run'[r].of = run[r].of
         /\ run'[r].agent = run[r].agent /\ run'[r].ctx = run[r].ctx
         /\ run'[r].started = run[r].started /\ run'[r].stopped = run[r].stopped
<1>1. run \in RunRows /\ run[r] \in RunRecord
  BY DEF IInv, Sound, RunRows
<1>2. (\A q \in Rows \ {r} : run'[q] = run[q]) /\ run'[r] = [run[r] EXCEPT !.st = x]
  BY <1>1 DEF RunRows
<1>3. QED
  BY <1>1, <1>2 DEF RunRecord

\* An active run ends, and so does its own wake.
LEMMA EndTurn ==
  ASSUME IInv, NEW r \in Rows, Active(r), Sound(run, wake)',
         NEW y \in {"completed", "skipped", "failed", "cancelled"},
         wake' = [wake EXCEPT ![run[r].wake].st = y],
         \A q \in Rows \ {r} : run'[q] = run[q],
         run'[r].wake = run[r].wake, run'[r].of = run[r].of,
         run'[r].agent = run[r].agent, run'[r].ctx = run[r].ctx,
         run[r].stopped => run'[r].stopped
  PROVE  PlainTurn(r) /\ wake'[run[r].wake].st = y
<1>1. /\ wake \in WakeRows /\ run[r].wake \in Rows /\ wake[run[r].wake] \in WakeRecord
      /\ wake[run[r].wake].st \in {"queued", "claimed"} /\ wake[run[r].wake].run = r
  BY OwnWakeOf
<1>2. /\ \A w \in Rows \ {run[r].wake} : wake'[w] = wake[w]
      /\ wake'[run[r].wake] = [wake[run[r].wake] EXCEPT !.st = y]
  BY <1>1 DEF WakeRows
<1>3. /\ wake'[run[r].wake].st = y /\ wake'[run[r].wake].run = wake[run[r].wake].run
      /\ wake'[run[r].wake].msg = wake[run[r].wake].msg
      /\ wake'[run[r].wake].agent = wake[run[r].wake].agent
      /\ wake'[run[r].wake].env = wake[run[r].wake].env
  BY <1>1, <1>2 DEF WakeRecord
<1>4. QED
  BY <1>1, <1>2, <1>3 DEF Turn, PlainTurn

LEMMA CancelRowsTurn ==
  ASSUME IInv, NEW r \in Rows, Waiting(r), NEW y \in {"skipped", "cancelled"}, CancelRows(r, y)
  PROVE  /\ PlainTurn(r) /\ run'[r].st = "cancelled" /\ run'[r].stopped = run[r].stopped
         /\ wake'[run[r].wake].st = y
<1>1. Active(r) /\ Sound(run, wake)'
  BY CancelRowsStep DEF Active
<1>2. /\ \A q \in Rows \ {r} : run'[q] = run[q]
      /\ run'[r].st = "cancelled" /\ run'[r].wake = run[r].wake /\ run'[r].of = run[r].of
      /\ run'[r].agent = run[r].agent /\ run'[r].ctx = run[r].ctx
      /\ run'[r].stopped = run[r].stopped
  BY StatusWritten DEF CancelRows
<1>3. wake' = [wake EXCEPT ![run[r].wake].st = y]
  BY DEF CancelRows
<1>4. y \in {"completed", "skipped", "failed", "cancelled"}
  OBVIOUS
<1>5. run[r].stopped => run'[r].stopped
  BY <1>2, Zenon
<1>6. PlainTurn(r) /\ wake'[run[r].wake].st = y
  BY <1>1, <1>2, <1>3, <1>4, <1>5, EndTurn
<1>7. QED
  BY <1>2, <1>6

LEMMA FinishTurn ==
  ASSUME IInv, NEW r \in Rows, NEW outcome \in {"succeeded", "failed"}, Finish(r, outcome)
  PROVE  /\ PlainTurn(r) /\ run[r].st = "running" /\ run'[r].st = outcome
         /\ run'[r].started /\ run'[r].stopped = run[r].stopped
<1> DEFINE y == IF outcome = "succeeded" THEN "completed" ELSE "failed"
<1>1. /\ Active(r) /\ y \in {"completed", "skipped", "failed", "cancelled"}
      /\ run[r].st = "running" /\ run[r].started
  BY DEF IInv, Finish, Active, Sound, Chained
<1>2. wake' = [wake EXCEPT ![run[r].wake].st = y] /\ Sound(run, wake)'
  BY <1>1, WakeSetWritten, FinishStep DEF Finish, IInv
<1>3. /\ \A q \in Rows \ {r} : run'[q] = run[q]
      /\ run'[r].st = outcome /\ run'[r].wake = run[r].wake /\ run'[r].of = run[r].of
      /\ run'[r].agent = run[r].agent /\ run'[r].ctx = run[r].ctx
      /\ run'[r].stopped = run[r].stopped /\ run'[r].started = run[r].started
  BY StatusWritten DEF Finish
<1> HIDE DEF y
<1>4. QED
  BY <1>1, <1>2, <1>3, EndTurn

LEMMA ReapTurn ==
  ASSUME IInv, NEW r \in Rows, Reap(r)
  PROVE  /\ PlainTurn(r) /\ run[r].st = "running" /\ run'[r].st = "failed"
         /\ run'[r].started /\ run'[r].stopped = run[r].stopped
<1>1. Active(r) /\ run[r].st = "running" /\ run[r].started
  BY DEF IInv, Reap, Active, Sound, Chained
<1>2. wake' = [wake EXCEPT ![run[r].wake].st = "failed"] /\ Sound(run, wake)'
  BY <1>1, WakeSetWritten, ReapStep DEF Reap, IInv
<1>3. /\ \A q \in Rows \ {r} : run'[q] = run[q]
      /\ run'[r].st = "failed" /\ run'[r].wake = run[r].wake /\ run'[r].of = run[r].of
      /\ run'[r].agent = run[r].agent /\ run'[r].ctx = run[r].ctx
      /\ run'[r].stopped = run[r].stopped /\ run'[r].started = run[r].started
  BY StatusWritten DEF Reap
<1>4. QED
  BY <1>1, <1>2, <1>3, EndTurn

LEMMA CancelTurn ==
  ASSUME IInv, NEW r \in Rows, Cancel(r)
  PROVE  PlainTurn(r) /\ run'[r].st = "cancelled" /\ run'[r].stopped
<1>1. /\ Active(r) /\ wake' = [wake EXCEPT ![run[r].wake].st = "cancelled"]
      /\ Sound(run, wake)'
  BY WakeSetWritten, CancelStep DEF Cancel
<1>2. run' = [run EXCEPT ![r].st = "cancelled", ![r].stopped = TRUE]
  BY DEF Cancel
<1>3. run \in RunRows /\ run[r] \in RunRecord
  BY DEF IInv, Sound, RunRows
<1>4. /\ \A q \in Rows \ {r} : run'[q] = run[q]
      /\ run'[r] = [run[r] EXCEPT !.st = "cancelled", !.stopped = TRUE]
  BY <1>2, <1>3 DEF RunRows
<1>5. /\ run'[r].st = "cancelled" /\ run'[r].wake = run[r].wake /\ run'[r].of = run[r].of
      /\ run'[r].agent = run[r].agent /\ run'[r].ctx = run[r].ctx /\ run'[r].stopped
  BY <1>3, <1>4 DEF RunRecord
<1>6. QED
  BY <1>1, <1>4, <1>5, EndTurn

LEMMA StampTurn ==
  ASSUME IInv, NEW r \in Rows, StampClaim(r)
  PROVE  PlainTurn(r) /\ run' = run /\ run[r].st = "running"
<1>1. Active(r) /\ run[r].st = "running" /\ run' = run
  BY DEF IInv, Driven, StampClaim, Active
<1>2. /\ run \in RunRows /\ wake \in WakeRows
      /\ run[r] \in RunRecord /\ run[r].wake \in Rows /\ wake[run[r].wake] \in WakeRecord
      /\ wake[run[r].wake].st \in {"queued", "claimed"} /\ wake[run[r].wake].run = r
  BY <1>1, OwnWakeOf
<1>3. wake' = [wake EXCEPT ![run[r].wake].st = "claimed"]
  BY <1>1, WakeSetWritten DEF StampClaim
<1>4. /\ \A w \in Rows \ {run[r].wake} : wake'[w] = wake[w]
      /\ wake'[run[r].wake] = [wake[run[r].wake] EXCEPT !.st = "claimed"]
  BY <1>2, <1>3 DEF WakeRows
<1>5. /\ wake'[run[r].wake].st = "claimed" /\ wake'[run[r].wake].run = wake[run[r].wake].run
      /\ wake'[run[r].wake].msg = wake[run[r].wake].msg
      /\ wake'[run[r].wake].agent = wake[run[r].wake].agent
      /\ wake'[run[r].wake].env = wake[run[r].wake].env
  BY <1>2, <1>4 DEF WakeRecord
<1>6. Sound(run, wake)'
  BY StampClaimStep DEF IInv
<1>7. QED
  BY <1>1, <1>2, <1>4, <1>5, <1>6 DEF Turn, PlainTurn

LEMMA ReleaseClaimTurn ==
  ASSUME IInv, NEW r \in Rows, ReleaseClaim(r)
  PROVE  /\ PlainTurn(r) /\ run[r].st = "running" /\ run'[r].st = "queued"
         /\ run'[r].stopped = run[r].stopped
<1>1. Active(r) /\ run[r].st = "running"
  BY DEF ReleaseClaim, Active
<1>2. /\ run \in RunRows /\ wake \in WakeRows
      /\ run[r] \in RunRecord /\ run[r].wake \in Rows /\ wake[run[r].wake] \in WakeRecord
      /\ wake[run[r].wake].st \in {"queued", "claimed"} /\ wake[run[r].wake].run = r
  BY <1>1, OwnWakeOf
<1>3. /\ wake' = [wake EXCEPT ![run[r].wake].st = "queued"]
      /\ run' = [run EXCEPT ![r].st = "queued", ![r].started = FALSE]
  BY <1>1, WakeSetWritten DEF ReleaseClaim
<1>4. /\ \A w \in Rows \ {run[r].wake} : wake'[w] = wake[w]
      /\ wake'[run[r].wake] = [wake[run[r].wake] EXCEPT !.st = "queued"]
      /\ \A q \in Rows \ {r} : run'[q] = run[q]
      /\ run'[r] = [run[r] EXCEPT !.st = "queued", !.started = FALSE]
  BY <1>2, <1>3 DEF WakeRows, RunRows
<1>5. /\ wake'[run[r].wake].st = "queued" /\ wake'[run[r].wake].run = wake[run[r].wake].run
      /\ wake'[run[r].wake].msg = wake[run[r].wake].msg
      /\ wake'[run[r].wake].agent = wake[run[r].wake].agent
      /\ wake'[run[r].wake].env = wake[run[r].wake].env
  BY <1>2, <1>4 DEF WakeRecord
<1>6. /\ run'[r].st = "queued" /\ run'[r].wake = run[r].wake /\ run'[r].of = run[r].of
      /\ run'[r].agent = run[r].agent /\ run'[r].ctx = run[r].ctx
      /\ run'[r].stopped = run[r].stopped
  BY <1>2, <1>4 DEF RunRecord
<1>7. Sound(run, wake)'
  BY ReleaseClaimStep DEF IInv
<1>8. QED
  BY <1>1, <1>2, <1>4, <1>5, <1>6, <1>7 DEF Turn, PlainTurn

\* A retry that is due and allowed.
LEMMA DueTurn ==
  ASSUME IInv, NEW r \in Rows, PromoteRetry(r), run' = [run EXCEPT ![r].st = "queued"], wake' = wake
  PROVE  PlainTurn(r) /\ run'[r].st = "queued" /\ run'[r].stopped = run[r].stopped
<1>1. Active(r)
  BY DEF PromoteRetry, Active, Waiting
<1>2. /\ run \in RunRows /\ run[r] \in RunRecord
      /\ wake[run[r].wake].st \in {"queued", "claimed"} /\ wake[run[r].wake].run = r
  BY <1>1, OwnWakeOf
<1>3. /\ \A q \in Rows \ {r} : run'[q] = run[q]
      /\ run'[r] = [run[r] EXCEPT !.st = "queued"]
  BY <1>2 DEF RunRows
<1>4. /\ run'[r].st = "queued" /\ run'[r].wake = run[r].wake /\ run'[r].of = run[r].of
      /\ run'[r].agent = run[r].agent /\ run'[r].ctx = run[r].ctx
      /\ run'[r].stopped = run[r].stopped
  BY <1>2, <1>3 DEF RunRecord
<1>5. Sound(run, wake)'
  BY PromoteRetryStep DEF IInv
<1>6. QED
  BY <1>1, <1>2, <1>3, <1>4, <1>5 DEF Turn, PlainTurn

LEMMA TakeRunTurn ==
  ASSUME IInv, NEW r \in Rows, Claimable(r), TakeRun(r)
  PROVE  /\ Turn(r) /\ run[r].st = "queued" /\ run'[r].st = "running" /\ run'[r].started
         /\ run'[r].stopped = run[r].stopped
         /\ \/ run'[r].ctx = run[r].ctx /\ wake'[run[r].wake].env = wake[run[r].wake].env
            \/ /\ wake[run[r].wake].env # {}
               /\ run'[r].ctx = LiveIds(wake[run[r].wake].env)
               /\ wake'[run[r].wake].env = LiveIds(wake[run[r].wake].env)
<1> DEFINE w == run[r].wake
           enveloped == run[r].ctx # {} /\ wake[w].env # {}
           ids == LiveIds(wake[w].env)
<1>1. Active(r) /\ run[r].st = "queued"
  BY DEF Claimable, Active, Waiting
<1>2. /\ run \in RunRows /\ wake \in WakeRows
      /\ run[r] \in RunRecord /\ w \in Rows /\ wake[w] \in WakeRecord
      /\ wake[w].st \in {"queued", "claimed"} /\ wake[w].run = r
      /\ wake[w].env \subseteq run[r].ctx
  BY <1>1, OwnWakeOf
<1>3. ids \subseteq wake[w].env
  BY DEF LiveIds
<1>4. run' = [run EXCEPT ![r].st = "running", ![r].started = TRUE,
                         ![r].ctx = IF enveloped THEN ids ELSE @]
  BY DEF TakeRun
<1>5. wake' = IF enveloped THEN [wake EXCEPT ![w].st = "claimed", ![w].env = ids] ELSE wake
  BY DEF TakeRun
<1>6. Sound(run, wake)'
  BY TakeRunStep
<1>7. (enveloped => wake[w].env # {})
  OBVIOUS
<1> HIDE DEF enveloped, ids, w
<1>8. /\ \A q \in Rows \ {r} : run'[q] = run[q]
      /\ run'[r] = [run[r] EXCEPT !.st = "running", !.started = TRUE,
                                  !.ctx = IF enveloped THEN ids ELSE @]
      /\ \A v \in Rows \ {w} : wake'[v] = wake[v]
      /\ wake'[w] = IF enveloped THEN [wake[w] EXCEPT !.st = "claimed", !.env = ids] ELSE wake[w]
  BY <1>2, <1>4, <1>5 DEF RunRows, WakeRows
<1>9. /\ run'[r].st = "running" /\ run'[r].started /\ run'[r].stopped = run[r].stopped
      /\ run'[r].wake = w /\ run'[r].of = run[r].of /\ run'[r].agent = run[r].agent
      /\ run'[r].ctx = IF enveloped THEN ids ELSE run[r].ctx
  BY <1>2, <1>8 DEF RunRecord, w
<1>10. /\ wake'[w].st = (IF enveloped THEN "claimed" ELSE wake[w].st)
       /\ wake'[w].run = wake[w].run /\ wake'[w].agent = wake[w].agent
       /\ wake'[w].msg = wake[w].msg
       /\ wake'[w].env = (IF enveloped THEN ids ELSE wake[w].env)
  BY <1>2, <1>8 DEF WakeRecord
<1>11. Turn(r)
  BY <1>1, <1>2, <1>3, <1>6, <1>8, <1>9, <1>10 DEF Turn, w
<1>12. QED
  BY <1>1, <1>7, <1>9, <1>10, <1>11 DEF w, ids

\* A message leaves a saved wake, or the wake of a queued run with its run.
LEMMA DiscardEffect ==
  ASSUME IInv, NEW c \in Comments, NEW w \in QueueOf(c), DiscardFrom(w, c)
  PROVE  LET ids == wake[w].env \ {c}
             r   == wake[w].run
         IN  /\ w \in Rows /\ c \in wake[w].env
             /\ \/ /\ wake[w].st = "deferred" /\ UNCHANGED <<issue, run>>
                   /\ \A v \in Rows \ {w} : wake'[v] = wake[v]
                   /\ wake'[w].run = wake[w].run /\ wake'[w].msg = wake[w].msg
                   /\ wake'[w].agent = wake[w].agent /\ wake'[w].kind = wake[w].kind
                   /\ wake'[w].env = ids
                   /\ wake'[w].st = IF ids = {} THEN "cancelled" ELSE "deferred"
                \/ /\ r \in Rows /\ run[r].wake = w /\ Turn(r) /\ run[r].st = "queued"
                   /\ run'[r].stopped = run[r].stopped
                   /\ wake'[w].env = ids
                   /\ \/ /\ ids = {} /\ run'[r].st = "cancelled" /\ run'[r].ctx = run[r].ctx
                         /\ wake'[w].st = "cancelled" /\ issue' = Unlocked(r)
                      \/ /\ ids # {} /\ run'[r].st = "queued" /\ run'[r].ctx = ids
                         /\ wake'[w].st = "queued" /\ issue' = issue
<1> DEFINE ids == wake[w].env \ {c}
           r   == wake[w].run
<1>1. /\ Sound(run, wake) /\ run \in RunRows /\ wake \in WakeRows /\ w \in Rows
      /\ wake[w] \in WakeRecord /\ ids \in SUBSET Comments /\ r \in Rows \cup {None}
      /\ c \in wake[w].env
  BY DEF IInv, Sound, QueueOf, WakeRows, WakeRecord
<1>2. /\ wake' = [wake EXCEPT ![w].env = ids, ![w].st = IF ids = {} THEN "cancelled" ELSE @]
      /\ run' = IF r = None THEN run
                ELSE [run EXCEPT ![r].ctx = IF ids = {} THEN @ ELSE ids,
                                 ![r].st = IF ids = {} THEN "cancelled" ELSE @]
      /\ issue' = IF r # None /\ ids = {} THEN Unlocked(r) ELSE issue
  BY DEF DiscardFrom
<1>3. Pending(w) /\ Sound(run, wake)'
  BY DiscardStep DEF QueueOf
<1>4. wake[w].st = "deferred" => r = None
  BY <1>1 DEF Sound, OwnRun
<1>5. r # None => wake[w].st = "queued" /\ run[r].st = "queued" /\ run[r].wake = w
  BY <1>1, <1>3, <1>4 DEF Pending, Sound, OwnRun
<1>6. ids \subseteq wake[w].env
  OBVIOUS
<1> HIDE DEF ids, r
<1>7. /\ \A v \in Rows \ {w} : wake'[v] = wake[v]
      /\ wake'[w] = [wake[w] EXCEPT !.env = ids, !.st = IF ids = {} THEN "cancelled" ELSE @]
  BY <1>1, <1>2 DEF WakeRows
<1>8. /\ wake'[w].run = wake[w].run /\ wake'[w].msg = wake[w].msg
      /\ wake'[w].agent = wake[w].agent /\ wake'[w].kind = wake[w].kind
      /\ wake'[w].env = ids
      /\ wake'[w].st = IF ids = {} THEN "cancelled" ELSE wake[w].st
  BY <1>1, <1>7 DEF WakeRecord
<1>9. CASE r = None
  <2>1. UNCHANGED <<issue, run>> /\ wake[w].st = "deferred"
    BY <1>2, <1>3, <1>9 DEF Pending, r
  <2>2. QED
    BY <1>1, <1>7, <1>8, <2>1 DEF ids, r
<1>10. CASE r # None
  <2>1. r \in Rows /\ run[r] \in RunRecord /\ Active(r)
    BY <1>1, <1>5, <1>10 DEF RunRows, Active, Waiting
  <2>2. /\ \A q \in Rows \ {r} : run'[q] = run[q]
        /\ run'[r] = [run[r] EXCEPT !.ctx = IF ids = {} THEN @ ELSE ids,
                                    !.st = IF ids = {} THEN "cancelled" ELSE @]
    BY <1>1, <1>2, <1>10, <2>1 DEF RunRows
  <2>3. /\ run'[r].wake = run[r].wake /\ run'[r].of = run[r].of /\ run'[r].agent = run[r].agent
        /\ run'[r].stopped = run[r].stopped
        /\ run'[r].ctx = (IF ids = {} THEN run[r].ctx ELSE ids)
        /\ run'[r].st = (IF ids = {} THEN "cancelled" ELSE run[r].st)
    BY <2>1, <2>2 DEF RunRecord
  <2>4. wake[w].env \subseteq run[r].ctx /\ wake[w].run = r
    BY <1>5, <1>10, <2>1, OwnWakeOf
  <2>5. Turn(r)
    <3>1. run[r].wake = w /\ wake[w].st = "queued" /\ wake'[w].st \in {"queued", "cancelled"}
      BY <1>5, <1>8, <1>10
    <3>2. run'[r].ctx \subseteq run[r].ctx /\ wake'[w].env \subseteq wake[w].env
      BY <1>6, <1>8, <2>3, <2>4
    <3>3. /\ \A q \in Rows \ {r} : run'[q] = run[q]
          /\ \A v \in Rows \ {w} : wake'[v] = wake[v]
      BY <1>7, <2>2
    <3>4. run[r].stopped => run'[r].stopped
      BY <2>3, Zenon
    <3>5. QED
      BY <1>3, <1>8, <2>1, <2>3, <2>4, <3>1, <3>2, <3>3, <3>4 DEF Turn
  <2>6. \/ ids = {} /\ issue' = Unlocked(r)
        \/ ids # {} /\ issue' = issue
    <3>1. issue' = IF r # None /\ ids = {} THEN Unlocked(r) ELSE issue
      BY <1>2, Zenon
    <3>2. QED
      BY <1>10, <3>1
  <2>7. QED
    BY <1>1, <1>5, <1>8, <1>10, <2>1, <2>3, <2>5, <2>6 DEF ids, r
<1>11. QED
  BY <1>9, <1>10

\* Out of a saved wake, the comment goes and nothing else happens.
LEMMA DiscardSaved ==
  ASSUME IInv, NEW c \in Comments, NEW w \in QueueOf(c), DiscardFrom(w, c),
         wake[w].st = "deferred"
  PROVE  /\ w \in Rows /\ issue' = issue /\ run' = run
         /\ \A v \in Rows \ {w} : wake'[v] = wake[v]
         /\ wake'[w].run = wake[w].run /\ wake'[w].msg = wake[w].msg
         /\ wake'[w].agent = wake[w].agent /\ wake'[w].kind = wake[w].kind
         /\ wake'[w].env = wake[w].env \ {c}
         /\ wake'[w].st = IF wake[w].env \ {c} = {} THEN "cancelled" ELSE "deferred"
<1>1. w \in Rows /\ (wake[w].run \in Rows => wake[w].run # None)
  BY RowsAreNumbers DEF QueueOf
<1>2. wake[w].run = None
  BY <1>1 DEF IInv, Sound, OwnRun
<1>3. ~(wake[w].run \in Rows)
  BY <1>1, <1>2
<1>4. QED
  BY <1>3, DiscardEffect


------------------------------------------------------------------------------
(* No message is given twice.                                                 *)

\* A message that a run shares with an earlier one is that of the run it continues.
Unshared(rn) ==
  \A q, r \in Rows : q < r =>
    \A c \in rn[q].ctx \cap rn[r].ctx : rn[r].of # None /\ c \in rn[rn[r].of].ctx

\* The tables hold messages of T only, and a saved one in one place only.
Places(rn, wk, T) ==
  /\ \A w \in Rows : wk[w].env \subseteq T /\ wk[w].msg \subseteq T
  /\ \A r \in Rows : rn[r].ctx \subseteq T
  /\ \A w \in Rows : wk[w].st = "deferred" =>
       \A c \in wk[w].env : /\ \A v \in Rows : wk[v].st = "deferred" /\ c \in wk[v].env => v = w
                            /\ \A r \in Rows : c \notin rn[r].ctx
Single(rn, wk, T) == Places(rn, wk, T) /\ Unshared(rn)

\* Runs and wakes only forget messages, and a run that ended forgets none.
LEMMA FewerMessages ==
  ASSUME NEW rn, NEW wk, Sound(rn, wk), NEW T, NEW T2, T \subseteq T2, Single(rn, wk, T),
         NEW rn2, NEW wk2,
         \A r \in Rows : /\ rn2[r].of = rn[r].of /\ rn2[r].ctx \subseteq rn[r].ctx
                         /\ Over(rn[r]) => rn2[r].ctx = rn[r].ctx,
         \A w \in Rows : /\ wk2[w].env \subseteq wk[w].env /\ wk2[w].msg \subseteq wk[w].msg
                         /\ wk2[w].st = "deferred" => wk[w].st = "deferred"
  PROVE  Single(rn2, wk2, T2)
<1>1. Places(rn2, wk2, T2)
  BY DEF Single, Places
<1>2. ASSUME NEW q \in Rows, NEW r \in Rows, q < r, NEW c \in rn2[q].ctx \cap rn2[r].ctx
      PROVE  rn2[r].of # None /\ c \in rn2[rn2[r].of].ctx
  <2>1. c \in rn[q].ctx \cap rn[r].ctx
    OBVIOUS
  <2>2. rn[r].of # None /\ c \in rn[rn[r].of].ctx
    BY <1>2, <2>1 DEF Single, Unshared
  <2>3. rn[r].of \in Rows /\ Over(rn[rn[r].of])
    BY <2>2, SoundReferences DEF References, Sound, Chained
  <2>4. QED
    BY <2>2, <2>3
<1>3. QED
  BY <1>1, <1>2 DEF Single, Unshared

\* New messages cs join an active run.
Joining(cs, rn, wk, rn2, wk2) ==
  \E h \in Rows, w \in Rows :
    /\ ~Over(rn[h]) /\ \A r \in Rows \ {h} : rn2[r] = rn[r]
    /\ rn2[h].of = rn[h].of /\ rn2[h].ctx = rn[h].ctx \cup cs
    /\ \A v \in Rows \ {w} : wk2[v] = wk[v]
    /\ wk2[w].st # "deferred" /\ wk2[w].env = {} /\ wk2[w].msg \subseteq cs

LEMMA JoinedMessages ==
  ASSUME NEW rn, NEW wk, Sound(rn, wk), NEW T, NEW cs, cs \cap T = {}, Single(rn, wk, T),
         NEW rn2, NEW wk2, Joining(cs, rn, wk, rn2, wk2)
  PROVE  Single(rn2, wk2, T \cup cs)
<1>0. PICK h \in Rows, w \in Rows :
        /\ ~Over(rn[h]) /\ \A r \in Rows \ {h} : rn2[r] = rn[r]
        /\ rn2[h].of = rn[h].of /\ rn2[h].ctx = rn[h].ctx \cup cs
        /\ \A v \in Rows \ {w} : wk2[v] = wk[v]
        /\ wk2[w].st # "deferred" /\ wk2[w].env = {} /\ wk2[w].msg \subseteq cs
  BY DEF Joining
<1> USE <1>0
<1>1. Places(rn2, wk2, T \cup cs)
  <2>1. \A v \in Rows : wk2[v].env \subseteq T \cup cs /\ wk2[v].msg \subseteq T \cup cs
    BY DEF Single, Places
  <2>2. \A r \in Rows : rn2[r].ctx \subseteq T \cup cs
    BY DEF Single, Places
  <2>3. ASSUME NEW u \in Rows, wk2[u].st = "deferred", NEW c \in wk2[u].env
        PROVE  /\ \A v \in Rows : wk2[v].st = "deferred" /\ c \in wk2[v].env => v = u
               /\ \A r \in Rows : c \notin rn2[r].ctx
    <3>1. wk2[u] = wk[u] /\ c \in wk[u].env /\ wk[u].st = "deferred" /\ c \in T
      BY <2>3 DEF Single, Places
    <3>2. \A v \in Rows : wk2[v].st = "deferred" /\ c \in wk2[v].env => v = u
      BY <3>1 DEF Single, Places
    <3>3. \A r \in Rows : c \notin rn2[r].ctx
      BY <3>1 DEF Single, Places
    <3>4. QED
      BY <3>2, <3>3
  <2>4. QED
    BY <2>1, <2>2, <2>3 DEF Places
<1>2. ASSUME NEW q \in Rows, NEW r \in Rows, q < r, NEW c \in rn2[q].ctx \cap rn2[r].ctx
      PROVE  rn2[r].of # None /\ c \in rn2[rn2[r].of].ctx
  <2>1. q # r
    BY <1>2, RowsAreNumbers
  <2>2. c \in rn[q].ctx \cap rn[r].ctx
    BY <2>1 DEF Single, Places
  <2>3. rn[r].of # None /\ c \in rn[rn[r].of].ctx
    BY <1>2, <2>2 DEF Single, Unshared
  <2>4. rn[r].of \in Rows /\ Over(rn[rn[r].of])
    BY <2>3, SoundReferences DEF References, Sound, Chained
  <2>5. QED
    BY <2>3, <2>4
<1>3. QED
  BY <1>1, <1>2 DEF Single, Unshared

\* New messages cs are saved in one wake.
Saving(cs, wk, wk2) ==
  \E w \in Rows :
    /\ \A v \in Rows \ {w} : wk2[v] = wk[v]
    /\ \/ wk[w].st = "deferred" /\ wk2[w].env = wk[w].env \cup cs
       \/ wk2[w].env = cs
    /\ wk2[w].msg \subseteq wk[w].msg \cup cs

LEMMA SavedMessages ==
  ASSUME NEW rn, NEW wk, NEW T, NEW cs, cs \cap T = {}, Single(rn, wk, T),
         NEW wk2, Saving(cs, wk, wk2)
  PROVE  Single(rn, wk2, T \cup cs)
<1>0. PICK w \in Rows :
         /\ \A v \in Rows \ {w} : wk2[v] = wk[v]
         /\ \/ wk[w].st = "deferred" /\ wk2[w].env = wk[w].env \cup cs
            \/ wk2[w].env = cs
         /\ wk2[w].msg \subseteq wk[w].msg \cup cs
  BY DEF Saving
<1> USE <1>0
<1>1. \A v \in Rows : wk2[v].env \subseteq T \cup cs /\ wk2[v].msg \subseteq T \cup cs
  BY DEF Single, Places
<1>2. \A r \in Rows : rn[r].ctx \subseteq T \cup cs
  BY DEF Single, Places
<1>3. ASSUME NEW u \in Rows, wk2[u].st = "deferred", NEW c \in wk2[u].env
      PROVE  /\ \A v \in Rows : wk2[v].st = "deferred" /\ c \in wk2[v].env => v = u
             /\ \A r \in Rows : c \notin rn[r].ctx
  <2>1. CASE c \in cs
    <3>1. \A v \in Rows : c \notin wk[v].env /\ c \notin rn[v].ctx
      BY <2>1 DEF Single, Places
    <3>2. QED
      BY <1>3, <3>1
  <2>2. CASE c \notin cs
    <3>1. \A v \in Rows : wk2[v].st = "deferred" /\ c \in wk2[v].env
                            => wk[v].st = "deferred" /\ c \in wk[v].env
      BY <2>2
    <3>2. QED
      BY <1>3, <3>1 DEF Single, Places
  <2>3. QED
    BY <2>1, <2>2
<1>4. QED
  BY <1>1, <1>2, <1>3 DEF Single, Places

\* The rows after an unused one are blank.
LEMMA BlankAfter ==
  ASSUME NEW rn, NEW wk, Sound(rn, wk), NEW n \in Rows, rn[n].st = "none",
         NEW r \in Rows, ~(r < n)
  PROVE  rn[r].st = "none" /\ rn[r].ctx = {}
<1>1. n \in Nat /\ r \in Nat
  BY RowsAreNumbers
<1>2. n < r \/ n = r
  BY <1>1
<1>3. rn[r].st # "none" => rn[n].st # "none"
  BY <1>2 DEF Sound, Chained, UsedUpTo
<1>4. QED
  BY <1>3 DEF Sound, Chained

\* A new run n gets new messages cs, and those of the saved wakes A.
Starting(cs, rn, wk, rn2, wk2, n, w, A) ==
  /\ n \in Rows /\ w \in Rows /\ A \in SUBSET Rows
  /\ rn[n].st = "none" /\ \A v \in A : wk[v].st = "deferred"
  /\ \A r \in Rows \ {n} : rn2[r] = rn[r]
  /\ rn2[n].of = None
  /\ rn2[n].ctx \subseteq cs \cup UNION {wk[v].env : v \in A}
  /\ wk2[w].st # "deferred" /\ wk2[w].env \subseteq cs \cup UNION {wk[v].env : v \in A}
  /\ wk2[w].msg \subseteq wk[w].msg \cup cs
  /\ \A v \in Rows \ {w} : IF v \in A THEN /\ wk2[v].st # "deferred"
                                           /\ wk2[v].env \subseteq wk[v].env
                                           /\ wk2[v].msg \subseteq wk[v].msg
                                      ELSE wk2[v] = wk[v]

LEMMA StartedMessages ==
  ASSUME NEW rn, NEW wk, Sound(rn, wk), NEW T, NEW cs, cs \cap T = {}, Single(rn, wk, T),
         NEW rn2, NEW wk2, NEW n, NEW w, NEW A, Starting(cs, rn, wk, rn2, wk2, n, w, A)
  PROVE  Single(rn2, wk2, T \cup cs)
<1> USE DEF Starting
<1> DEFINE ids == UNION {wk[v].env : v \in A}
<1>1. ids \subseteq T
  BY DEF Single, Places
<1>2. \A c \in ids : \A r \in Rows : c \notin rn[r].ctx
  BY DEF Single, Places
<1>3. \A u \in Rows : wk[u].st = "deferred" /\ u \notin A => wk[u].env \cap ids = {}
  BY DEF Single, Places
<1> HIDE DEF ids
<1>4. rn2[n].ctx \subseteq cs \cup ids /\ wk2[w].env \subseteq cs \cup ids
  BY DEF ids
<1>5. Places(rn2, wk2, T \cup cs)
  <2>1. ASSUME NEW v \in Rows
        PROVE  /\ wk2[v].env \subseteq T \cup cs /\ wk2[v].msg \subseteq T \cup cs
               /\ rn2[v].ctx \subseteq T \cup cs
    <3>1. wk[v].env \subseteq T /\ wk[v].msg \subseteq T /\ rn[v].ctx \subseteq T
      BY DEF Single, Places
    <3>2. rn2[v].ctx \subseteq T \cup cs
      BY <1>1, <1>4, <3>1
    <3>3. wk2[v].env \subseteq T \cup cs /\ wk2[v].msg \subseteq T \cup cs
      BY <1>1, <1>4, <3>1
    <3>4. QED
      BY <3>2, <3>3
  <2>2. ASSUME NEW u \in Rows, wk2[u].st = "deferred", NEW c \in wk2[u].env
        PROVE  /\ \A v \in Rows : wk2[v].st = "deferred" /\ c \in wk2[v].env => v = u
               /\ \A r \in Rows : c \notin rn2[r].ctx
    <3>1. \A v \in Rows : wk2[v].st = "deferred" => v \notin A /\ wk2[v] = wk[v]
      OBVIOUS
    <3>2. wk[u].st = "deferred" /\ u \notin A /\ c \in wk[u].env
      BY <2>2, <3>1
    <3>3. c \in T /\ c \notin ids /\ c \notin cs
      BY <1>3, <3>2 DEF Single, Places
    <3>4. \A v \in Rows : wk2[v].st = "deferred" /\ c \in wk2[v].env => v = u
      BY <3>1, <3>2 DEF Single, Places
    <3>5. \A r \in Rows : c \notin rn[r].ctx
      BY <3>2 DEF Single, Places
    <3>6. QED
      BY <1>4, <3>3, <3>4, <3>5
  <2>3. QED
    BY <2>1, <2>2 DEF Places
<1>6. ASSUME NEW q \in Rows, NEW r \in Rows, q < r, NEW c \in rn2[q].ctx \cap rn2[r].ctx
      PROVE  rn2[r].of # None /\ c \in rn2[rn2[r].of].ctx
  <2>1. q \in Nat /\ r \in Nat /\ n \in Nat
    BY RowsAreNumbers
  <2>2. r # n
    <3>1. SUFFICES ASSUME r = n PROVE FALSE
      OBVIOUS
    <3>2. q # n /\ c \in rn[q].ctx /\ c \in cs \cup ids
      BY <1>4, <1>6, <2>1, <3>1
    <3>3. rn[q].ctx \subseteq T
      BY DEF Single, Places
    <3>4. QED
      BY <1>2, <3>2, <3>3
  <2>3. q # n
    <3>1. SUFFICES ASSUME q = n PROVE FALSE
      OBVIOUS
    <3>2. ~(r < n)
      BY <1>6, <2>1, <3>1
    <3>3. rn[r].ctx = {}
      BY <3>2, BlankAfter
    <3>4. QED
      BY <1>6, <2>2, <3>3
  <2>4. rn[r].of # None /\ c \in rn[rn[r].of].ctx
    BY <1>6, <2>2, <2>3 DEF Single, Unshared
  <2>5. rn[r].of \in Rows /\ Over(rn[rn[r].of])
    BY <2>4, SoundReferences DEF References, Sound, Chained
  <2>6. rn[r].of # n
    BY <2>5 DEF Over
  <2>7. QED
    BY <2>2, <2>4, <2>5, <2>6
<1>7. QED
  BY <1>5, <1>6 DEF Single, Unshared

\* A new run n continues run f, with a wake that says nothing new.
Continuing(rn, wk, rn2, wk2, n, w, f) ==
  /\ n \in Rows /\ w \in Rows /\ f \in Rows
  /\ rn[n].st = "none" /\ rn[f].st # "none"
  /\ \A r \in Rows \ {n} : rn2[r] = rn[r]
  /\ rn2[n].of = f /\ rn2[n].ctx \subseteq rn[f].ctx
  /\ wk2[w].st # "deferred" /\ wk2[w].env = {} /\ wk2[w].msg = {}
  /\ \A v \in Rows \ {w} : wk2[v] = wk[v]

LEMMA ContinuedMessages ==
  ASSUME NEW rn, NEW wk, Sound(rn, wk), NEW T, Single(rn, wk, T),
         NEW rn2, NEW wk2, NEW n, NEW w, NEW f, Continuing(rn, wk, rn2, wk2, n, w, f)
  PROVE  Single(rn2, wk2, T)
<1> USE DEF Continuing
<1>1. Places(rn2, wk2, T)
  <2>1. \A v \in Rows : wk2[v].env \subseteq T /\ wk2[v].msg \subseteq T
    BY DEF Single, Places
  <2>2. \A r \in Rows : rn2[r].ctx \subseteq T
    BY DEF Single, Places
  <2>3. ASSUME NEW u \in Rows, wk2[u].st = "deferred", NEW c \in wk2[u].env
        PROVE  /\ \A v \in Rows : wk2[v].st = "deferred" /\ c \in wk2[v].env => v = u
               /\ \A r \in Rows : c \notin rn2[r].ctx
    <3>1. \A v \in Rows : wk2[v].st = "deferred" => wk2[v] = wk[v]
      OBVIOUS
    <3>2. \A r \in Rows : c \notin rn[r].ctx
      BY <2>3, <3>1 DEF Single, Places
    <3>3. \A v \in Rows : wk2[v].st = "deferred" /\ c \in wk2[v].env => v = u
      BY <2>3, <3>1 DEF Single, Places
    <3>4. QED
      BY <3>2, <3>3
  <2>4. QED
    BY <2>1, <2>2, <2>3 DEF Places
<1>2. ASSUME NEW q \in Rows, NEW r \in Rows, q < r, NEW c \in rn2[q].ctx \cap rn2[r].ctx
      PROVE  rn2[r].of # None /\ c \in rn2[rn2[r].of].ctx
  <2>1. q \in Nat /\ r \in Nat /\ n \in Nat
    BY RowsAreNumbers
  <2>2. CASE r = n
    <3>1. f # n /\ rn2[f] = rn[f]
      OBVIOUS
    <3>2. QED
      BY <1>2, <2>2, <3>1, RowsAreNumbers
  <2>3. CASE r # n
    <3>1. q # n
      <4>1. SUFFICES ASSUME q = n PROVE FALSE
        OBVIOUS
      <4>2. ~(r < n)
        BY <1>2, <2>1, <4>1
      <4>3. rn[r].ctx = {}
        BY <4>2, BlankAfter
      <4>4. QED
        BY <1>2, <2>3, <4>3
    <3>2. rn[r].of # None /\ c \in rn[rn[r].of].ctx
      BY <1>2, <2>3, <3>1 DEF Single, Unshared
    <3>3. rn[r].of \in Rows /\ Over(rn[rn[r].of])
      BY <3>2, SoundReferences DEF References, Sound, Chained
    <3>4. rn[r].of # n
      BY <3>3 DEF Over
    <3>5. QED
      BY <2>3, <3>2, <3>3, <3>4
  <2>4. QED
    BY <2>2, <2>3
<1>3. QED
  BY <1>1, <1>2 DEF Single, Unshared

------------------------------------------------------------------------------
(* What a wake changes, after the stale holders are cancelled.                *)

\* A wake joins the run it finds.
JoinedInto(kind, a, cs, w) ==
  /\ wake[w].st = "none" /\ WakesBehind[w] = wake[w]
  /\ wake'[w] = WakeRow("coalesced", a, kind, cs, {}, Holder)
  /\ \A v \in Rows \ {w} : wake'[v] = WakesBehind[v]
  /\ \A r \in Rows \ {Holder} : run'[r] = RunsBehind[r]
  /\ RunsBehind[Holder] = run[Holder]
  /\ run'[Holder].ctx = run[Holder].ctx \cup cs
  /\ run'[Holder].st = run[Holder].st /\ run'[Holder].wake = run[Holder].wake
  /\ run'[Holder].of = run[Holder].of /\ run'[Holder].agent = run[Holder].agent
  /\ run'[Holder].started = run[Holder].started
  /\ run'[Holder].stopped = run[Holder].stopped

LEMMA JoinEffect ==
  ASSUME IInv, NEW kind \in Kinds, NEW a \in Agents, NEW cs \in SUBSET Comments,
         Holder # None, JoinRun(kind, a, cs)
  PROVE  \E w \in Rows : JoinedInto(kind, a, cs, w)
<1>1. PICK w \in Rows :
        /\ FreshWake(w)
        /\ run' = [RunsBehind EXCEPT ![Holder].ctx = @ \cup cs, ![Holder].kind = kind]
        /\ wake' = [WakesBehind EXCEPT ![w] = WakeRow("coalesced", a, kind, cs, {}, Holder)]
  BY DEF JoinRun
<1>2. Holder \in Rows /\ RunsBehind[Holder] = run[Holder]
  BY HolderActive, Behind
<1>3. RunsBehind \in RunRows /\ WakesBehind \in WakeRows /\ run[Holder] \in RunRecord
  BY <1>2, Behind DEF Sound, IInv, RunRows
<1>4. wake[w].st = "none" /\ WakesBehind[w] = wake[w]
  BY <1>1, UntouchedBehind DEF FreshWake
<1>5. /\ \A r \in Rows \ {Holder} : run'[r] = RunsBehind[r]
      /\ run'[Holder] = [run[Holder] EXCEPT !.ctx = @ \cup cs, !.kind = kind]
      /\ \A v \in Rows \ {w} : wake'[v] = WakesBehind[v]
      /\ wake'[w] = WakeRow("coalesced", a, kind, cs, {}, Holder)
  BY <1>1, <1>2, <1>3 DEF RunRows, WakeRows
<1>6. /\ run'[Holder].ctx = run[Holder].ctx \cup cs
      /\ run'[Holder].st = run[Holder].st /\ run'[Holder].wake = run[Holder].wake
      /\ run'[Holder].of = run[Holder].of /\ run'[Holder].agent = run[Holder].agent
      /\ run'[Holder].started = run[Holder].started
      /\ run'[Holder].stopped = run[Holder].stopped
  BY <1>3, <1>5 DEF RunRecord
<1>7. QED
  BY <1>2, <1>4, <1>5, <1>6 DEF JoinedInto

\* A wake is saved in w.
SavedIn(kind, a, cs, w) ==
  /\ WakesBehind[w] = wake[w]
  /\ \A v \in Rows \ {w} : wake'[v] = WakesBehind[v]
  /\ wake'[w].st = "deferred" /\ wake'[w].run = None
  /\ wake'[w].agent = a /\ wake'[w].kind = kind
  /\ \/ /\ wake[w].st = "deferred" /\ wake'[w].env = wake[w].env \cup cs
        /\ wake'[w].msg = wake[w].msg \cup cs
     \/ wake[w].st = "none" /\ wake'[w].env = cs /\ wake'[w].msg = cs

LEMMA DeferEffect ==
  ASSUME IInv, NEW kind \in Kinds, NEW a \in Agents, NEW cs \in SUBSET Comments,
         DeferWake(kind, a, cs)
  PROVE  run' = RunsBehind /\ \E w \in Rows : SavedIn(kind, a, cs, w)
<1>1. WakesBehind \in WakeRows /\ wake \in WakeRows /\ run' = RunsBehind
  BY Behind DEF Sound, DeferWake, IInv
<1>2. ASSUME DeferredFor(a) # {}
      PROVE  \E w \in Rows :
              /\ WakesBehind[w] = wake[w]
              /\ \A v \in Rows \ {w} : wake'[v] = WakesBehind[v]
              /\ wake'[w].st = "deferred" /\ wake'[w].run = None
              /\ wake'[w].agent = a /\ wake'[w].kind = kind
              /\ wake[w].st = "deferred" /\ wake'[w].env = wake[w].env \cup cs
              /\ wake'[w].msg = wake[w].msg \cup cs
  <2> DEFINE w == Oldest(DeferredFor(a))
  <2>1. w \in Rows /\ wake[w].st = "deferred" /\ wake[w].agent = a
    <3>1. DeferredFor(a) \in SUBSET Rows
      BY DEF DeferredFor, Deferred
    <3>2. w \in DeferredFor(a)
      BY <1>2, <3>1, OldestIn
    <3>3. QED
      BY <3>2 DEF DeferredFor, Deferred
  <2>2. wake' = [WakesBehind EXCEPT ![w].env = @ \cup cs, ![w].msg = @ \cup cs, ![w].kind = kind]
    BY <1>2 DEF DeferWake
  <2> HIDE DEF w
  <2>3. WakesBehind[w] = wake[w] /\ wake[w] \in WakeRecord /\ wake[w].run = None
    BY <1>1, <2>1, UntouchedBehind DEF WakeRows, IInv, Sound, OwnRun
  <2>4. /\ \A v \in Rows \ {w} : wake'[v] = WakesBehind[v]
        /\ wake'[w] = [wake[w] EXCEPT !.env = @ \cup cs, !.msg = @ \cup cs, !.kind = kind]
    BY <1>1, <2>1, <2>2, <2>3 DEF WakeRows
  <2>5. /\ wake'[w].st = "deferred" /\ wake'[w].run = None
        /\ wake'[w].agent = a /\ wake'[w].kind = kind
        /\ wake'[w].env = wake[w].env \cup cs /\ wake'[w].msg = wake[w].msg \cup cs
    BY <2>1, <2>3, <2>4 DEF WakeRecord
  <2>6. QED
    BY <2>1, <2>3, <2>4, <2>5
<1>3. ASSUME NEW w \in Rows, FreshWake(w),
             wake' = [WakesBehind EXCEPT ![w] = WakeRow("deferred", a, kind, cs, cs, None)]
      PROVE  /\ WakesBehind[w] = wake[w]
             /\ \A v \in Rows \ {w} : wake'[v] = WakesBehind[v]
             /\ wake'[w].st = "deferred" /\ wake'[w].run = None
             /\ wake'[w].agent = a /\ wake'[w].kind = kind
             /\ wake[w].st = "none" /\ wake'[w].env = cs /\ wake'[w].msg = cs
  <2>1. /\ \A v \in Rows \ {w} : wake'[v] = WakesBehind[v]
        /\ wake'[w] = WakeRow("deferred", a, kind, cs, cs, None)
    BY <1>1, <1>3 DEF WakeRows
  <2>2. wake[w].st = "none" /\ WakesBehind[w] = wake[w]
    BY <1>3, UntouchedBehind DEF FreshWake
  <2>3. QED
    BY <2>1, <2>2 DEF WakeRow
<1>4. QED
  <2>1. CASE DeferredFor(a) # {}
    BY <1>1, <1>2, <2>1 DEF SavedIn
  <2>2. CASE DeferredFor(a) = {}
    <3>1. PICK w \in Rows : FreshWake(w)
            /\ wake' = [WakesBehind EXCEPT ![w] = WakeRow("deferred", a, kind, cs, cs, None)]
      BY <2>2 DEF DeferWake
    <3>2. QED
      BY <1>1, <1>3, <3>1 DEF SavedIn
  <2>3. QED
    BY <2>1, <2>2

\* The comments that a new run takes over from saved wakes.
Saved(A) == UNION {wake[v].env : v \in A}

\* A wake w is queued with a new run n.
StartedAs(kind, a, cs, from, w, n) ==
  LET A   == Adopted(a, from)
      ids == cs \cup (IF from = None THEN Saved(A) ELSE LiveIds(Saved(A)))
  IN  /\ wake[w].st = "none" /\ run[n].st = "none"
      /\ RunsBehind[n] = run[n]
      /\ run'[n] = QueuedRun(a, w, kind, ids, "no")
      /\ \A r \in Rows \ {n} : run'[r] = RunsBehind[r]
      /\ wake'[w] = WakeRow("queued", a, kind, cs, IF A = {} THEN {} ELSE ids, n)
      /\ \A v \in Rows \ {w} :
           IF v \in A
             THEN /\ WakesBehind[v] = wake[v]
                  /\ wake'[v].st = "coalesced" /\ wake'[v].run = n
                  /\ wake'[v].env = wake[v].env /\ wake'[v].msg = wake[v].msg
                  /\ wake'[v].agent = wake[v].agent
             ELSE wake'[v] = WakesBehind[v]

LEMMA StartEffect ==
  ASSUME IInv, NEW kind \in Kinds, NEW a \in Agents, NEW cs \in SUBSET Comments, NEW from,
         StartRun(kind, a, cs, from)
  PROVE  \E w \in Rows, n \in Rows : StartedAs(kind, a, cs, from, w, n)
<1> DEFINE A   == Adopted(a, from)
           ids == cs \cup (IF from = None THEN Saved(A) ELSE LiveIds(Saved(A)))
<1>1. PICK w \in Rows, n \in Rows :
        /\ FreshWake(w) /\ FreshRun(n)
        /\ run' = [RunsBehind EXCEPT ![n] = QueuedRun(a, w, kind, ids, "no")]
        /\ wake' = [v \in Rows |->
             CASE v = w -> WakeRow("queued", a, kind, cs, IF A = {} THEN {} ELSE ids, n)
               [] v \in A -> [wake[v] EXCEPT !.st = "coalesced", !.run = n]
               [] OTHER -> WakesBehind[v]]
  BY DEF StartRun, Saved
<1>2. RunsBehind \in RunRows /\ wake \in WakeRows
  BY Behind DEF Sound, IInv
<1>3. A \subseteq Rows /\ \A v \in A : wake[v].st = "deferred"
  BY AdoptedSaved
<1> HIDE DEF A, ids
<1>4. wake[w].st = "none" /\ run[n].st = "none" /\ w \notin A
  BY <1>1, <1>3 DEF FreshWake, FreshRun
<1>5. RunsBehind[n] = run[n]
  BY <1>4, Behind DEF Waiting
<1>6. /\ run'[n] = QueuedRun(a, w, kind, ids, "no")
      /\ \A r \in Rows \ {n} : run'[r] = RunsBehind[r]
  BY <1>1, <1>2 DEF RunRows
<1>7. wake'[w] = WakeRow("queued", a, kind, cs, IF A = {} THEN {} ELSE ids, n)
  BY <1>1, <1>4
<1>8. ASSUME NEW v \in Rows \ {w}
      PROVE  IF v \in A
               THEN /\ WakesBehind[v] = wake[v]
                    /\ wake'[v].st = "coalesced" /\ wake'[v].run = n
                    /\ wake'[v].env = wake[v].env /\ wake'[v].msg = wake[v].msg
                    /\ wake'[v].agent = wake[v].agent
               ELSE wake'[v] = WakesBehind[v]
  <2>1. CASE v \in A
    <3>1. wake'[v] = [wake[v] EXCEPT !.st = "coalesced", !.run = n] /\ wake[v] \in WakeRecord
      BY <1>1, <1>2, <2>1 DEF WakeRows
    <3>2. WakesBehind[v] = wake[v]
      BY <1>3, <2>1, UntouchedBehind
    <3>3. QED
      BY <2>1, <3>1, <3>2 DEF WakeRecord
  <2>2. CASE v \notin A
    BY <1>1, <2>2
  <2>3. QED
    BY <2>1, <2>2
<1>9. QED
  BY <1>4, <1>5, <1>6, <1>7, <1>8 DEF A, ids, StartedAs

\* The saved wake w gets the new run n.
PromotedAs(r, resume, fact, w, n) ==
  LET ids == LiveIds(wake[w].env)
      wk  == WakesDrained(r, resume, fact)
  IN  /\ w \in Rows /\ wake[w].st = "deferred" /\ wk[w] = wake[w]
      /\ run[n].st = "none"
      /\ run'[n] = QueuedRun(wake[w].agent, w, wake[w].kind, ids, "no")
      /\ \A q \in Rows \ {n} : run'[q] = run[q]
      /\ \A v \in Rows \ {w} : wake'[v] = wk[v]
      /\ wake'[w].st = "queued" /\ wake'[w].run = n /\ wake'[w].env = ids
      /\ wake'[w].msg = wake[w].msg /\ wake'[w].agent = wake[w].agent
      /\ issue' = [issue EXCEPT
           !.exec = IF wake[w].agent = issue.assignee THEN n ELSE None,
           !.status = IF issue.status = "done" /\ ids # {} THEN "todo" ELSE @]

LEMMA PromoteEffect ==
  ASSUME IInv, NEW r, NEW resume, NEW fact, Promote(r, resume, fact)
  PROVE  \E w \in Promoted(r, resume, fact), n \in Rows : PromotedAs(r, resume, fact, w, n)
<1> DEFINE wk == WakesDrained(r, resume, fact)
<1>1. PICK w \in Promoted(r, resume, fact), n \in Rows :
        /\ FreshRun(n)
        /\ run' = [run EXCEPT ![n] = QueuedRun(wake[w].agent, w, wake[w].kind,
                                               LiveIds(wake[w].env), "no")]
        /\ wake' = [wk EXCEPT ![w].st = "queued", ![w].env = LiveIds(wake[w].env), ![w].run = n]
        /\ issue' = [issue EXCEPT
              !.exec = IF wake[w].agent = issue.assignee THEN n ELSE None,
              !.status = IF issue.status = "done" /\ LiveIds(wake[w].env) # {} THEN "todo" ELSE @]
  BY DEF Promote
<1>2. w \in Rows /\ wake[w].st = "deferred" /\ w \notin Drained(r, resume, fact)
  <2>1. w \in Deferred /\ Disposition(w, r, resume, fact) = "promote"
    BY DEF Promoted
  <2>2. w \in Rows /\ wake[w].st = "deferred" /\ w <= w
    BY <2>1, RowsAreNumbers DEF Deferred
  <2>3. QED
    BY <2>1, <2>2 DEF Drained
<1>3. wk[w] = wake[w] /\ wk \in WakeRows /\ run \in RunRows /\ wake[w] \in WakeRecord
  <2>1. wk[w] = wake[w]
    BY <1>2 DEF WakesDrained
  <2>2. wk \in WakeRows
    BY DrainStep DEF Sound
  <2>3. run \in RunRows /\ wake[w] \in WakeRecord
    BY <1>2 DEF IInv, Sound, WakeRows
  <2>4. QED
    BY <2>1, <2>2, <2>3
<1> HIDE DEF wk
<1>4. /\ \A q \in Rows \ {n} : run'[q] = run[q]
      /\ run'[n] = QueuedRun(wake[w].agent, w, wake[w].kind, LiveIds(wake[w].env), "no")
  BY <1>1, <1>3 DEF RunRows
<1>5. /\ \A v \in Rows \ {w} : wake'[v] = wk[v]
      /\ wake'[w] = [wake[w] EXCEPT !.st = "queued", !.env = LiveIds(wake[w].env), !.run = n]
  BY <1>1, <1>2, <1>3 DEF WakeRows
<1>6. /\ wake'[w].st = "queued" /\ wake'[w].run = n /\ wake'[w].env = LiveIds(wake[w].env)
      /\ wake'[w].msg = wake[w].msg /\ wake'[w].agent = wake[w].agent
  BY <1>3, <1>5 DEF WakeRecord
<1>7. n \in Rows /\ run[n].st = "none"
  BY <1>1 DEF FreshRun
<1>8. QED
  BY <1>1, <1>2, <1>3, <1>4, <1>5, <1>6, <1>7 DEF wk, PromotedAs

\* A run that continues r: a recovery run of its release, or its retry.
RecoveredAs(r, resume, fact, w, n) ==
  LET wk == WakesDrained(r, resume, fact)
  IN  /\ wake[w].st = "none" /\ wk[w] = wake[w] /\ run[n].st = "none"
      /\ \A q \in Rows \ {n} : run'[q] = run[q]
      /\ run'[n].st = "queued" /\ run'[n].of = r /\ run'[n].ctx = {}
      /\ run'[n].agent = run[r].agent /\ run'[n].wake = w
      /\ \A v \in Rows \ {w} : wake'[v] = wk[v]
      /\ wake'[w] = WakeRow("queued", run[r].agent, "system", {}, {}, n)
      /\ issue' = [issue EXCEPT !.exec = n]

LEMMA RecoverEffect ==
  ASSUME IInv, NEW r \in Rows, NEW resume, NEW fact, Recover(r, resume, fact)
  PROVE  \E w \in Rows, n \in Rows : RecoveredAs(r, resume, fact, w, n)
<1> DEFINE wk == WakesDrained(r, resume, fact)
<1>1. PICK w \in Rows, n \in Rows :
        /\ FreshWake(w) /\ FreshRun(n)
        /\ run' = [run EXCEPT ![n] = [QueuedRun(run[r].agent, w, "system", {}, issue.status)
                                        EXCEPT !.of = r]]
        /\ wake' = [wk EXCEPT ![w] = WakeRow("queued", run[r].agent, "system", {}, {}, n)]
        /\ issue' = [issue EXCEPT !.exec = n]
  BY DEF Recover
<1>2. wake[w].st = "none" /\ run[n].st = "none" /\ run \in RunRows
  BY <1>1 DEF FreshWake, FreshRun, IInv, Sound
<1>3. wk[w] = wake[w] /\ wk \in WakeRows
  BY <1>2, DrainEffect, DrainStep DEF Sound
<1> HIDE DEF wk
<1>4. /\ \A q \in Rows \ {n} : run'[q] = run[q]
      /\ run'[n] = [QueuedRun(run[r].agent, w, "system", {}, issue.status) EXCEPT !.of = r]
      /\ \A v \in Rows \ {w} : wake'[v] = wk[v]
      /\ wake'[w] = WakeRow("queued", run[r].agent, "system", {}, {}, n)
  BY <1>1, <1>2, <1>3 DEF RunRows, WakeRows
<1>5. /\ run'[n].st = "queued" /\ run'[n].of = r /\ run'[n].ctx = {}
      /\ run'[n].agent = run[r].agent /\ run'[n].wake = w
  BY <1>4 DEF QueuedRun
<1>6. QED
  BY <1>1, <1>2, <1>3, <1>4, <1>5 DEF wk, RecoveredAs

RetriedAs(r, w, n) ==
  /\ wake[w].st = "none" /\ run[n].st = "none"
  /\ \A q \in Rows \ {n} : run'[q] = run[q]
  /\ run'[n].st = "scheduled" /\ run'[n].of = r /\ run'[n].ctx = run[r].ctx
  /\ run'[n].agent = run[r].agent /\ run'[n].wake = w
  /\ \A v \in Rows \ {w} : wake'[v] = wake[v]
  /\ wake'[w] = WakeRow("queued", run[r].agent, "system", {}, {}, n)
  /\ issue' = IF issue.exec = r THEN [issue EXCEPT !.exec = n] ELSE issue

LEMMA RetryEffect ==
  ASSUME IInv, NEW r \in Rows, RetryOf(r)
  PROVE  \E w \in Rows, n \in Rows : RetriedAs(r, w, n)
<1>1. PICK w \in Rows, n \in Rows :
        /\ FreshWake(w) /\ FreshRun(n)
        /\ run' = [run EXCEPT ![n] = [QueuedRun(run[r].agent, w, "system", run[r].ctx, "no")
                                        EXCEPT !.st = "scheduled", !.of = r]]
        /\ wake' = [wake EXCEPT ![w] = WakeRow("queued", run[r].agent, "system", {}, {}, n)]
        /\ issue' = IF issue.exec = r THEN [issue EXCEPT !.exec = n] ELSE issue
  BY DEF RetryOf
<1>2. /\ wake[w].st = "none" /\ run[n].st = "none" /\ run \in RunRows /\ wake \in WakeRows
  BY <1>1 DEF FreshWake, FreshRun, IInv, Sound
<1>3. /\ \A q \in Rows \ {n} : run'[q] = run[q]
      /\ run'[n] = [QueuedRun(run[r].agent, w, "system", run[r].ctx, "no")
                      EXCEPT !.st = "scheduled", !.of = r]
      /\ \A v \in Rows \ {w} : wake'[v] = wake[v]
      /\ wake'[w] = WakeRow("queued", run[r].agent, "system", {}, {}, n)
  BY <1>1, <1>2 DEF RunRows, WakeRows
<1>4. /\ run'[n].st = "scheduled" /\ run'[n].of = r /\ run'[n].ctx = run[r].ctx
      /\ run'[n].agent = run[r].agent /\ run'[n].wake = w
  BY <1>3 DEF QueuedRun
<1>5. QED
  BY <1>1, <1>2, <1>3, <1>4 DEF RetriedAs

------------------------------------------------------------------------------
(* Every step keeps messages single.                                          *)

\* The comments whose wake is recorded, and those still to be.
Told == {c \in Comments : comment[c] # "none" /\ \A a \in Agents : <<c, a>> \notin mail}
Mailed ==
  \A c \in Comments, a \in Agents :
    <<c, a>> \in mail => comment[c] # "none" /\ \A b \in Agents : <<c, b>> \in mail => b = a

SingleInv == Mailed /\ Single(run, wake, Told)

LEMMA TurnSingle ==
  ASSUME IInv, SingleInv, NEW r \in Rows, Turn(r)
  PROVE  Single(run', wake', Told)
<1>1. Sound(run, wake) /\ Single(run, wake, Told) /\ run[r].wake \in Rows
  BY SoundReferences DEF IInv, SingleInv, References
<1>2. \A q \in Rows : /\ run'[q].of = run[q].of /\ run'[q].ctx \subseteq run[q].ctx
                      /\ Over(run[q]) => run'[q].ctx = run[q].ctx
  BY DEF Turn, Over, Active, Waiting
<1>3. \A w \in Rows : /\ wake'[w].env \subseteq wake[w].env /\ wake'[w].msg \subseteq wake[w].msg
                      /\ wake'[w].st = "deferred" => wake[w].st = "deferred"
  BY DEF Turn
<1>4. QED
  BY <1>1, <1>2, <1>3, FewerMessages

LEMMA BehindSingle ==
  ASSUME IInv, SingleInv
  PROVE  Single(RunsBehind, WakesBehind, Told)
<1>1. /\ Sound(run, wake) /\ Single(run, wake, Told) /\ run \in RunRows /\ wake \in WakeRows
      /\ StaleHolders \subseteq Rows /\ \A r \in StaleHolders : Waiting(r)
  BY StaleHoldersWait DEF IInv, SingleInv, Sound
<1>2. ASSUME NEW q \in Rows
      PROVE  /\ RunsBehind[q].of = run[q].of /\ RunsBehind[q].ctx \subseteq run[q].ctx
             /\ Over(run[q]) => RunsBehind[q].ctx = run[q].ctx
  <2>1. run[q] \in RunRecord
    BY <1>1 DEF RunRows
  <2>2. RunsBehind[q] \in {run[q], [run[q] EXCEPT !.st = "cancelled"]}
    BY Behind
  <2>3. QED
    BY <2>1, <2>2 DEF RunRecord
<1>3. ASSUME NEW w \in Rows
      PROVE  /\ WakesBehind[w].env \subseteq wake[w].env /\ WakesBehind[w].msg \subseteq wake[w].msg
             /\ WakesBehind[w].st = "deferred" => wake[w].st = "deferred"
  <2>1. wake[w] \in WakeRecord
    BY <1>1 DEF WakeRows
  <2>2. WakesBehind[w] \in {wake[w], [wake[w] EXCEPT !.st = "cancelled"]}
    BY Behind
  <2>3. QED
    BY <2>1, <2>2 DEF WakeRecord
<1>4. QED
  BY <1>1, <1>2, <1>3, FewerMessages

LEMMA EnqueueSingle ==
  ASSUME IInv, SingleInv, NEW kind \in Kinds, NEW a \in Agents, NEW cs \in SUBSET Comments,
         cs \cap Told = {}, NEW from, Enqueue(kind, a, cs, from)
  PROVE  Single(run', wake', Told \cup cs)
<1>1. Single(RunsBehind, WakesBehind, Told) /\ Sound(RunsBehind, WakesBehind)
  BY BehindSingle, Behind
<1>2. ASSUME Joins(a, cs), JoinRun(kind, a, cs)
      PROVE  Single(run', wake', Told \cup cs)
  <2>1. Holder \in Rows /\ Active(Holder) /\ Holder # None
    BY <1>2, HolderActive DEF Joins
  <2>2. PICK w \in Rows : JoinedInto(kind, a, cs, w)
    BY <1>2, <2>1, JoinEffect
  <2>3. ~Over(RunsBehind[Holder])
    BY <2>1, <2>2 DEF JoinedInto, Over, Active, Waiting
  <2>4. wake'[w].st # "deferred" /\ wake'[w].env = {} /\ wake'[w].msg \subseteq cs
    BY <2>2 DEF JoinedInto, WakeRow
  <2>5. /\ run'[Holder].of = RunsBehind[Holder].of
        /\ run'[Holder].ctx = RunsBehind[Holder].ctx \cup cs
        /\ \A r \in Rows \ {Holder} : run'[r] = RunsBehind[r]
        /\ \A v \in Rows \ {w} : wake'[v] = WakesBehind[v]
    BY <2>2 DEF JoinedInto
  <2>6. Joining(cs, RunsBehind, WakesBehind, run', wake')
    BY <2>1, <2>3, <2>4, <2>5 DEF Joining
  <2>7. QED
    BY <1>1, <2>6, JoinedMessages
<1>3. ASSUME DeferWake(kind, a, cs)
      PROVE  Single(run', wake', Told \cup cs)
  <2>1. run' = RunsBehind
    BY <1>3, DeferEffect
  <2>2. PICK w \in Rows : SavedIn(kind, a, cs, w)
    BY <1>3, DeferEffect
  <2>3. Saving(cs, WakesBehind, wake')
    BY <2>2 DEF SavedIn, Saving
  <2>4. QED
    BY <1>1, <2>1, <2>3, SavedMessages
<1>4. ASSUME StartRun(kind, a, cs, from)
      PROVE  Single(run', wake', Told \cup cs)
  <2> DEFINE A   == Adopted(a, from)
             ids == cs \cup (IF from = None THEN Saved(A) ELSE LiveIds(Saved(A)))
  <2>1. PICK w \in Rows, n \in Rows : StartedAs(kind, a, cs, from, w, n)
    BY <1>4, StartEffect
  <2>2. /\ run[n].st = "none" /\ RunsBehind[n] = run[n]
        /\ run'[n] = QueuedRun(a, w, kind, ids, "no")
        /\ \A r \in Rows \ {n} : run'[r] = RunsBehind[r]
        /\ wake'[w] = WakeRow("queued", a, kind, cs, IF A = {} THEN {} ELSE ids, n)
    BY <2>1 DEF StartedAs
  <2>3. \A v \in Rows \ {w} : IF v \in A THEN /\ wake'[v].st # "deferred"
                                              /\ wake'[v].env \subseteq WakesBehind[v].env
                                              /\ wake'[v].msg \subseteq WakesBehind[v].msg
                                         ELSE wake'[v] = WakesBehind[v]
    BY <2>1 DEF StartedAs
  <2>4. A \in SUBSET Rows /\ \A v \in A : wake[v].st = "deferred"
    BY AdoptedSaved
  <2>5. \A v \in A : WakesBehind[v] = wake[v]
    BY <2>4, UntouchedBehind
  <2>6. ids \subseteq cs \cup UNION {WakesBehind[v].env : v \in A}
    <3>1. Saved(A) = UNION {WakesBehind[v].env : v \in A}
      BY <2>5 DEF Saved
    <3>2. LiveIds(Saved(A)) \subseteq Saved(A)
      BY DEF LiveIds
    <3>3. QED
      BY <3>1, <3>2
  <2> HIDE DEF A, ids
  <2>7. run'[n].of = None /\ run'[n].ctx = ids
    BY <2>2 DEF QueuedRun
  <2>8. wake'[w].st # "deferred" /\ wake'[w].env \subseteq ids /\ wake'[w].msg = cs
    BY <2>2 DEF WakeRow
  <2>9. Starting(cs, RunsBehind, WakesBehind, run', wake', n, w, A)
    <3>1. /\ n \in Rows /\ w \in Rows /\ A \in SUBSET Rows
          /\ RunsBehind[n].st = "none" /\ \A v \in A : WakesBehind[v].st = "deferred"
      BY <2>2, <2>4, <2>5
    <3>2. /\ run'[n].ctx \subseteq cs \cup UNION {WakesBehind[v].env : v \in A}
          /\ wake'[w].env \subseteq cs \cup UNION {WakesBehind[v].env : v \in A}
          /\ wake'[w].msg \subseteq WakesBehind[w].msg \cup cs
      BY <2>6, <2>7, <2>8
    <3>3. QED
      BY <2>2, <2>3, <2>7, <2>8, <3>1, <3>2 DEF Starting
  <2>10. QED
    BY <1>1, <2>9, StartedMessages
<1>5. QED
  BY <1>2, <1>3, <1>4 DEF Enqueue

LEMMA DrainSingle ==
  ASSUME IInv, SingleInv, NEW r, NEW resume, NEW fact
  PROVE  Single(run, WakesDrained(r, resume, fact), Told)
<1> DEFINE wk == WakesDrained(r, resume, fact)
<1>1. \A w \in Rows : /\ wk[w].env \subseteq wake[w].env /\ wk[w].msg \subseteq wake[w].msg
                      /\ wk[w].st = "deferred" => wake[w].st = "deferred"
  BY DrainEffect DEF LiveIds
<1> HIDE DEF wk
<1>2. QED
  BY <1>1, FewerMessages DEF IInv, SingleInv, wk

LEMMA ReleaseSingle ==
  ASSUME IInv, SingleInv, NEW r \in Rows, Ended(r), NEW quiet, NEW resume, NEW fact,
         ReleaseIssue(r, quiet, resume, fact)
  PROVE  Single(run', wake', Told)
<1> DEFINE wk == WakesDrained(r, resume, fact)
<1>1. Single(run, wk, Told) /\ Sound(run, wk)
  BY DrainSingle, DrainStep
<1>2. Told \cup {} = Told /\ {} \cap Told = {}
  OBVIOUS
<1>3. CASE UNCHANGED <<run, wake>>
  BY <1>3 DEF SingleInv
<1>4. CASE Promote(r, resume, fact)
  <2>1. PICK w \in Promoted(r, resume, fact), n \in Rows : PromotedAs(r, resume, fact, w, n)
    BY <1>4, PromoteEffect
  <2>2. /\ w \in Rows /\ wake[w].st = "deferred" /\ wk[w] = wake[w] /\ run[n].st = "none"
        /\ run'[n] = QueuedRun(wake[w].agent, w, wake[w].kind, LiveIds(wake[w].env), "no")
        /\ \A q \in Rows \ {n} : run'[q] = run[q]
        /\ \A v \in Rows \ {w} : wake'[v] = wk[v]
        /\ wake'[w].st = "queued" /\ wake'[w].env = LiveIds(wake[w].env)
        /\ wake'[w].msg = wake[w].msg
    BY <2>1 DEF PromotedAs
  <2> HIDE DEF wk
  <2>3. LiveIds(wake[w].env) \subseteq {} \cup UNION {wk[v].env : v \in {w}}
    BY <2>2 DEF LiveIds
  <2>4. run'[n].of = None /\ run'[n].ctx = LiveIds(wake[w].env)
    BY <2>2 DEF QueuedRun
  <2>5. Starting({}, run, wk, run', wake', n, w, {w})
    BY <2>2, <2>3, <2>4 DEF Starting
  <2>6. Single(run', wake', Told \cup {})
    BY <1>1, <1>2, <2>5, StartedMessages
  <2>7. QED
    BY <1>2, <2>6
<1>5. CASE Recover(r, resume, fact)
  <2>1. PICK w \in Rows, n \in Rows : RecoveredAs(r, resume, fact, w, n)
    BY <1>5, RecoverEffect
  <2>2. /\ run[n].st = "none" /\ \A q \in Rows \ {n} : run'[q] = run[q]
        /\ run'[n].of = r /\ run'[n].ctx = {}
        /\ \A v \in Rows \ {w} : wake'[v] = wk[v]
        /\ wake'[w] = WakeRow("queued", run[r].agent, "system", {}, {}, n)
    BY <2>1 DEF RecoveredAs
  <2> HIDE DEF wk
  <2>3. wake'[w].st # "deferred" /\ wake'[w].env = {} /\ wake'[w].msg = {}
    BY <2>2 DEF WakeRow
  <2>4. Continuing(run, wk, run', wake', n, w, r)
    BY <2>2, <2>3 DEF Ended, Continuing
  <2>5. QED
    BY <1>1, <2>4, ContinuedMessages
<1>6. CASE wake' = wk /\ UNCHANGED run
  BY <1>1, <1>6
<1>7. QED
  BY <1>3, <1>4, <1>5, <1>6 DEF ReleaseIssue

LEMMA RetrySingle ==
  ASSUME IInv, SingleInv, NEW r \in Rows, Ended(r), RetryOf(r)
  PROVE  Single(run', wake', Told)
<1>1. PICK w \in Rows, n \in Rows : RetriedAs(r, w, n)
  BY RetryEffect
<1>2. wake'[w].st # "deferred" /\ wake'[w].env = {} /\ wake'[w].msg = {}
  BY <1>1 DEF RetriedAs, WakeRow
<1>3. Continuing(run, wake, run', wake', n, w, r)
  BY <1>1, <1>2 DEF RetriedAs, Ended, Continuing
<1>4. Sound(run, wake) /\ Single(run, wake, Told)
  BY DEF IInv, SingleInv
<1>5. QED
  BY <1>3, <1>4, ContinuedMessages

LEMMA DiscardSingle ==
  ASSUME IInv, SingleInv, NEW c \in Comments, NEW w \in QueueOf(c), DiscardFrom(w, c)
  PROVE  Single(run', wake', Told)
<1>1. CASE wake[w].st = "deferred"
  <2>1. /\ w \in Rows /\ run' = run /\ \A v \in Rows \ {w} : wake'[v] = wake[v]
        /\ wake'[w].msg = wake[w].msg /\ wake'[w].env \subseteq wake[w].env
    BY <1>1, DiscardSaved
  <2>2. Sound(run, wake) /\ Single(run, wake, Told)
    BY DEF IInv, SingleInv
  <2>3. QED
    BY <1>1, <2>1, <2>2, FewerMessages
<1>2. CASE wake[w].st # "deferred"
  <2>1. wake[w].run \in Rows /\ Turn(wake[w].run)
    BY <1>2, DiscardEffect
  <2>2. QED
    BY <2>1, TurnSingle
<1>3. QED
  BY <1>1, <1>2

LEMMA SingleGrows ==
  ASSUME NEW rn, NEW wk, NEW T, NEW T2, T \subseteq T2, Single(rn, wk, T)
  PROVE  Single(rn, wk, T2)
BY DEF Single, Places

\* Steps that tell nothing.
LEMMA SingleKept ==
  ASSUME SingleInv, Single(run', wake', Told), UNCHANGED <<comment, mail>>
  PROVE  SingleInv'
BY DEF SingleInv, Mailed, Told

LEMMA ArriveSingle ==
  ASSUME IInv, SingleInv, Arrive
  PROVE  SingleInv'
<1>1. ASSUME NEW c \in Comments, PostComment(c)
      PROVE  SingleInv'
  <2>1. /\ comment[c] = "none" /\ comment' = [comment EXCEPT ![c] = "live"]
        /\ mail' = mail \cup {<<c, issue.assignee>>} /\ UNCHANGED <<run, wake>>
        /\ comment \in [Comments -> {"none", "live", "deleted"}] /\ issue.assignee \in Agents
    BY <1>1 DEF PostComment, IInv, Typed, IssueRows
  <2>2. \A a \in Agents : <<c, a>> \notin mail
    BY <2>1 DEF SingleInv, Mailed
  <2>3. Mailed'
    <3> SUFFICES ASSUME NEW d \in Comments, NEW a \in Agents, <<d, a>> \in mail'
                 PROVE  comment'[d] # "none" /\ \A b \in Agents : <<d, b>> \in mail' => b = a
      BY DEF Mailed
    <3>1. CASE d = c
      <4>1. \A b \in Agents : <<d, b>> \in mail' => b = issue.assignee
        BY <2>1, <2>2, <3>1
      <4>2. QED
        BY <2>1, <3>1, <4>1
    <3>2. CASE d # c
      <4>1. \A b \in Agents : <<d, b>> \in mail' => <<d, b>> \in mail
        BY <2>1, <3>2
      <4>2. comment'[d] = comment[d] /\ <<d, a>> \in mail
        BY <2>1, <3>2, <4>1
      <4>3. QED
        BY <4>1, <4>2 DEF SingleInv, Mailed
    <3>3. QED
      BY <3>1, <3>2
  <2>4. Told \subseteq Told'
    <3>1. \A d \in Told : d # c /\ comment'[d] # "none"
      BY <2>1 DEF Told
    <3>2. \A d \in Told : \A a \in Agents : <<d, a>> \notin mail'
      BY <2>1, <3>1 DEF Told
    <3>3. QED
      BY <3>1, <3>2 DEF Told
  <2>5. QED
    BY <2>1, <2>3, <2>4, SingleGrows DEF SingleInv
<1>2. ASSUME NEW c \in Comments, NEW a \in Agents, CommentWake(c, a)
      PROVE  SingleInv'
  <2>1. /\ <<c, a>> \in mail /\ Enqueue("comment", a, {c}, None)
        /\ mail' = mail \ {<<c, a>>} /\ comment' = comment
    BY <1>2 DEF CommentWake, Enqueue
  <2>2. {c} \cap Told = {} /\ {c} \in SUBSET Comments /\ "comment" \in Kinds
    BY <2>1 DEF Told, Kinds
  <2>3. Single(run', wake', Told \cup {c})
    BY <2>1, <2>2, EnqueueSingle
  <2>4. Mailed'
    BY <2>1 DEF SingleInv, Mailed
  <2>5. Told \cup {c} \subseteq Told'
    <3>1. comment[c] # "none" /\ \A b \in Agents : <<c, b>> \in mail => b = a
      BY <2>1 DEF SingleInv, Mailed
    <3>2. c \in Told'
      BY <2>1, <3>1 DEF Told
    <3>3. QED
      BY <2>1, <3>2 DEF Told
  <2>6. QED
    BY <2>3, <2>4, <2>5, SingleGrows DEF SingleInv
<1>3. ASSUME SystemWake
      PROVE  SingleInv'
  <2>1. /\ Enqueue("system", issue.assignee, {}, None) /\ UNCHANGED <<comment, mail>>
        /\ issue.assignee \in Agents /\ "system" \in Kinds
        /\ {} \in SUBSET Comments /\ {} \cap Told = {}
    BY <1>3 DEF SystemWake, Enqueue, IInv, Typed, IssueRows, Kinds
  <2>2. Single(run', wake', Told \cup {})
    BY <2>1, EnqueueSingle
  <2>3. Told \cup {} = Told
    OBVIOUS
  <2>4. QED
    BY <2>1, <2>2, <2>3, SingleKept
<1>4. QED
  BY <1>1, <1>2, <1>3 DEF Arrive

LEMMA ReassignWakeSingle ==
  ASSUME IInv, SingleInv, ReassignWake
  PROVE  SingleInv'
<1>1. /\ Enqueue("system", route.to, {}, route.run) /\ UNCHANGED <<comment, mail>>
      /\ route.to \in Agents /\ "system" \in Kinds
      /\ {} \in SUBSET Comments /\ {} \cap Told = {}
  BY DEF ReassignWake, Enqueue, IInv, Typed, Kinds
<1>2. Single(run', wake', Told \cup {})
  BY <1>1, EnqueueSingle
<1>3. Told \cup {} = Told
  OBVIOUS
<1>4. QED
  BY <1>1, <1>2, <1>3, SingleKept

LEMMA OperateSingle ==
  ASSUME IInv, SingleInv, Operate
  PROVE  SingleInv'
<1>1. ASSUME UNCHANGED <<run, wake, comment, mail>>
      PROVE  SingleInv'
  BY <1>1, SingleKept DEF SingleInv
<1>2. ASSUME NEW r \in Rows, Cancel(r), UNCHANGED <<comment, mail>>
      PROVE  SingleInv'
  BY <1>2, CancelTurn, TurnSingle, SingleKept DEF PlainTurn
<1>3. ASSUME NEW r \in Rows, Stop(r)
      PROVE  SingleInv'
  BY <1>2, <1>3 DEF Stop
<1>4. ASSUME NEW a \in Agents, ReassignStop(a)
      PROVE  SingleInv'
  <2>1. ToInterrupt \subseteq Rows
    BY DEF ToInterrupt, RunningRuns
  <2>2. QED
    BY <1>1, <1>2, <1>4, <2>1 DEF ReassignStop
<1>5. ASSUME NEW s \in Status, SetStatus(s)
      PROVE  SingleInv'
  BY <1>1, <1>5 DEF SetStatus, process
<1>6. ASSUME NEW c \in Comments, DeleteComment(c)
      PROVE  SingleInv'
  <2>1. /\ comment[c] = "live" /\ comment' = [comment EXCEPT ![c] = "deleted"] /\ mail' = mail
        /\ comment \in [Comments -> {"none", "live", "deleted"}]
    BY <1>6 DEF DeleteComment, process, IInv, Typed
  <2>2. Single(run', wake', Told)
    <3>1. CASE UNCHANGED <<run, wake>>
      BY <3>1 DEF SingleInv
    <3>2. CASE \E w \in QueueOf(c) : DiscardFrom(w, c)
      BY <3>2, DiscardSingle
    <3>3. QED
      BY <1>6, <3>1, <3>2 DEF DeleteComment
  <2>3. \A d \in Comments : (comment'[d] = "none") <=> (comment[d] = "none")
    BY <2>1
  <2>4. Told' = Told /\ Mailed'
    BY <2>1, <2>3 DEF Told, SingleInv, Mailed
  <2>5. QED
    BY <2>2, <2>4 DEF SingleInv
<1>7. QED
  BY <1>3, <1>4, <1>5, <1>6 DEF Operate

\* The executor of a run changes no other run, and no wake but the run's own.
LEMMA ExecuteTurn ==
  ASSUME IInv, NEW r \in Rows, Execute(r)
  PROVE  UNCHANGED <<run, wake>> \/ Turn(r)
<1>1. CASE Gate(r)
  BY <1>1, CancelRowsTurn DEF Gate, Waiting, PlainTurn
<1>2. CASE Claim(r)
  <2>1. Claimable(r) => Waiting(r)
    BY DEF Claimable, Waiting
  <2>2. QED
    BY <1>2, <2>1, CancelRowsTurn, TakeRunTurn DEF Claim, PlainTurn
<1>3. CASE StampClaim(r)
  BY <1>3, StampTurn DEF PlainTurn
<1>4. CASE ReleaseClaim(r)
  BY <1>4, ReleaseClaimTurn DEF PlainTurn
<1>5. CASE \E outcome \in {"succeeded", "failed"} : Finish(r, outcome)
  BY <1>5, FinishTurn DEF PlainTurn
<1>6. CASE Begin(r) \/ Checkout(r) \/ Cleanup(r)
  BY <1>6 DEF Begin, Checkout, Cleanup
<1>7. QED
  BY <1>1, <1>2, <1>3, <1>4, <1>5, <1>6 DEF Execute

LEMMA ExecuteSingle ==
  ASSUME IInv, SingleInv, NEW r \in Rows, Execute(r)
  PROVE  SingleInv'
<1>1. UNCHANGED <<comment, mail>>
  BY DEF Execute, Gate, Claim, StampClaim, ReleaseClaim, Begin, Checkout, Finish, Cleanup, process
<1>2. Single(run', wake', Told)
  BY ExecuteTurn, TurnSingle DEF SingleInv
<1>3. QED
  BY <1>1, <1>2, SingleKept

LEMMA RecoverySingle ==
  ASSUME IInv, SingleInv, Recovery
  PROVE  SingleInv'
<1>1. ASSUME NEW r \in Rows, Reap(r)
      PROVE  SingleInv'
  BY <1>1, ReapTurn, TurnSingle, SingleKept DEF PlainTurn, Reap
<1>2. ASSUME NEW r \in Rows, ScheduleRetry(r)
      PROVE  SingleInv'
  <2>1. Ended(r) /\ UNCHANGED <<comment, mail>>
    BY <1>2 DEF ScheduleRetry, IInv, Driven, Settlement
  <2>2. Single(run', wake', Told)
    <3>1. CASE UNCHANGED <<run, wake>>
      BY <3>1 DEF SingleInv
    <3>2. CASE RetryOf(r)
      BY <2>1, <3>2, RetrySingle
    <3>3. QED
      BY <1>2, <3>1, <3>2 DEF ScheduleRetry
  <2>3. QED
    BY <2>1, <2>2, SingleKept
<1>3. ASSUME NEW r \in Rows, PromoteRetry(r)
      PROVE  SingleInv'
  <2>1. UNCHANGED <<comment, mail>> /\ Waiting(r)
    BY <1>3 DEF PromoteRetry, process, Waiting
  <2>2. Turn(r)
    BY <1>3, <2>1, CancelRowsTurn, DueTurn DEF PromoteRetry, PlainTurn
  <2>3. QED
    BY <2>1, <2>2, TurnSingle, SingleKept
<1>4. ASSUME NEW r \in Rows, ResumeStranded(r)
      PROVE  SingleInv'
  <2>1. PICK fact \in [Agents -> Facts] : ReleaseIssue(r, TRUE, TRUE, fact)
    BY <1>4 DEF ResumeStranded
  <2>2. UNCHANGED <<comment, mail>> /\ Ended(r)
    BY <1>4, <2>1 DEF ResumeStranded, ReleaseIssue
  <2>3. QED
    BY <2>1, <2>2, ReleaseSingle, SingleKept
<1>5. ASSUME SweepStaleLock
      PROVE  SingleInv'
  BY <1>5, SingleKept DEF SweepStaleLock, process, SingleInv
<1>6. QED
  BY <1>1, <1>2, <1>3, <1>4, <1>5 DEF Recovery

LEMMA NextSingle ==
  ASSUME IInv, SingleInv, [Next]_vars
  PROVE  SingleInv'
<1>1. CASE Restart
  <2>1. UNCHANGED <<run, wake, comment>> /\ mail' = {}
    BY <1>1 DEF Restart
  <2>2. Mailed' /\ Told \subseteq Told'
    BY <2>1 DEF Mailed, Told
  <2>3. QED
    BY <2>1, <2>2, SingleGrows DEF SingleInv
<1>2. CASE ReassignCommit
  BY <1>2, SingleKept DEF ReassignCommit, SingleInv
<1>3. ASSUME NEW r \in Rows, NEW how \in Settlement, Release(r, how)
      PROVE  SingleInv'
  <2>1. PICK fact \in [Agents -> Facts] : ReleaseWith(r, how, fact)
    BY <1>3 DEF Release
  <2>2. UNCHANGED <<comment, mail>> /\ Ended(r)
    BY <2>1 DEF ReleaseWith, ReleaseIssue, IInv, Driven
  <2>3. Single(run', wake', Told)
    BY <2>1, <2>2, ReleaseSingle DEF ReleaseWith
  <2>4. QED
    BY <2>2, <2>3, SingleKept
<1>4. CASE UNCHANGED vars
  BY <1>4, SingleKept DEF vars, process, SingleInv
<1>5. QED
  BY <1>1, <1>2, <1>3, <1>4, ArriveSingle, OperateSingle, ReassignWakeSingle, RecoverySingle,
     ExecuteSingle DEF Next

LEMMA InitSingle == Init => SingleInv
<1> SUFFICES ASSUME Init PROVE SingleInv
  OBVIOUS
<1>1. /\ mail = {} /\ \A r \in Rows : run[r].ctx = {}
      /\ \A w \in Rows : wake[w].st = "none" /\ wake[w].env = {} /\ wake[w].msg = {}
  BY DEF Init
<1>2. QED
  BY <1>1 DEF SingleInv, Mailed, Single, Places, Unshared

\* A comment is in two runs only if the later one continues another run that has it.
THEOREM MessagesSingle == Spec => []SingleInv
<1>1. IInv /\ SingleInv /\ [Next]_vars => SingleInv'
  BY NextSingle
<1>2. QED
  BY InitSingle, Inductive, <1>1, PTL DEF Spec

\* A comment is given to one execution: a later run has it only as the retry of a run
\* that had it, whatever wakes merge, defer, adopt and promote its message.
THEOREM GivenOnce == Spec => []NoDuplicateDelivery
<1>1. SingleInv => NoDuplicateDelivery
  BY DEF SingleInv, Single, Unshared, NoDuplicateDelivery
<1>2. QED
  BY MessagesSingle, <1>1, PTL

------------------------------------------------------------------------------
(* Saved comments follow the assignee.                                        *)

\* A comment saved for an agent that is not the assignee.
Misplaced(w) ==
  /\ wake[w].st = "deferred" /\ wake[w].kind = "comment" /\ wake[w].env # {}
  /\ wake[w].agent # issue.assignee

\* The step of a run does not touch a saved wake.
LEMMA TurnSaved ==
  ASSUME NEW r \in Rows, Turn(r), NEW w \in Deferred
  PROVE  wake'[w] = wake[w]
BY DEF Turn, Deferred

LEMMA EnqueueFollows ==
  ASSUME IInv, NEW kind \in Kinds, NEW a \in Agents, NEW cs \in SUBSET Comments, NEW from,
         Enqueue(kind, a, cs, from), NEW u \in Deferred
  PROVE  wake'[u].st # "queued"
<1>1. u \in Rows /\ wake[u].st = "deferred" /\ WakesBehind[u].st = "deferred"
  BY UntouchedBehind DEF Deferred
<1>2. CASE Joins(a, cs) /\ JoinRun(kind, a, cs)
  <2>1. PICK w \in Rows : JoinedInto(kind, a, cs, w)
    BY <1>2, JoinEffect DEF Joins
  <2>2. QED
    BY <1>1, <2>1 DEF JoinedInto
<1>3. CASE DeferWake(kind, a, cs)
  <2>1. PICK w \in Rows : SavedIn(kind, a, cs, w)
    BY <1>3, DeferEffect
  <2>2. QED
    BY <1>1, <2>1 DEF SavedIn
<1>4. CASE StartRun(kind, a, cs, from)
  <2>1. PICK w \in Rows, n \in Rows : StartedAs(kind, a, cs, from, w, n)
    BY <1>4, StartEffect
  <2>2. u # w /\ (wake'[u].st = "coalesced" \/ wake'[u] = WakesBehind[u])
    BY <1>1, <2>1 DEF StartedAs
  <2>3. QED
    BY <1>1, <2>2
<1>5. QED
  BY <1>2, <1>3, <1>4 DEF Enqueue

\* The drain skips, or drops, the comments of a former assignee.
LEMMA ReleaseFollows ==
  ASSUME IInv, NEW r \in Rows, NEW quiet, NEW resume, NEW fact,
         ReleaseIssue(r, quiet, resume, fact), NEW u \in Rows, Misplaced(u)
  PROVE  wake'[u].st # "queued"
<1> DEFINE wk == WakesDrained(r, resume, fact)
<1>1. wake[u].st = "deferred" /\ wk[u].st # "queued"
  BY DrainEffect DEF Misplaced
<1> HIDE DEF wk
<1>2. CASE Promote(r, resume, fact)
  <2>1. PICK w \in Promoted(r, resume, fact), n \in Rows : PromotedAs(r, resume, fact, w, n)
    BY <1>2, PromoteEffect
  <2>2. Disposition(w, r, resume, fact) = "promote"
    BY DEF Promoted
  <2>3. Disposition(u, r, resume, fact) \in {"skip", "cancel"}
    BY DEF Disposition, Misplaced
  <2>4. u # w /\ wake'[u] = wk[u]
    BY <2>1, <2>2, <2>3 DEF PromotedAs, wk
  <2>5. QED
    BY <1>1, <2>4
<1>3. CASE Recover(r, resume, fact)
  <2>1. PICK w \in Rows, n \in Rows : RecoveredAs(r, resume, fact, w, n)
    BY <1>3, RecoverEffect
  <2>2. u # w /\ wake'[u] = wk[u]
    BY <1>1, <2>1 DEF RecoveredAs, wk
  <2>3. QED
    BY <1>1, <2>2
<1>4. QED
  BY <1>1, <1>2, <1>3 DEF ReleaseIssue, wk

LEMMA NextFollows ==
  ASSUME IInv, [Next]_vars, NEW u \in Rows, Misplaced(u)
  PROVE  wake'[u].st # "queued"
<1>1. u \in Deferred /\ wake[u].st = "deferred"
  BY DEF Misplaced, Deferred
<1>2. CASE Arrive
  <2>1. ASSUME NEW c \in Comments, NEW a \in Agents, CommentWake(c, a)
        PROVE  wake'[u].st # "queued"
    BY <1>1, <2>1, EnqueueFollows DEF CommentWake, Kinds
  <2>2. ASSUME SystemWake
        PROVE  wake'[u].st # "queued"
    <3>1. issue.assignee \in Agents
      BY DEF IInv, Typed, IssueRows
    <3>2. QED
      BY <1>1, <2>2, <3>1, EnqueueFollows DEF SystemWake, Kinds
  <2>3. QED
    BY <1>1, <1>2, <2>1, <2>2 DEF Arrive, PostComment
<1>3. CASE Operate
  <2>1. ASSUME NEW r \in Rows, Cancel(r)
        PROVE  wake'[u].st # "queued"
    BY <1>1, <2>1, CancelTurn, TurnSaved DEF PlainTurn
  <2>2. ASSUME NEW a \in Agents, ReassignStop(a)
        PROVE  wake'[u].st # "queued"
    <3>1. ToInterrupt \subseteq Rows
      BY DEF ToInterrupt, RunningRuns
    <3>2. QED
      BY <1>1, <2>1, <2>2, <3>1 DEF ReassignStop
  <2>3. ASSUME NEW c \in Comments, DeleteComment(c)
        PROVE  wake'[u].st # "queued"
    <3>1. ASSUME NEW w \in QueueOf(c), DiscardFrom(w, c)
          PROVE  wake'[u].st # "queued"
      <4>1. CASE wake[w].st = "deferred"
        <5>1. /\ \A v \in Rows \ {w} : wake'[v] = wake[v]
              /\ wake'[w].st \in {"cancelled", "deferred"}
          BY <3>1, <4>1, DiscardSaved
        <5>2. QED
          BY <1>1, <5>1
      <4>2. CASE wake[w].st # "deferred"
        <5>1. wake[w].run \in Rows /\ Turn(wake[w].run)
          BY <3>1, <4>2, DiscardEffect
        <5>2. QED
          BY <1>1, <5>1, TurnSaved
      <4>3. QED
        BY <4>1, <4>2
    <3>2. QED
      BY <1>1, <2>3, <3>1 DEF DeleteComment
  <2>4. QED
    BY <1>1, <1>3, <2>1, <2>2, <2>3 DEF Operate, Stop, SetStatus
<1>4. CASE ReassignWake
  <2>1. Enqueue("system", route.to, {}, route.run) /\ route.to \in Agents
    BY <1>4 DEF ReassignWake, IInv, Typed
  <2>2. QED
    BY <1>1, <2>1, EnqueueFollows DEF Kinds
<1>5. ASSUME NEW r \in Rows, Execute(r)
      PROVE  wake'[u].st # "queued"
  BY <1>1, <1>5, ExecuteTurn, TurnSaved
<1>6. CASE Recovery
  <2>1. ASSUME NEW r \in Rows, ScheduleRetry(r)
        PROVE  wake'[u].st # "queued"
    <3>1. CASE RetryOf(r)
      <4>1. PICK w \in Rows, n \in Rows : RetriedAs(r, w, n)
        BY <3>1, RetryEffect
      <4>2. QED
        BY <1>1, <4>1 DEF RetriedAs
    <3>2. QED
      BY <1>1, <2>1, <3>1 DEF ScheduleRetry
  <2>2. ASSUME NEW r \in Rows, Reap(r) \/ PromoteRetry(r)
        PROVE  wake'[u].st # "queued"
    <3>1. Turn(r)
      BY <2>2, ReapTurn, CancelRowsTurn, DueTurn DEF PromoteRetry, PlainTurn, Waiting
    <3>2. QED
      BY <1>1, <3>1, TurnSaved
  <2>3. ASSUME NEW r \in Rows, ResumeStranded(r)
        PROVE  wake'[u].st # "queued"
    BY <2>3, ReleaseFollows DEF ResumeStranded
  <2>4. QED
    BY <1>1, <1>6, <2>1, <2>2, <2>3 DEF Recovery, SweepStaleLock
<1>7. ASSUME NEW r \in Rows, NEW how \in Settlement, Release(r, how)
      PROVE  wake'[u].st # "queued"
  BY <1>7, ReleaseFollows DEF Release, ReleaseWith
<1>8. CASE ReassignCommit \/ Restart \/ UNCHANGED vars
  BY <1>1, <1>8 DEF ReassignCommit, Restart, vars
<1>9. QED
  BY <1>2, <1>3, <1>4, <1>5, <1>6, <1>7, <1>8 DEF Next

\* Ordinary comments saved for an agent are given to a run only while the agent has
\* the issue: no release, sweep or resumption queues them after a reassignment.
THEOREM SavedFollowsOwner == Spec => DeferredFollowsOwner
<1>1. IInv /\ [Next]_vars
        => [\A w \in Deferred : wake[w].kind = "comment" /\ wake[w].env # {}
                                  /\ wake[w].agent # issue.assignee => wake'[w].st # "queued"]_vars
  BY NextFollows DEF Misplaced, Deferred
<1>2. QED
  BY Inductive, <1>1, PTL DEF Spec, DeferredFollowsOwner

------------------------------------------------------------------------------
(* Nobody loses what waits for the assignee.                                  *)

SavedFor(c, u) == u \in DeferredFor(issue.assignee) /\ c \in wake[u].env
NotLost(c) == Kept(c)' \/ comment'[c] = "deleted" \/ AnsweredNow(c)

\* Where a step keeps a comment.
LEMMA KeptByWake ==
  ASSUME NEW c, NEW u \in Rows, wake'[u].st = "deferred", c \in wake'[u].env
  PROVE  Kept(c)'
BY DEF Kept, Deferred

LEMMA KeptByRun ==
  ASSUME NEW c, NEW r \in Rows, c \in run'[r].ctx,
         run'[r].st \in {"queued", "scheduled"} \/ run'[r].started
  PROVE  Kept(c)'
BY DEF Kept, Waiting

\* The tables stay: so does the comment.
LEMMA TablesKeep ==
  ASSUME NEW c, WaitsForOwner(c), UNCHANGED <<run, wake>>
  PROVE  Kept(c)'
BY KeptByWake, KeptByRun DEF WaitsForOwner, DeferredFor, Deferred, InTurn

\* A step that leaves alone the run of r's wake and every saved wake.
LEMMA TurnLosesNone ==
  ASSUME NEW c, WaitsForOwner(c), NEW r \in Rows, Turn(r), ~InTurn(c, r)
  PROVE  Kept(c)'
<1>1. ASSUME NEW u, SavedFor(c, u)
      PROVE  Kept(c)'
  BY <1>1, TurnSaved, KeptByWake DEF SavedFor, DeferredFor, Deferred
<1>2. ASSUME NEW q \in Rows, InTurn(c, q)
      PROVE  Kept(c)'
  <2>1. run'[q] = run[q] /\ run[q].st = "queued" /\ c \in run[q].ctx
    BY <1>2 DEF Turn, InTurn
  <2>2. QED
    BY <2>1, KeptByRun
<1>3. QED
  BY <1>1, <1>2 DEF WaitsForOwner, SavedFor

\* A wake that arrives joins it, saves its own comment beside it, or takes it over; it
\* cancels only runs of a former assignee.
LEMMA EnqueueLosesNone ==
  ASSUME IInv, NEW kind \in Kinds, NEW a \in Agents, NEW cs \in SUBSET Comments, NEW from,
         Enqueue(kind, a, cs, from), NEW c, comment[c] = "live", WaitsForOwner(c)
  PROVE  Kept(c)'
<1>1. ASSUME NEW u, SavedFor(c, u)
      PROVE  Kept(c)'
  <2>1. u \in Rows /\ wake[u].st = "deferred" /\ WakesBehind[u] = wake[u] /\ c \in wake[u].env
    BY <1>1, UntouchedBehind DEF SavedFor, DeferredFor, Deferred
  <2>2. CASE Joins(a, cs) /\ JoinRun(kind, a, cs)
    <3>1. PICK w \in Rows : JoinedInto(kind, a, cs, w)
      BY <2>2, JoinEffect DEF Joins
    <3>2. wake'[u] = wake[u]
      BY <2>1, <3>1 DEF JoinedInto
    <3>3. QED
      BY <2>1, <3>2, KeptByWake
  <2>3. CASE DeferWake(kind, a, cs)
    <3>1. PICK w \in Rows : SavedIn(kind, a, cs, w)
      BY <2>3, DeferEffect
    <3>2. wake'[u].st = "deferred" /\ c \in wake'[u].env
      BY <2>1, <3>1 DEF SavedIn
    <3>3. QED
      BY <2>1, <3>2, KeptByWake
  <2>4. CASE StartRun(kind, a, cs, from)
    <3>1. PICK w \in Rows, n \in Rows : StartedAs(kind, a, cs, from, w, n)
      BY <2>4, StartEffect
    <3>2. CASE u \in Adopted(a, from)
      <4>1. c \in Saved(Adopted(a, from)) /\ c \in LiveIds(Saved(Adopted(a, from)))
        BY <2>1, <3>2 DEF Saved, LiveIds
      <4>2. c \in run'[n].ctx /\ run'[n].st = "queued"
        BY <3>1, <4>1 DEF StartedAs, QueuedRun
      <4>3. QED
        BY <4>2, KeptByRun
    <3>3. CASE u \notin Adopted(a, from)
      <4>1. wake'[u] = wake[u]
        BY <2>1, <3>1, <3>3 DEF StartedAs
      <4>2. QED
        BY <2>1, <4>1, KeptByWake
    <3>4. QED
      BY <3>2, <3>3
  <2>5. QED
    BY <2>2, <2>3, <2>4 DEF Enqueue
<1>2. ASSUME NEW r \in Rows, InTurn(c, r)
      PROVE  Kept(c)'
  <2>1. /\ run[r].st = "queued" /\ c \in run[r].ctx /\ r \notin StaleHolders
        /\ RunsBehind[r] = run[r]
    BY <1>2, StaleHoldersWait, Behind DEF InTurn, Owns
  <2>2. CASE Joins(a, cs) /\ JoinRun(kind, a, cs)
    <3>1. PICK w \in Rows : JoinedInto(kind, a, cs, w)
      BY <2>2, JoinEffect DEF Joins
    <3>2. run'[r].st = "queued" /\ c \in run'[r].ctx
      BY <2>1, <3>1 DEF JoinedInto
    <3>3. QED
      BY <3>2, KeptByRun
  <2>3. CASE DeferWake(kind, a, cs)
    <3>1. run'[r] = run[r]
      BY <2>1, <2>3, DeferEffect
    <3>2. QED
      BY <2>1, <3>1, KeptByRun
  <2>4. CASE StartRun(kind, a, cs, from)
    <3>1. PICK w \in Rows, n \in Rows : StartedAs(kind, a, cs, from, w, n)
      BY <2>4, StartEffect
    <3>2. run'[r] = run[r]
      BY <2>1, <3>1 DEF StartedAs
    <3>3. QED
      BY <2>1, <3>2, KeptByRun
  <2>5. QED
    BY <2>2, <2>3, <2>4 DEF Enqueue
<1>3. QED
  BY <1>1, <1>2 DEF WaitsForOwner, SavedFor

\* What the drain leaves of the assignee's saved comments.
LEMMA DrainLosesNone ==
  ASSUME IInv, "held" \notin Facts, NEW r, NEW resume, NEW fact \in [Agents -> Facts],
         NEW c, comment[c] = "live", NEW u, SavedFor(c, u)
  PROVE  /\ u \in Rows /\ wake[u].st = "deferred"
         /\ LET x == WakesDrained(r, resume, fact)[u]
            IN  x.st = "failed" \/ (x.st = "deferred" /\ c \in x.env)
<1> DEFINE x == WakesDrained(r, resume, fact)[u]
<1>1. /\ u \in Rows /\ wake[u].st = "deferred" /\ wake[u].agent = issue.assignee
      /\ c \in LiveIds(wake[u].env)
  BY DEF SavedFor, DeferredFor, Deferred, LiveIds
<1>2. wake[u].agent \in Agents
  BY <1>1 DEF IInv, Sound, WakeRows, WakeRecord
<1>3. fact[wake[u].agent] # "held"
  BY <1>2
<1>4. LiveIds(wake[u].env) # {}
  BY <1>1
<1>5. Disposition(u, r, resume, fact) # "cancel"
  BY <1>1, <1>3, <1>4 DEF Disposition
<1>6. x = wake[u] \/ x.st = "failed" \/ (x.st = "deferred" /\ x.env = LiveIds(wake[u].env))
  BY <1>1, <1>5, DrainEffect
<1>7. c \in wake[u].env
  BY <1>1 DEF LiveIds
<1>8. QED
  BY <1>1, <1>6, <1>7

\* The release of whatever run promotes it, or leaves it saved.
LEMMA ReleaseLosesNone ==
  ASSUME IInv, "held" \notin Facts, NEW r \in Rows, NEW quiet, NEW resume,
         NEW fact \in [Agents -> Facts], ReleaseIssue(r, quiet, resume, fact),
         NEW c, comment[c] = "live", WaitsForOwner(c)
  PROVE  NotLost(c)
<1> DEFINE wk == WakesDrained(r, resume, fact)
<1>1. ASSUME NEW u, SavedFor(c, u)
      PROVE  NotLost(c)
  <2>1. /\ u \in Rows /\ wake[u].st = "deferred" /\ u \in Deferred /\ c \in wake[u].env
        /\ wk[u].st = "failed" \/ (wk[u].st = "deferred" /\ c \in wk[u].env)
    BY <1>1, DrainLosesNone DEF SavedFor, DeferredFor
  <2> HIDE DEF wk
  <2>2. ASSUME wake'[u] = wk[u] \/ wake'[u] = wake[u]
        PROVE  NotLost(c)
    <3>1. wake'[u].st = "failed" \/ (wake'[u].st = "deferred" /\ c \in wake'[u].env)
      BY <2>1, <2>2
    <3>2. QED
      BY <2>1, <3>1, KeptByWake DEF NotLost, AnsweredNow
  <2>3. CASE Promote(r, resume, fact)
    <3>1. PICK w \in Promoted(r, resume, fact), n \in Rows : PromotedAs(r, resume, fact, w, n)
      BY <2>3, PromoteEffect
    <3>2. CASE u = w
      <4>1. c \in LiveIds(wake[u].env)
        BY <2>1 DEF LiveIds
      <4>2. run'[n].st = "queued" /\ c \in run'[n].ctx
        BY <3>1, <3>2, <4>1 DEF PromotedAs, QueuedRun
      <4>3. QED
        BY <4>2, KeptByRun DEF NotLost
    <3>3. CASE u # w
      <4>1. wake'[u] = wk[u]
        BY <2>1, <3>1, <3>3 DEF PromotedAs, wk
      <4>2. QED
        BY <2>2, <4>1
    <3>4. QED
      BY <3>2, <3>3
  <2>4. CASE Recover(r, resume, fact)
    <3>1. PICK w \in Rows, n \in Rows : RecoveredAs(r, resume, fact, w, n)
      BY <2>4, RecoverEffect
    <3>2. wake'[u] = wk[u]
      BY <2>1, <3>1 DEF RecoveredAs, wk
    <3>3. QED
      BY <2>2, <3>2
  <2>5. CASE wake' = wake \/ wake' = wk
    BY <2>2, <2>5
  <2>6. Promote(r, resume, fact) \/ Recover(r, resume, fact) \/ wake' = wake \/ wake' = wk
    BY DEF ReleaseIssue, wk
  <2>7. QED
    BY <2>3, <2>4, <2>5, <2>6
<1>2. ASSUME NEW q \in Rows, InTurn(c, q)
      PROVE  NotLost(c)
  <2>1. run[q].st = "queued" /\ c \in run[q].ctx
    BY <1>2 DEF InTurn
  <2>2. run'[q] = run[q]
    <3>1. CASE Promote(r, resume, fact)
      <4>1. PICK w \in Promoted(r, resume, fact), n \in Rows : PromotedAs(r, resume, fact, w, n)
        BY <3>1, PromoteEffect
      <4>2. QED
        BY <2>1, <4>1 DEF PromotedAs
    <3>2. CASE Recover(r, resume, fact)
      BY <2>1, <3>2, RecoverEffect DEF RecoveredAs
    <3>3. QED
      BY <3>1, <3>2 DEF ReleaseIssue
  <2>3. QED
    BY <2>1, <2>2, KeptByRun DEF NotLost
<1>3. QED
  BY <1>1, <1>2 DEF WaitsForOwner, SavedFor

\* A queued run of the assignee is not stale, and its claim keeps its live comments.
LEMMA ExecuteLosesNone ==
  ASSUME IInv, NEW r \in Rows, Execute(r), NEW c, comment[c] = "live", WaitsForOwner(c)
  PROVE  Kept(c)'
<1>1. CASE UNCHANGED <<run, wake>>
  BY <1>1, TablesKeep
<1>2. CASE Turn(r) /\ ~InTurn(c, r)
  BY <1>2, TurnLosesNone
<1>3. CASE InTurn(c, r)
  <2> DEFINE w == run[r].wake
  <2>1. /\ run[r].st = "queued" /\ Owns(r) /\ c \in run[r].ctx
        /\ wake[w].env # {} => c \in LiveIds(wake[w].env)
    BY <1>3 DEF InTurn, LiveIds
  <2>2. ~Stale(r) /\ ~Emptied(r)
    BY <2>1 DEF Stale, Owns, Emptied
  <2>3. CASE Claimable(r) /\ TakeRun(r)
    <3>1. run'[r].started /\ c \in run'[r].ctx
      BY <2>1, <2>3, TakeRunTurn
    <3>2. QED
      BY <3>1, KeptByRun
  <2>4. CASE Gate(r) \/ Claim(r)
    BY <1>1, <2>2, <2>3, <2>4 DEF Gate, Claim
  <2>5. CASE StampClaim(r)
    <3>1. run'[r] = run[r]
      BY <2>5 DEF StampClaim
    <3>2. QED
      BY <2>1, <3>1, KeptByRun
  <2>6. QED
    BY <1>1, <2>1, <2>4, <2>5 DEF Execute, ReleaseClaim, Begin, Checkout, Finish, Cleanup
<1>4. QED
  BY <1>1, <1>2, <1>3, ExecuteTurn

\* A Stop is an answer; the edit of a queue takes the deleted comment alone.
LEMMA OperateLosesNone ==
  ASSUME IInv, Operate, NEW c \in Comments, comment[c] = "live", WaitsForOwner(c)
  PROVE  NotLost(c)
<1>1. ASSUME NEW r \in Rows, Cancel(r)
      PROVE  NotLost(c)
  <2>1. Turn(r) /\ run'[r].stopped /\ Active(r)
    BY <1>1, CancelTurn DEF PlainTurn, Cancel
  <2>2. CASE InTurn(c, r)
    BY <2>1, <2>2 DEF NotLost, AnsweredNow, InTurn
  <2>3. CASE ~InTurn(c, r)
    BY <2>1, <2>3, TurnLosesNone DEF NotLost
  <2>4. QED
    BY <2>2, <2>3
<1>2. ASSUME NEW a \in Agents, ReassignStop(a)
      PROVE  NotLost(c)
  <2>1. ToInterrupt \subseteq Rows
    BY DEF ToInterrupt, RunningRuns
  <2>2. QED
    BY <1>1, <1>2, <2>1, TablesKeep DEF ReassignStop, NotLost
<1>3. ASSUME NEW d \in Comments, DeleteComment(d)
      PROVE  NotLost(c)
  <2>1. CASE d = c
    <3>1. comment \in [Comments -> {"none", "live", "deleted"}]
      BY DEF IInv, Typed
    <3>2. QED
      BY <1>3, <2>1, <3>1 DEF DeleteComment, NotLost
  <2>2. ASSUME d # c, NEW w \in QueueOf(d), DiscardFrom(w, d)
        PROVE  Kept(c)'
    <3>1. CASE wake[w].st = "deferred"
      <4>1. /\ w \in Rows /\ run' = run
            /\ \A v \in Rows \ {w} : wake'[v] = wake[v]
            /\ wake'[w].env = wake[w].env \ {d}
            /\ wake'[w].st = IF wake[w].env \ {d} = {} THEN "cancelled" ELSE "deferred"
        BY <2>2, <3>1, DiscardSaved
      <4>2. ASSUME NEW u, SavedFor(c, u)
            PROVE  Kept(c)'
        <5>1. u \in Rows /\ wake[u].st = "deferred" /\ c \in wake[u].env
          BY <4>2 DEF SavedFor, DeferredFor, Deferred
        <5>2. wake'[u].st = "deferred" /\ c \in wake'[u].env
          BY <2>2, <4>1, <5>1
        <5>3. QED
          BY <5>1, <5>2, KeptByWake
      <4>3. ASSUME NEW q \in Rows, InTurn(c, q)
            PROVE  Kept(c)'
        BY <4>1, <4>3, KeptByRun DEF InTurn
      <4>4. QED
        BY <4>2, <4>3 DEF WaitsForOwner, SavedFor
    <3>2. CASE wake[w].st # "deferred"
      <4> DEFINE r == wake[w].run
      <4>1. /\ r \in Rows /\ run[r].wake = w /\ Turn(r) /\ d \in wake[w].env
            /\ \/ wake[w].env \ {d} = {}
               \/ run'[r].st = "queued" /\ run'[r].ctx = wake[w].env \ {d}
        BY <2>2, <3>2, DiscardEffect
      <4> HIDE DEF r
      <4>2. CASE InTurn(c, r)
        <5>1. c \in wake[w].env \ {d}
          BY <2>2, <4>1, <4>2 DEF InTurn
        <5>2. run'[r].st = "queued" /\ c \in run'[r].ctx
          BY <4>1, <5>1
        <5>3. QED
          BY <4>1, <5>2, KeptByRun
      <4>3. QED
        BY <4>1, <4>2, TurnLosesNone
    <3>3. QED
      BY <3>1, <3>2
  <2>3. QED
    BY <1>3, <2>1, <2>2, TablesKeep DEF DeleteComment, NotLost
<1>4. ASSUME NEW s \in Status, SetStatus(s)
      PROVE  NotLost(c)
  BY <1>4, TablesKeep DEF SetStatus, NotLost
<1>5. QED
  BY <1>1, <1>2, <1>3, <1>4 DEF Operate, Stop

\* The periodic passes: no retry and no reaped run is a queued run of the assignee.
LEMMA RecoveryLosesNone ==
  ASSUME IInv, "held" \notin Facts, Recovery, NEW c, comment[c] = "live", WaitsForOwner(c)
  PROVE  NotLost(c)
<1>1. ASSUME NEW r \in Rows, Reap(r) \/ PromoteRetry(r)
      PROVE  NotLost(c)
  <2>1. Turn(r)
    BY <1>1, ReapTurn, CancelRowsTurn, DueTurn DEF PromoteRetry, PlainTurn, Waiting
  <2>2. ~InTurn(c, r)
    BY <1>1 DEF Reap, PromoteRetry, InTurn
  <2>3. QED
    BY <2>1, <2>2, TurnLosesNone DEF NotLost
<1>2. ASSUME NEW r \in Rows, ScheduleRetry(r)
      PROVE  NotLost(c)
  <2>1. CASE RetryOf(r)
    <3>1. PICK w \in Rows, n \in Rows : RetriedAs(r, w, n)
      BY <2>1, RetryEffect
    <3>2. ASSUME NEW u, SavedFor(c, u)
          PROVE  Kept(c)'
      <4>1. u \in Rows /\ wake[u].st = "deferred" /\ c \in wake[u].env
        BY <3>2 DEF SavedFor, DeferredFor, Deferred
      <4>2. wake'[u] = wake[u]
        BY <3>1, <4>1 DEF RetriedAs
      <4>3. QED
        BY <4>1, <4>2, KeptByWake
    <3>3. ASSUME NEW q \in Rows, InTurn(c, q)
          PROVE  Kept(c)'
      BY <3>1, <3>3, KeptByRun DEF RetriedAs, InTurn
    <3>4. QED
      BY <3>2, <3>3 DEF WaitsForOwner, SavedFor, NotLost
  <2>2. QED
    BY <1>2, <2>1, TablesKeep DEF ScheduleRetry, NotLost
<1>3. ASSUME NEW r \in Rows, ResumeStranded(r)
      PROVE  NotLost(c)
  BY <1>3, ReleaseLosesNone DEF ResumeStranded
<1>4. ASSUME SweepStaleLock
      PROVE  NotLost(c)
  BY <1>4, TablesKeep DEF SweepStaleLock, NotLost
<1>5. QED
  BY <1>1, <1>2, <1>3, <1>4 DEF Recovery

LEMMA ArriveLosesNone ==
  ASSUME IInv, Arrive, NEW c, comment[c] = "live", WaitsForOwner(c)
  PROVE  NotLost(c)
<1>1. ASSUME NEW d \in Comments, NEW a \in Agents, CommentWake(d, a)
      PROVE  NotLost(c)
  BY <1>1, EnqueueLosesNone DEF CommentWake, Kinds, NotLost
<1>2. ASSUME SystemWake
      PROVE  NotLost(c)
  <2>1. issue.assignee \in Agents
    BY DEF IInv, Typed, IssueRows
  <2>2. QED
    BY <1>2, <2>1, EnqueueLosesNone DEF SystemWake, Kinds, NotLost
<1>3. ASSUME NEW d \in Comments, PostComment(d)
      PROVE  NotLost(c)
  BY <1>3, TablesKeep DEF PostComment, NotLost
<1>4. QED
  BY <1>1, <1>2, <1>3 DEF Arrive

LEMMA NextLosesNone ==
  ASSUME IInv, "held" \notin Facts, [Next]_vars,
         NEW c \in Comments, comment[c] = "live", WaitsForOwner(c)
  PROVE  NotLost(c)
<1>1. CASE Arrive
  BY <1>1, ArriveLosesNone
<1>2. CASE Operate
  BY <1>2, OperateLosesNone
<1>3. CASE ReassignWake
  <2>1. Enqueue("system", route.to, {}, route.run) /\ route.to \in Agents
    BY <1>3 DEF ReassignWake, IInv, Typed
  <2>2. QED
    BY <2>1, EnqueueLosesNone DEF Kinds, NotLost
<1>4. ASSUME NEW r \in Rows, Execute(r)
      PROVE  NotLost(c)
  BY <1>4, ExecuteLosesNone DEF NotLost
<1>5. CASE Recovery
  BY <1>5, RecoveryLosesNone
<1>6. ASSUME NEW r \in Rows, NEW how \in Settlement, Release(r, how)
      PROVE  NotLost(c)
  BY <1>6, ReleaseLosesNone DEF Release, ReleaseWith
<1>7. CASE ReassignCommit \/ Restart \/ UNCHANGED vars
  BY <1>7, TablesKeep DEF ReassignCommit, Restart, vars, NotLost
<1>8. QED
  BY <1>1, <1>2, <1>3, <1>4, <1>5, <1>6, <1>7 DEF Next

\* Where no subtree is under a pause hold, no step of anybody loses a live comment that
\* waits for the present assignee, however often the issue is handed on: it stays
\* saved or given to a run, or it is deleted, or its assignee is gone, or a person
\* stops its run.
THEOREM OwnersMessagesStay == "held" \notin Facts => (Spec => OwnersMessagesKept)
<1> SUFFICES ASSUME "held" \notin Facts
             PROVE  Spec => OwnersMessagesKept
  OBVIOUS
<1>1. IInv /\ [Next]_vars
        => [\A c \in Comments :
              comment[c] = "live" /\ WaitsForOwner(c)
                => Kept(c)' \/ comment'[c] = "deleted" \/ AnsweredNow(c)]_vars
  BY NextLosesNone DEF NotLost
<1>2. QED
  BY Inductive, <1>1, PTL DEF Spec, OwnersMessagesKept

------------------------------------------------------------------------------
(* While nobody reassigns the issue, one agent has everything.                *)

\* The runs and wakes of the tables are of agent a, and saved wakes are for comments.
OneAgent(rn, wk, a) ==
  /\ \A r \in Rows : rn[r].st # "none" => rn[r].agent = a
  /\ \A w \in Rows : wk[w].st # "none" => wk[w].agent = a
  /\ \A w \in Rows : wk[w].st = "deferred" => wk[w].kind = "comment"
Sole ==
  /\ route.phase = "idle"
  /\ \A c \in Comments, a \in Agents : <<c, a>> \in mail => a = issue.assignee
  /\ OneAgent(run, wake, issue.assignee)

\* No holder of the lock is stale.
LEMMA NoStaleHolder ==
  ASSUME IInv, Sole
  PROVE  /\ \A r \in Rows : run[r].st # "none" => Owns(r)
         /\ RunsBehind = run /\ WakesBehind = wake
<1>1. \A r \in Rows : run[r].st # "none" => Owns(r)
  BY DEF Sole, OneAgent, Owns, Former
<1>2. StaleHolders = {}
  BY <1>1, StaleHoldersWait DEF Waiting, Owns
<1>3. (\A r \in Rows : RunsBehind[r] = run[r]) /\ (\A w \in Rows : WakesBehind[w] = wake[w])
  BY <1>2, Behind
<1>4. run \in [Rows -> RunRecord] /\ wake \in [Rows -> WakeRecord]
  BY DEF IInv, Sound, RunRows, WakeRows
<1>5. RunsBehind \in [Rows -> RunRecord] /\ WakesBehind \in [Rows -> WakeRecord]
  BY Behind DEF Sound, RunRows, WakeRows
<1>6. RunsBehind = run
  BY <1>3, <1>4, <1>5
<1>7. WakesBehind = wake
  BY <1>3, <1>4, <1>5
<1>8. QED
  BY <1>1, <1>6, <1>7

LEMMA AssigneeStays ==
  ASSUME IInv, Sole, [Next]_vars
  PROVE  issue'.assignee = issue.assignee
<1>1. issue \in IssueRows /\ route.phase = "idle"
  BY DEF IInv, Typed, Sole
<1>2. \A r : Unlocked(r).assignee = issue.assignee
  BY <1>1 DEF Unlocked, IssueRows
<1>3. \A kind, a, cs, from : Enqueue(kind, a, cs, from) => issue'.assignee = issue.assignee
  BY <1>1 DEF Enqueue, IssueRows
<1>4. ASSUME NEW r \in Rows, NEW quiet, NEW resume, NEW fact, ReleaseIssue(r, quiet, resume, fact)
      PROVE  issue'.assignee = issue.assignee
  <2>1. CASE Promote(r, resume, fact)
    <3>1. PICK w \in Promoted(r, resume, fact), n \in Rows : PromotedAs(r, resume, fact, w, n)
      BY <2>1, PromoteEffect
    <3>2. QED
      BY <1>1, <3>1 DEF PromotedAs, IssueRows
  <2>2. CASE Recover(r, resume, fact)
    BY <1>1, <2>2 DEF Recover, IssueRows
  <2>3. QED
    BY <1>2, <1>4, <2>1, <2>2 DEF ReleaseIssue
<1>5. CASE Arrive
  BY <1>1, <1>3, <1>5 DEF Arrive, PostComment, CommentWake, SystemWake, IssueRows
<1>6. CASE Operate
  <2>1. ASSUME NEW s \in Status, SetStatus(s)
        PROVE  issue'.assignee = issue.assignee
    BY <1>1, <2>1 DEF SetStatus, IssueRows
  <2>2. ASSUME NEW c \in Comments, DeleteComment(c)
        PROVE  issue'.assignee = issue.assignee
    BY <1>2, <2>2 DEF DeleteComment, DiscardFrom
  <2>3. QED
    BY <1>6, <2>1, <2>2 DEF Operate, Stop, ReassignStop
<1>7. ASSUME NEW r \in Rows, Execute(r)
      PROVE  issue'.assignee = issue.assignee
  BY <1>1, <1>2, <1>7 DEF Execute, Gate, CancelRows, Claim, TakeRun, StampClaim, ReleaseClaim,
     Begin, Checkout, Finish, Cleanup, IssueRows
<1>8. CASE Recovery
  <2>1. ASSUME NEW r \in Rows, ScheduleRetry(r)
        PROVE  issue'.assignee = issue.assignee
    BY <1>1, <2>1 DEF ScheduleRetry, RetryOf, IssueRows
  <2>2. ASSUME NEW r \in Rows, PromoteRetry(r)
        PROVE  issue'.assignee = issue.assignee
    BY <1>2, <2>2 DEF PromoteRetry, CancelRows
  <2>3. ASSUME NEW r \in Rows, ResumeStranded(r)
        PROVE  issue'.assignee = issue.assignee
    BY <1>4, <2>3 DEF ResumeStranded
  <2>4. QED
    BY <1>1, <1>8, <2>1, <2>2, <2>3 DEF Recovery, Reap, SweepStaleLock, IssueRows
<1>9. ASSUME NEW r \in Rows, NEW how \in Settlement, Release(r, how)
      PROVE  issue'.assignee = issue.assignee
  BY <1>4, <1>9 DEF Release, ReleaseWith
<1>10. CASE ReassignCommit \/ ReassignWake \/ Restart \/ UNCHANGED vars
  BY <1>1, <1>3, <1>10 DEF ReassignCommit, ReassignWake, Restart, vars
<1>11. QED
  BY <1>5, <1>6, <1>7, <1>8, <1>9, <1>10 DEF Next

LEMMA TurnSole ==
  ASSUME NEW r \in Rows, Turn(r), NEW a, OneAgent(run, wake, a)
  PROVE  OneAgent(run', wake', a)
<1>1. \A q \in Rows : run'[q].st # "none" => run[q].st # "none" /\ run'[q].agent = run[q].agent
  BY DEF Turn, Active, Waiting
<1>2. \A w \in Rows : w # run[r].wake => wake'[w] = wake[w]
  BY DEF Turn
<1>3. /\ wake'[run[r].wake].st # "deferred" /\ wake[run[r].wake].st # "none"
      /\ wake'[run[r].wake].agent = wake[run[r].wake].agent
  BY DEF Turn
<1>4. QED
  BY <1>1, <1>2, <1>3 DEF OneAgent

\* A wake without a comment joins the run of the one agent: it is never saved.
LEMMA SystemWakeJoins ==
  ASSUME IInv, Sole, Holder # None, ~Zombie(issue.assignee)
  PROVE  Joins(issue.assignee, {})
<1>1. Holder \in Rows /\ run[Holder].st # "none"
  BY HolderActive DEF Active, Waiting
<1>2. run[Holder].agent = issue.assignee
  BY <1>1 DEF Sole, OneAgent
<1>3. QED
  BY <1>2 DEF Joins

LEMMA EnqueueSole ==
  ASSUME IInv, Sole, NEW kind \in Kinds, NEW cs \in SUBSET Comments, NEW from,
         kind = "comment" \/ cs = {}, Enqueue(kind, issue.assignee, cs, from)
  PROVE  OneAgent(run', wake', issue.assignee)
<1> DEFINE a == issue.assignee
<1>1. a \in Agents /\ RunsBehind = run /\ WakesBehind = wake /\ OneAgent(run, wake, a)
  BY NoStaleHolder DEF IInv, Typed, IssueRows, Sole
<1>2. CASE Joins(a, cs) /\ JoinRun(kind, a, cs)
  <2>1. PICK w \in Rows : JoinedInto(kind, a, cs, w)
    BY <1>1, <1>2, JoinEffect DEF Joins
  <2>2. wake'[w].st = "coalesced" /\ wake'[w].agent = a
    BY <2>1 DEF JoinedInto, WakeRow
  <2>3. \A r \in Rows : run'[r].st = run[r].st /\ run'[r].agent = run[r].agent
    BY <1>1, <2>1 DEF JoinedInto
  <2>4. \A v \in Rows \ {w} : wake'[v] = wake[v]
    BY <1>1, <2>1 DEF JoinedInto
  <2>5. QED
    BY <1>1, <2>2, <2>3, <2>4 DEF OneAgent
<1>3. CASE Holder # None /\ ~Joins(a, cs) /\ ~Zombie(a) /\ DeferWake(kind, a, cs)
  <2>1. kind = "comment"
    BY <1>3, SystemWakeJoins
  <2>2. PICK w \in Rows : SavedIn(kind, a, cs, w)
    BY <1>1, <1>3, DeferEffect
  <2>3. run' = run
    BY <1>1, <1>3, DeferEffect
  <2>4. /\ wake'[w].agent = a /\ wake'[w].kind = "comment"
        /\ \A v \in Rows \ {w} : wake'[v] = wake[v]
    BY <1>1, <2>1, <2>2 DEF SavedIn
  <2>5. QED
    BY <1>1, <2>3, <2>4 DEF OneAgent
<1>4. CASE StartRun(kind, a, cs, from)
  <2>1. PICK w \in Rows, n \in Rows : StartedAs(kind, a, cs, from, w, n)
    BY <1>1, <1>4, StartEffect
  <2>2. run'[n].agent = a /\ \A r \in Rows \ {n} : run'[r] = run[r]
    BY <1>1, <2>1 DEF StartedAs, QueuedRun
  <2>3. wake'[w].st = "queued" /\ wake'[w].agent = a
    BY <2>1 DEF StartedAs, WakeRow
  <2>4. \A v \in Adopted(a, from) : wake[v].st = "deferred"
    BY AdoptedSaved
  <2>5. ASSUME NEW v \in Rows, v # w
        PROVE  \/ wake'[v] = wake[v]
               \/ wake[v].st = "deferred" /\ wake'[v].st = "coalesced" /\ wake'[v].agent = wake[v].agent
    BY <1>1, <2>1, <2>4, <2>5 DEF StartedAs
  <2>6. QED
    BY <1>1, <2>2, <2>3, <2>5 DEF OneAgent
<1>5. QED
  BY <1>2, <1>3, <1>4 DEF Enqueue

LEMMA ReleaseSole ==
  ASSUME IInv, Sole, NEW r \in Rows, Ended(r), NEW quiet, NEW resume, NEW fact,
         ReleaseIssue(r, quiet, resume, fact)
  PROVE  OneAgent(run', wake', issue.assignee)
<1> DEFINE wk == WakesDrained(r, resume, fact)
           a  == issue.assignee
<1>1. OneAgent(run, wake, a) /\ run[r].st # "none"
  BY DEF Sole, Ended
<1>2. OneAgent(run, wk, a)
  <2>1. \A w \in Rows : \/ wk[w] = wake[w]
                        \/ /\ wake[w].st = "deferred" /\ wk[w].agent = wake[w].agent
                           /\ wk[w].kind = wake[w].kind
    BY DrainEffect
  <2> HIDE DEF wk
  <2>2. QED
    BY <1>1, <2>1 DEF OneAgent
<1>3. CASE Promote(r, resume, fact)
  <2>1. PICK w \in Promoted(r, resume, fact), n \in Rows : PromotedAs(r, resume, fact, w, n)
    BY <1>3, PromoteEffect
  <2>2. /\ w \in Rows /\ wake[w].st = "deferred" /\ run'[n].agent = wake[w].agent
        /\ \A q \in Rows \ {n} : run'[q] = run[q]
        /\ \A v \in Rows \ {w} : wake'[v] = wk[v]
        /\ wake'[w].st = "queued" /\ wake'[w].agent = wake[w].agent
    BY <2>1 DEF PromotedAs, QueuedRun
  <2> HIDE DEF wk
  <2>3. QED
    BY <1>1, <1>2, <2>2 DEF OneAgent
<1>4. CASE Recover(r, resume, fact)
  <2>1. PICK w \in Rows, n \in Rows : RecoveredAs(r, resume, fact, w, n)
    BY <1>4, RecoverEffect
  <2>2. /\ run'[n].agent = run[r].agent /\ \A q \in Rows \ {n} : run'[q] = run[q]
        /\ \A v \in Rows \ {w} : wake'[v] = wk[v]
        /\ wake'[w].st = "queued" /\ wake'[w].agent = run[r].agent
    BY <2>1 DEF RecoveredAs, WakeRow
  <2> HIDE DEF wk
  <2>3. QED
    BY <1>1, <1>2, <2>2 DEF OneAgent
<1>5. QED
  BY <1>1, <1>2, <1>3, <1>4 DEF ReleaseIssue

LEMMA NextSole ==
  ASSUME "reassign" \notin Inputs, IInv, Sole, [Next]_vars
  PROVE  Sole'
<1> DEFINE a == issue.assignee
<1>1. /\ issue'.assignee = a /\ a \in Agents /\ OneAgent(run, wake, a) /\ route.phase = "idle"
      /\ \A c \in Comments, b \in Agents : <<c, b>> \in mail => b = a
  BY AssigneeStays DEF IInv, Typed, IssueRows, Sole
<1>2. ASSUME OneAgent(run', wake', a), mail' \subseteq mail \cup Comments \X {a}, route'.phase = "idle"
      PROVE  Sole'
  BY <1>1, <1>2 DEF Sole
<1> HIDE DEF a
<1>3. CASE Arrive
  <2>1. ASSUME NEW c \in Comments, PostComment(c)
        PROVE  Sole'
    <3>1. UNCHANGED <<run, wake, route>> /\ mail' = mail \cup {<<c, a>>}
      BY <2>1 DEF PostComment, a
    <3>2. QED
      BY <1>1, <1>2, <3>1
  <2>2. ASSUME NEW c \in Comments, NEW b \in Agents, CommentWake(c, b)
        PROVE  Sole'
    <3>1. /\ b = a /\ Enqueue("comment", a, {c}, None) /\ mail' \subseteq mail /\ route' = route
      BY <1>1, <2>2 DEF CommentWake
    <3>2. OneAgent(run', wake', a)
      BY <3>1, EnqueueSole DEF a, Kinds
    <3>3. QED
      BY <1>1, <1>2, <3>1, <3>2
  <2>3. ASSUME SystemWake
        PROVE  Sole'
    <3>1. Enqueue("system", a, {}, None) /\ mail' = mail /\ route' = route
      BY <2>3 DEF SystemWake, a
    <3>2. OneAgent(run', wake', a)
      BY <3>1, EnqueueSole DEF a, Kinds
    <3>3. QED
      BY <1>1, <1>2, <3>1, <3>2
  <2>4. QED
    BY <1>3, <2>1, <2>2, <2>3 DEF Arrive
<1>4. CASE Operate
  <2>1. UNCHANGED <<mail, route>>
    BY <1>4 DEF Operate, Stop, ReassignStop, SetStatus, DeleteComment, process
  <2>2. ASSUME NEW c \in Comments, NEW w \in QueueOf(c), DiscardFrom(w, c)
        PROVE  OneAgent(run', wake', a)
    <3>1. CASE wake[w].st = "deferred"
      <4>1. /\ w \in Rows /\ run' = run /\ \A v \in Rows \ {w} : wake'[v] = wake[v]
            /\ wake'[w].agent = wake[w].agent /\ wake'[w].kind = wake[w].kind
        BY <2>2, <3>1, DiscardSaved
      <4>2. QED
        BY <1>1, <3>1, <4>1 DEF OneAgent
    <3>2. CASE wake[w].st # "deferred"
      <4>1. wake[w].run \in Rows /\ Turn(wake[w].run)
        BY <2>2, <3>2, DiscardEffect
      <4>2. QED
        BY <1>1, <4>1, TurnSole
    <3>3. QED
      BY <3>1, <3>2
  <2>3. OneAgent(run', wake', a)
    <3>1. ASSUME NEW r \in Rows, Stop(r)
          PROVE  OneAgent(run', wake', a)
      BY <1>1, <3>1, CancelTurn, TurnSole DEF Stop, PlainTurn
    <3>2. ASSUME NEW c \in Comments, DeleteComment(c)
          PROVE  OneAgent(run', wake', a)
      BY <1>1, <2>2, <3>2 DEF DeleteComment
    <3>3. QED
      BY <1>1, <1>4, <3>1, <3>2 DEF Operate, ReassignStop, SetStatus
  <2>4. QED
    BY <1>1, <1>2, <2>1, <2>3
<1>5. ASSUME NEW r \in Rows, Execute(r)
      PROVE  Sole'
  <2>1. UNCHANGED <<mail, route>>
    BY <1>5 DEF Execute, Gate, Claim, StampClaim, ReleaseClaim, Begin, Checkout, Finish, Cleanup,
       process
  <2>2. OneAgent(run', wake', a)
    BY <1>1, <1>5, ExecuteTurn, TurnSole
  <2>3. QED
    BY <1>1, <1>2, <2>1, <2>2
<1>6. CASE Recovery
  <2>1. UNCHANGED <<mail, route>>
    BY <1>6 DEF Recovery, Reap, ScheduleRetry, PromoteRetry, ResumeStranded, ReleaseIssue,
       SweepStaleLock, process
  <2>2. ASSUME NEW r \in Rows, Reap(r) \/ PromoteRetry(r)
        PROVE  OneAgent(run', wake', a)
    <3>1. Turn(r)
      BY <2>2, ReapTurn, CancelRowsTurn, DueTurn DEF PromoteRetry, PlainTurn, Waiting
    <3>2. QED
      BY <1>1, <3>1, TurnSole
  <2>3. ASSUME NEW r \in Rows, ScheduleRetry(r)
        PROVE  OneAgent(run', wake', a)
    <3>1. run[r].st # "none"
      BY <2>3 DEF ScheduleRetry, IInv, Driven, Settlement, Ended
    <3>2. CASE RetryOf(r)
      <4>1. PICK w \in Rows, n \in Rows : RetriedAs(r, w, n)
        BY <3>2, RetryEffect
      <4>2. /\ run'[n].agent = run[r].agent /\ \A q \in Rows \ {n} : run'[q] = run[q]
            /\ \A v \in Rows \ {w} : wake'[v] = wake[v]
            /\ wake'[w].st = "queued" /\ wake'[w].agent = run[r].agent
        BY <4>1 DEF RetriedAs, WakeRow
      <4>3. QED
        BY <1>1, <3>1, <4>2 DEF OneAgent
    <3>3. QED
      BY <1>1, <2>3, <3>2 DEF ScheduleRetry
  <2>4. ASSUME NEW r \in Rows, ResumeStranded(r)
        PROVE  OneAgent(run', wake', a)
    BY <2>4, ReleaseSole DEF ResumeStranded, a
  <2>5. OneAgent(run', wake', a)
    BY <1>1, <1>6, <2>2, <2>3, <2>4 DEF Recovery, SweepStaleLock
  <2>6. QED
    BY <1>1, <1>2, <2>1, <2>5
<1>7. ASSUME NEW r \in Rows, NEW how \in Settlement, Release(r, how)
      PROVE  Sole'
  <2>1. PICK fact \in [Agents -> Facts] : ReleaseWith(r, how, fact)
    BY <1>7 DEF Release
  <2>2. /\ Ended(r) /\ ReleaseIssue(r, how = "cleanup", FALSE, fact) /\ UNCHANGED <<mail, route>>
    BY <2>1 DEF ReleaseWith, ReleaseIssue, IInv, Driven
  <2>3. OneAgent(run', wake', a)
    BY <2>2, ReleaseSole DEF a
  <2>4. QED
    BY <1>1, <1>2, <2>2, <2>3
<1>8. CASE ReassignCommit \/ ReassignWake
  BY <1>1, <1>8 DEF ReassignCommit, ReassignWake
<1>9. CASE Restart
  <2>1. UNCHANGED <<run, wake>> /\ mail' = {} /\ route'.phase = "idle"
    BY <1>9 DEF Restart, IInv, Typed
  <2>2. QED
    BY <1>1, <1>2, <2>1
<1>10. CASE UNCHANGED vars
  BY <1>1, <1>2, <1>10 DEF vars, process
<1>11. QED
  BY <1>3, <1>4, <1>5, <1>6, <1>7, <1>8, <1>9, <1>10 DEF Next

LEMMA InitSole == Init => Sole
<1> SUFFICES ASSUME Init PROVE Sole
  OBVIOUS
<1>1. mail = {} /\ route.phase = "idle" /\ \A r \in Rows : run[r].st = "none" /\ wake[r].st = "none"
  BY DEF Init
<1>2. QED
  BY <1>1 DEF Sole, OneAgent

------------------------------------------------------------------------------
(* No message is lost while one agent has everything.                         *)

\* Run x, whose own wake has envelope env, holds c: it has started with c, or it will
\* still have c after its claim.
Holds(x, env, c) ==
  /\ c \in x.ctx
  /\ x.started \/ Waits(x)
  /\ Waits(x) \/ x.st = "running" => env = {} \/ c \in env
\* Message c of wake w is saved in w, or held by the run of w.
Held(rn, wk, w, c) ==
  \/ wk[w].st = "deferred" /\ c \in wk[w].env
  \/ wk[w].run # None /\ Holds(rn[wk[w].run], wk[rn[wk[w].run].wake].env, c)
MergedRow(x) == x.st = "coalesced" /\ x.env = {}
Unanswered(rn, wk, w) ==
  /\ ~MergedRow(wk[w]) /\ wk[w].st # "failed"
  /\ wk[w].run # None => ~rn[wk[w].run].stopped

\* The messages in L that have no answer yet are held where their wake says; a run that
\* continues another has no message of its own.
AllHeld(rn, wk, L) ==
  \A w \in Rows : Unanswered(rn, wk, w) => \A c \in wk[w].msg \cap L : Held(rn, wk, w, c)
RetriesSilent(rn, wk) ==
  \A w \in Rows : wk[w].run # None /\ rn[wk[w].run].of # None /\ ~MergedRow(wk[w])
                    => wk[w].msg = {}
KeptIn(rn, wk, L) == AllHeld(rn, wk, L) /\ RetriesSilent(rn, wk)

\* The step of a run keeps its messages: it answers them, or holds what it held.
TurnKeeps(r, L) ==
  \A c \in L : run[r].of = None /\ Holds(run[r], wake[run[r].wake].env, c)
                 => run'[r].stopped \/ Holds(run'[r], wake'[run[r].wake].env, c)

LEMMA KeptTurn ==
  ASSUME IInv, NEW L, NEW L2, L2 \subseteq L, KeptIn(run, wake, L), NEW r \in Rows, Turn(r),
         TurnKeeps(r, L2)
  PROVE  KeptIn(run', wake', L2)
<1>1. /\ Sound(run, wake) /\ r # None /\ run[r].wake \in Rows /\ wake[run[r].wake].run = r
      /\ \A w \in Rows : wake'[w].run = wake[w].run /\ wake'[w].msg = wake[w].msg
      /\ \A w \in Rows \ {run[r].wake} : wake'[w] = wake[w]
      /\ \A q \in Rows \ {r} : run'[q] = run[q]
      /\ run'[r].wake = run[r].wake /\ run'[r].of = run[r].of
      /\ run[r].stopped => run'[r].stopped
  BY RowsAreNumbers, SoundReferences DEF IInv, Turn, References
<1>2. /\ ~MergedRow(wake[run[r].wake]) /\ ~MergedRow(wake'[run[r].wake])
      /\ wake[run[r].wake].st \notin {"failed", "deferred"}
  BY DEF Turn, MergedRow
<1>3. \A w \in Rows : /\ MergedRow(wake'[w]) <=> MergedRow(wake[w])
                      /\ Unanswered(run', wake', w) => Unanswered(run, wake, w)
  <2> TAKE w \in Rows
  <2>1. MergedRow(wake'[w]) <=> MergedRow(wake[w])
    BY <1>1, <1>2
  <2>2. wake[w].st = "failed" => wake'[w].st = "failed"
    BY <1>1, <1>2
  <2>3. wake[w].run # None => (run[wake[w].run].stopped => run'[wake[w].run].stopped)
    BY <1>1, SoundReferences DEF References
  <2>4. QED
    BY <1>1, <2>1, <2>2, <2>3 DEF Unanswered
<1>4. ASSUME NEW w \in Rows, Unanswered(run', wake', w), NEW c \in wake'[w].msg \cap L2
      PROVE  Held(run', wake', w, c)
  <2>1. Held(run, wake, w, c)
    BY <1>1, <1>3, <1>4 DEF KeptIn, AllHeld
  <2>2. CASE wake[w].st = "deferred" /\ c \in wake[w].env
    BY <1>1, <1>2, <2>2 DEF Held
  <2>3. CASE wake[w].run # None /\ Holds(run[wake[w].run], wake[run[wake[w].run].wake].env, c)
    <3> DEFINE q == wake[w].run
    <3>1. q \in Rows /\ run[q].st # "none" /\ run[q].wake \in Rows
      BY <1>1, <2>3, SoundReferences DEF References, Sound, OwnRun
    <3>2. CASE q # r
      <4>1. wake[run[q].wake].run = q
        BY <1>1, <3>1 DEF Sound, OwnWake
      <4>2. run[q].wake # run[r].wake
        BY <1>1, <3>2, <4>1
      <4>3. run'[q] = run[q] /\ wake'[run[q].wake] = wake[run[q].wake]
        BY <1>1, <3>1, <3>2, <4>2
      <4>4. wake'[w].run = q
        BY <1>1
      <4>5. QED
        BY <2>3, <4>3, <4>4 DEF Held
    <3>3. CASE q = r
      <4>1. run[r].of = None
        BY <1>1, <1>3, <1>4, <2>3, <3>3 DEF KeptIn, RetriesSilent, Unanswered
      <4>2. ~run'[r].stopped
        BY <1>1, <1>4, <3>3 DEF Unanswered
      <4>3. Holds(run'[r], wake'[run[r].wake].env, c)
        BY <2>3, <3>3, <4>1, <4>2 DEF TurnKeeps
      <4>4. wake'[w].run = r
        BY <1>1, <3>3
      <4>5. QED
        BY <1>1, <4>3, <4>4 DEF Held
    <3>4. QED
      BY <3>2, <3>3
  <2>4. QED
    BY <2>1, <2>2, <2>3 DEF Held
<1>5. RetriesSilent(run', wake')
  <2> SUFFICES ASSUME NEW w \in Rows, wake'[w].run # None, run'[wake'[w].run].of # None,
                      ~MergedRow(wake'[w])
               PROVE  wake'[w].msg = {}
    BY DEF RetriesSilent
  <2>1. wake[w].run \in Rows /\ wake'[w].run = wake[w].run
    BY <1>1, SoundReferences DEF References
  <2>2. run[wake[w].run].of # None
    BY <1>1, <2>1
  <2>3. QED
    BY <1>1, <1>3, <2>1, <2>2 DEF KeptIn, RetriesSilent
<1>6. AllHeld(run', wake', L2)
  BY <1>4 DEF AllHeld
<1>7. QED
  BY <1>5, <1>6 DEF KeptIn

\* Saved wakes are given up, when nothing in them is to be said, or edited.
Edited(wk, wk2, L) ==
  \A w \in Rows :
    \/ wk2[w] = wk[w]
    \/ /\ wk[w].st = "deferred" /\ wk2[w].run = wk[w].run /\ wk2[w].msg = wk[w].msg
       /\ \/ wk2[w].st = "failed"
          \/ wk2[w].st = "cancelled" /\ wk[w].env \cap L = {} /\ wk2[w].env \cap L = {}
          \/ wk2[w].st = "deferred" /\ wk[w].env \cap L \subseteq wk2[w].env

LEMMA KeptEdited ==
  ASSUME NEW rn, NEW wk, Sound(rn, wk), NEW L, NEW L2, L2 \subseteq L, KeptIn(rn, wk, L),
         NEW wk2, Edited(wk, wk2, L2)
  PROVE  KeptIn(rn, wk2, L2)
<1>1. ASSUME NEW w \in Rows, Unanswered(rn, wk2, w), NEW c \in wk2[w].msg \cap L2
      PROVE  Held(rn, wk2, w, c)
  <2>1. CASE wk2[w] = wk[w]
    <3>1. Unanswered(rn, wk, w)
      BY <1>1, <2>1 DEF Unanswered
    <3>2. Held(rn, wk, w, c)
      BY <1>1, <2>1, <3>1 DEF KeptIn, AllHeld
    <3>3. CASE wk[w].st = "deferred" /\ c \in wk[w].env
      BY <2>1, <3>3 DEF Held
    <3>4. CASE wk[w].run # None /\ Holds(rn[wk[w].run], wk[rn[wk[w].run].wake].env, c)
      <4> DEFINE q == wk[w].run
      <4>1. q \in Rows /\ rn[q].st # "none" /\ rn[q].wake \in Rows
        BY <3>4, SoundReferences DEF References, Sound, OwnRun
      <4>2. wk[rn[q].wake].st # "deferred"
        BY <4>1 DEF Sound, OwnWake
      <4>3. wk2[rn[q].wake] = wk[rn[q].wake]
        BY <4>1, <4>2 DEF Edited
      <4>4. QED
        BY <2>1, <3>4, <4>3 DEF Held
    <3>5. QED
      BY <3>2, <3>3, <3>4 DEF Held
  <2>2. CASE wk2[w] # wk[w]
    <3>1. /\ wk[w].st = "deferred" /\ wk[w].run = None /\ wk2[w].msg = wk[w].msg
          /\ \/ wk2[w].st = "cancelled" /\ wk[w].env \cap L2 = {}
             \/ wk2[w].st = "deferred" /\ wk[w].env \cap L2 \subseteq wk2[w].env
      BY <1>1, <2>2 DEF Edited, Unanswered, Sound, OwnRun
    <3>2. Unanswered(rn, wk, w)
      BY <3>1 DEF Unanswered, MergedRow
    <3>3. c \in wk[w].env
      BY <1>1, <3>1, <3>2 DEF KeptIn, AllHeld, Held
    <3>4. QED
      BY <1>1, <3>1, <3>3 DEF Held
  <2>3. QED
    BY <2>1, <2>2
<1>2. RetriesSilent(rn, wk2)
  <2> SUFFICES ASSUME NEW w \in Rows, wk2[w].run # None, rn[wk2[w].run].of # None,
                      ~MergedRow(wk2[w])
               PROVE  wk2[w].msg = {}
    BY DEF RetriesSilent
  <2>1. wk2[w] = wk[w]
    BY DEF Edited, Sound, OwnRun
  <2>2. QED
    BY <2>1 DEF KeptIn, RetriesSilent
<1>3. QED
  BY <1>1, <1>2 DEF KeptIn, AllHeld

\* What a wake holds stays held while its run, and the run's own wake, are not touched.
LEMMA HeldKept ==
  ASSUME NEW rn, NEW wk, Sound(rn, wk), NEW rn2, NEW wk2, NEW w \in Rows, NEW c,
         Held(rn, wk, w, c),
         wk2[w] = wk[w], \A q \in Rows : rn[q].st # "none" => rn2[q] = rn[q],
         \A v \in Rows : wk[v].st \notin {"none", "deferred"} => wk2[v] = wk[v]
  PROVE  Held(rn2, wk2, w, c)
<1>1. CASE wk[w].st = "deferred" /\ c \in wk[w].env
  BY <1>1 DEF Held
<1>2. CASE wk[w].run # None /\ Holds(rn[wk[w].run], wk[rn[wk[w].run].wake].env, c)
  <2> DEFINE q == wk[w].run
  <2>1. q \in Rows /\ rn[q].st # "none" /\ rn[q].wake \in Rows
    BY <1>2, SoundReferences DEF References, Sound, OwnRun
  <2>2. wk[rn[q].wake].st \notin {"none", "deferred"}
    BY <2>1 DEF Sound, OwnWake
  <2>3. rn2[q] = rn[q] /\ wk2[rn[q].wake] = wk[rn[q].wake]
    BY <2>1, <2>2
  <2>4. QED
    BY <1>2, <2>3 DEF Held
<1>3. QED
  BY <1>1, <1>2 DEF Held

\* Messages cs join run h, with a row w that only records it.
JoinedRow(rn, wk, rn2, wk2, h, w, cs) ==
  /\ h \in Rows /\ w \in Rows /\ rn[h].st # "none" /\ wk[w].st = "none"
  /\ \A r \in Rows \ {h} : rn2[r] = rn[r]
  /\ rn2[h].ctx = rn[h].ctx \cup cs /\ rn2[h].st = rn[h].st /\ rn2[h].wake = rn[h].wake
  /\ rn2[h].of = rn[h].of /\ rn2[h].started = rn[h].started /\ rn2[h].stopped = rn[h].stopped
  /\ \A v \in Rows \ {w} : wk2[v] = wk[v]
  /\ wk2[w].st = "coalesced" /\ wk2[w].env = {}

LEMMA KeptJoin ==
  ASSUME NEW rn, NEW wk, Sound(rn, wk), NEW L, KeptIn(rn, wk, L),
         NEW rn2, NEW wk2, NEW h, NEW w, NEW cs, JoinedRow(rn, wk, rn2, wk2, h, w, cs)
  PROVE  KeptIn(rn2, wk2, L)
<1>1. /\ h \in Rows /\ w \in Rows /\ wk[w].st = "none"
      /\ \A v \in Rows \ {w} : wk2[v] = wk[v]
      /\ wk2[w].st = "coalesced" /\ MergedRow(wk2[w])
  BY DEF JoinedRow, MergedRow
<1>2. \A q \in Rows : /\ rn[q].ctx \subseteq rn2[q].ctx /\ rn2[q].st = rn[q].st
                      /\ rn2[q].wake = rn[q].wake /\ rn2[q].of = rn[q].of
                      /\ rn2[q].started = rn[q].started /\ rn2[q].stopped = rn[q].stopped
  BY DEF JoinedRow
<1>3. \A q \in Rows : \A env, c : Holds(rn[q], env, c) => Holds(rn2[q], env, c)
  BY <1>2 DEF Holds, Waits
<1>4. ASSUME NEW u \in Rows, Unanswered(rn2, wk2, u), NEW c \in wk2[u].msg \cap L
      PROVE  Held(rn2, wk2, u, c)
  <2>1. u # w /\ wk2[u] = wk[u]
    BY <1>1, <1>4 DEF Unanswered
  <2>2. wk[u].run # None => wk[u].run \in Rows
    BY SoundReferences DEF References
  <2>3. Unanswered(rn, wk, u)
    BY <1>2, <1>4, <2>1, <2>2 DEF Unanswered
  <2>4. Held(rn, wk, u, c)
    BY <1>4, <2>1, <2>3 DEF KeptIn, AllHeld
  <2>5. CASE wk[u].st = "deferred" /\ c \in wk[u].env
    BY <2>1, <2>5 DEF Held
  <2>6. CASE wk[u].run # None /\ Holds(rn[wk[u].run], wk[rn[wk[u].run].wake].env, c)
    <3> DEFINE q == wk[u].run
    <3>1. q \in Rows /\ rn[q].st # "none" /\ rn[q].wake \in Rows
      BY <2>6, SoundReferences DEF References, Sound, OwnRun
    <3>2. wk[rn[q].wake].st # "none"
      BY <3>1 DEF Sound, OwnWake
    <3>3. wk2[rn[q].wake] = wk[rn[q].wake] /\ rn2[q].wake = rn[q].wake
      BY <1>1, <1>2, <3>1, <3>2
    <3>4. Holds(rn2[q], wk2[rn2[q].wake].env, c)
      BY <1>3, <2>6, <3>1, <3>3
    <3>5. QED
      BY <2>1, <2>6, <3>4 DEF Held
  <2>7. QED
    BY <2>4, <2>5, <2>6 DEF Held
<1>5. RetriesSilent(rn2, wk2)
  <2> SUFFICES ASSUME NEW u \in Rows, wk2[u].run # None, rn2[wk2[u].run].of # None,
                      ~MergedRow(wk2[u])
               PROVE  wk2[u].msg = {}
    BY DEF RetriesSilent
  <2>1. wk2[u] = wk[u] /\ wk[u].run \in Rows
    BY <1>1, SoundReferences DEF References
  <2>2. rn[wk[u].run].of # None
    BY <1>2, <2>1
  <2>3. QED
    BY <2>1, <2>2 DEF KeptIn, RetriesSilent
<1>6. QED
  BY <1>4, <1>5 DEF KeptIn, AllHeld

\* Messages cs are saved in row w.
SavedRow(wk, wk2, w, cs) ==
  /\ w \in Rows /\ \A v \in Rows \ {w} : wk2[v] = wk[v]
  /\ wk2[w].st = "deferred" /\ wk2[w].run = None
  /\ \/ /\ wk[w].st = "deferred" /\ wk2[w].env = wk[w].env \cup cs
        /\ wk2[w].msg = wk[w].msg \cup cs
     \/ wk[w].st = "none" /\ wk2[w].env = cs /\ wk2[w].msg = cs

LEMMA KeptSave ==
  ASSUME NEW rn, NEW wk, Sound(rn, wk), NEW L, KeptIn(rn, wk, L),
         NEW wk2, NEW w, NEW cs, SavedRow(wk, wk2, w, cs)
  PROVE  KeptIn(rn, wk2, L)
<1>1. /\ w \in Rows /\ wk[w].st \in {"none", "deferred"} /\ wk[w].run = None
      /\ \A v \in Rows \ {w} : wk2[v] = wk[v]
      /\ wk2[w].st = "deferred" /\ wk2[w].run = None
  BY DEF SavedRow, Sound, OwnRun
<1>2. ASSUME NEW u \in Rows, Unanswered(rn, wk2, u), NEW c \in wk2[u].msg \cap L
      PROVE  Held(rn, wk2, u, c)
  <2>1. CASE u # w
    <3>1. wk2[u] = wk[u] /\ Unanswered(rn, wk, u)
      BY <1>1, <1>2, <2>1 DEF Unanswered
    <3>2. Held(rn, wk, u, c)
      BY <1>2, <3>1 DEF KeptIn, AllHeld
    <3>3. \A v \in Rows : wk[v].st \notin {"none", "deferred"} => wk2[v] = wk[v]
      BY <1>1
    <3>4. QED
      BY <3>1, <3>2, <3>3, HeldKept
  <2>2. CASE u = w
    <3>1. c \in wk2[w].env
      <4>1. CASE c \in cs
        BY <4>1 DEF SavedRow
      <4>2. CASE c \notin cs
        <5>1. wk[w].st = "deferred" /\ c \in wk[w].msg
          BY <1>2, <2>2, <4>2 DEF SavedRow
        <5>2. Unanswered(rn, wk, w)
          BY <1>1, <5>1 DEF Unanswered, MergedRow
        <5>3. c \in wk[w].env
          BY <1>1, <1>2, <5>1, <5>2 DEF KeptIn, AllHeld, Held
        <5>4. QED
          BY <5>1, <5>3 DEF SavedRow
      <4>3. QED
        BY <4>1, <4>2
    <3>2. QED
      BY <1>1, <2>2, <3>1 DEF Held
  <2>3. QED
    BY <2>1, <2>2
<1>3. RetriesSilent(rn, wk2)
  BY <1>1 DEF KeptIn, RetriesSilent
<1>4. QED
  BY <1>2, <1>3 DEF KeptIn, AllHeld

\* A new run n gets messages cs and the saved ones of A, with its own wake w.
StartedRow(rn, wk, rn2, wk2, n, w, A, cs, L) ==
  /\ n \in Rows /\ w \in Rows /\ A \in SUBSET Rows
  /\ rn[n].st = "none" /\ \A r \in Rows \ {n} : rn2[r] = rn[r]
  /\ wk[w].st = "none" \/ w \in A
  /\ rn2[n].st = "queued" /\ rn2[n].wake = w /\ rn2[n].of = None
  /\ wk2[w].st = "queued" /\ wk2[w].run = n
  /\ wk2[w].env = {} \/ wk2[w].env = rn2[n].ctx
  /\ wk2[w].msg \cap L \subseteq cs \cup (IF w \in A THEN wk[w].msg ELSE {})
  /\ cs \subseteq rn2[n].ctx
  /\ \A v \in A : wk[v].st = "deferred" /\ wk[v].env \cap L \subseteq rn2[n].ctx
  /\ \A v \in Rows \ {w} : IF v \in A THEN /\ wk2[v].st = "coalesced" /\ wk2[v].run = n
                                           /\ wk2[v].msg = wk[v].msg
                                      ELSE wk2[v] = wk[v]

LEMMA KeptStart ==
  ASSUME NEW rn, NEW wk, Sound(rn, wk), NEW L, KeptIn(rn, wk, L),
         NEW rn2, NEW wk2, NEW n, NEW w, NEW A, NEW cs,
         StartedRow(rn, wk, rn2, wk2, n, w, A, cs, L)
  PROVE  KeptIn(rn2, wk2, L)
<1>1. /\ n \in Rows /\ w \in Rows /\ A \in SUBSET Rows /\ n # None
      /\ rn[n].st = "none" /\ \A r \in Rows \ {n} : rn2[r] = rn[r]
      /\ rn2[n].st = "queued" /\ rn2[n].wake = w /\ rn2[n].of = None
      /\ wk2[w].st = "queued" /\ wk2[w].run = n
      /\ wk2[w].env = {} \/ wk2[w].env = rn2[n].ctx
      /\ \A v \in A : wk[v].st = "deferred" /\ wk2[v].run = n
  BY RowsAreNumbers DEF StartedRow
<1>2. \A v \in Rows : v # w /\ v \notin A => wk2[v] = wk[v]
  BY DEF StartedRow
<1>3. \A c \in rn2[n].ctx : Holds(rn2[n], wk2[rn2[n].wake].env, c)
  BY <1>1 DEF Holds, Waits
<1>4. \A v \in A : \A c \in wk[v].msg \cap L : c \in rn2[n].ctx
  <2> TAKE v \in A
  <2> TAKE c \in wk[v].msg \cap L
  <2>1. v \in Rows /\ wk[v].st = "deferred" /\ wk[v].run = None
    BY <1>1 DEF Sound, OwnRun
  <2>2. Unanswered(rn, wk, v)
    BY <2>1 DEF Unanswered, MergedRow
  <2>3. c \in wk[v].env
    BY <2>1, <2>2 DEF KeptIn, AllHeld, Held
  <2>4. QED
    BY <2>3 DEF StartedRow
<1>5. ASSUME NEW u \in Rows, Unanswered(rn2, wk2, u), NEW c \in wk2[u].msg \cap L
      PROVE  Held(rn2, wk2, u, c)
  <2>1. CASE u = w \/ u \in A
    <3>1. wk2[u].run = n
      BY <1>1, <2>1
    <3>2. c \in rn2[n].ctx
      BY <1>4, <1>5, <2>1 DEF StartedRow
    <3>3. QED
      BY <1>1, <1>3, <3>1, <3>2 DEF Held
  <2>2. CASE u # w /\ u \notin A
    <3>1. wk2[u] = wk[u] /\ wk[u].run # n
      BY <1>1, <1>2, <2>2 DEF Sound, OwnRun
    <3>2. wk[u].run # None => wk[u].run \in Rows \ {n}
      BY <3>1, SoundReferences DEF References
    <3>3. Unanswered(rn, wk, u)
      BY <1>1, <1>5, <3>1, <3>2 DEF Unanswered
    <3>4. Held(rn, wk, u, c)
      BY <1>5, <3>1, <3>3 DEF KeptIn, AllHeld
    <3>5. \A v \in Rows : wk[v].st \notin {"none", "deferred"} => wk2[v] = wk[v]
      BY <1>1, <1>2 DEF StartedRow
    <3>6. \A q \in Rows : rn[q].st # "none" => rn2[q] = rn[q]
      BY <1>1
    <3>7. QED
      BY <3>1, <3>4, <3>5, <3>6, HeldKept
  <2>3. QED
    BY <2>1, <2>2
<1>6. RetriesSilent(rn2, wk2)
  <2> SUFFICES ASSUME NEW u \in Rows, wk2[u].run # None, rn2[wk2[u].run].of # None,
                      ~MergedRow(wk2[u])
               PROVE  wk2[u].msg = {}
    BY DEF RetriesSilent
  <2>1. wk2[u] = wk[u] /\ wk[u].run \in Rows \ {n}
    BY <1>1, <1>2, SoundReferences DEF References
  <2>2. QED
    BY <1>1, <2>1 DEF KeptIn, RetriesSilent
<1>7. QED
  BY <1>5, <1>6 DEF KeptIn, AllHeld

\* A new run n continues another, with a wake w of its own that says nothing.
ContinuedRow(rn, wk, rn2, wk2, n, w) ==
  /\ n \in Rows /\ w \in Rows /\ rn[n].st = "none" /\ wk[w].st = "none"
  /\ \A r \in Rows \ {n} : rn2[r] = rn[r]
  /\ \A v \in Rows \ {w} : wk2[v] = wk[v]
  /\ wk2[w].st = "queued" /\ wk2[w].msg = {} /\ wk2[w].run = n

LEMMA KeptContinued ==
  ASSUME NEW rn, NEW wk, Sound(rn, wk), NEW L, KeptIn(rn, wk, L),
         NEW rn2, NEW wk2, NEW n, NEW w, ContinuedRow(rn, wk, rn2, wk2, n, w)
  PROVE  KeptIn(rn2, wk2, L)
<1>1. /\ n \in Rows /\ w \in Rows /\ rn[n].st = "none" /\ wk[w].st = "none"
      /\ \A r \in Rows \ {n} : rn2[r] = rn[r]
      /\ \A v \in Rows \ {w} : wk2[v] = wk[v]
      /\ wk2[w].st = "queued" /\ wk2[w].msg = {} /\ wk2[w].run = n
  BY DEF ContinuedRow
<1>2. \A u \in Rows \ {w} : wk[u].run # None => wk[u].run \in Rows \ {n}
  BY <1>1, SoundReferences DEF References, Sound, OwnRun
<1>3. ASSUME NEW u \in Rows, Unanswered(rn2, wk2, u), NEW c \in wk2[u].msg \cap L
      PROVE  Held(rn2, wk2, u, c)
  <2>1. u # w /\ wk2[u] = wk[u]
    BY <1>1, <1>3
  <2>2. Unanswered(rn, wk, u)
    BY <1>1, <1>2, <1>3, <2>1 DEF Unanswered
  <2>3. Held(rn, wk, u, c)
    BY <1>3, <2>1, <2>2 DEF KeptIn, AllHeld
  <2>4. \A v \in Rows : wk[v].st \notin {"none", "deferred"} => wk2[v] = wk[v]
    BY <1>1
  <2>5. \A q \in Rows : rn[q].st # "none" => rn2[q] = rn[q]
    BY <1>1
  <2>6. QED
    BY <2>1, <2>3, <2>4, <2>5, HeldKept
<1>4. RetriesSilent(rn2, wk2)
  BY <1>1, <1>2 DEF KeptIn, RetriesSilent
<1>5. QED
  BY <1>3, <1>4 DEF KeptIn, AllHeld

\* A message that nobody has been told of yet is not missing.
LEMMA KeptTold ==
  ASSUME NEW rn, NEW wk, NEW T, Places(rn, wk, T), NEW L, NEW L2, L2 \cap T \subseteq L,
         KeptIn(rn, wk, L)
  PROVE  KeptIn(rn, wk, L2)
<1>1. \A w \in Rows : /\ wk[w].msg \cap L2 \subseteq wk[w].msg \cap L
                      /\ wk[w].env \cap L2 \subseteq wk[w].env \cap L
  BY DEF Places
<1>2. AllHeld(rn, wk, L2)
  BY <1>1 DEF KeptIn, AllHeld
<1>3. QED
  BY <1>2 DEF KeptIn

------------------------------------------------------------------------------
(* Every step keeps the messages.                                             *)

Live    == {c \in Comments : comment[c] = "live"}
KeptInv == KeptIn(run, wake, Live)

LEMMA LiveIdsLive ==
  ASSUME NEW cs \in SUBSET Comments
  PROVE  LiveIds(cs) = cs \cap Live
BY DEF LiveIds, Live

LEMMA PlainTurnKeeps ==
  ASSUME NEW r \in Rows, PlainTurn(r), run'[r].started \/ Waits(run'[r]), NEW L
  PROVE  TurnKeeps(r, L)
BY DEF PlainTurn, Turn, TurnKeeps, Holds, Active, Waiting, Waits

\* The gate and the claim cancel a run only when it has nothing to say.
LEMMA CancelRowsKeeps ==
  ASSUME IInv, Sole, NEW r \in Rows, Waiting(r),
         \/ Stale(r) \/ Emptied(r)
         \/ run[r].st = "scheduled"
  PROVE  TurnKeeps(r, Live)
<1>1. CASE Stale(r)
  <2>1. Owns(r)
    BY NoStaleHolder DEF Waiting
  <2>2. run[r].ctx = {}
    BY <1>1, <2>1 DEF Stale, Owns
  <2>3. QED
    BY <2>2 DEF TurnKeeps, Holds
<1>2. CASE Emptied(r)
  <2>1. /\ wake[run[r].wake].env \in SUBSET Comments
        /\ wake[run[r].wake].env # {} /\ LiveIds(wake[run[r].wake].env) = {}
    BY <1>2, OwnWakeOf DEF Emptied, Active, WakeRecord
  <2>2. QED
    BY <2>1, LiveIdsLive DEF TurnKeeps, Holds, Waiting, Waits
<1>3. CASE run[r].st = "scheduled"
  BY <1>3 DEF IInv, Sound, Chained, TurnKeeps
<1>4. QED
  BY <1>1, <1>2, <1>3

LEMMA TakeRunKeeps ==
  ASSUME IInv, NEW r \in Rows, Claimable(r), TakeRun(r)
  PROVE  TurnKeeps(r, Live)
<1>1. /\ wake[run[r].wake].env \in SUBSET Comments /\ run[r].st = "queued"
  BY OwnWakeOf DEF Claimable, Active, Waiting, WakeRecord
<1>2. LiveIds(wake[run[r].wake].env) = wake[run[r].wake].env \cap Live
  BY <1>1, LiveIdsLive
<1>3. /\ run'[r].started
      /\ \/ run'[r].ctx = run[r].ctx /\ wake'[run[r].wake].env = wake[run[r].wake].env
         \/ /\ wake[run[r].wake].env # {}
            /\ run'[r].ctx = LiveIds(wake[run[r].wake].env)
            /\ wake'[run[r].wake].env = LiveIds(wake[run[r].wake].env)
  BY TakeRunTurn
<1>4. QED
  BY <1>1, <1>2, <1>3 DEF TurnKeeps, Holds, Waits

LEMMA ExecuteKept ==
  ASSUME IInv, Sole, KeptInv, NEW r \in Rows, Execute(r)
  PROVE  KeptInv'
<1>1. Live' = Live
  BY DEF Execute, Gate, Claim, StampClaim, ReleaseClaim, Begin, Checkout, Finish, Cleanup, process,
     Live
<1>2. \/ UNCHANGED <<run, wake>>
      \/ Turn(r) /\ TurnKeeps(r, Live)
  <2>1. CASE Gate(r)
    BY <2>1, CancelRowsTurn, CancelRowsKeeps DEF Gate, Waiting, PlainTurn
  <2>2. CASE Claim(r)
    <3>1. Claimable(r) => Waiting(r)
      BY DEF Claimable, Waiting
    <3>2. QED
      BY <2>2, <3>1, CancelRowsTurn, CancelRowsKeeps, TakeRunTurn, TakeRunKeeps
         DEF Claim, PlainTurn
  <2>3. CASE StampClaim(r)
    <3>1. run'[r].started
      BY <2>3, StampTurn DEF IInv, Sound, Chained
    <3>2. QED
      BY <2>3, <3>1, StampTurn, PlainTurnKeeps DEF PlainTurn
  <2>4. CASE ReleaseClaim(r)
    BY <2>4, ReleaseClaimTurn, PlainTurnKeeps DEF PlainTurn, Waits
  <2>5. CASE \E outcome \in {"succeeded", "failed"} : Finish(r, outcome)
    BY <2>5, FinishTurn, PlainTurnKeeps DEF PlainTurn
  <2>6. CASE Begin(r) \/ Checkout(r) \/ Cleanup(r)
    BY <2>6 DEF Begin, Checkout, Cleanup
  <2>7. QED
    BY <2>1, <2>2, <2>3, <2>4, <2>5, <2>6 DEF Execute
<1>3. CASE UNCHANGED <<run, wake>>
  BY <1>1, <1>3 DEF KeptInv
<1>4. CASE Turn(r) /\ TurnKeeps(r, Live)
  BY <1>1, <1>4, KeptTurn DEF KeptInv
<1>5. QED
  BY <1>2, <1>3, <1>4

LEMMA EnqueueKept ==
  ASSUME IInv, Sole, KeptInv, NEW kind \in Kinds, NEW cs \in SUBSET Comments,
         Enqueue(kind, issue.assignee, cs, None)
  PROVE  KeptIn(run', wake', Live)
<1> DEFINE a == issue.assignee
<1>1. /\ a \in Agents /\ RunsBehind = run /\ WakesBehind = wake /\ Sound(run, wake)
      /\ KeptIn(run, wake, Live) /\ wake \in WakeRows
  BY NoStaleHolder DEF IInv, Typed, IssueRows, KeptInv, Sound
<1>2. CASE Joins(a, cs) /\ JoinRun(kind, a, cs)
  <2>1. PICK w \in Rows : JoinedInto(kind, a, cs, w)
    BY <1>1, <1>2, JoinEffect DEF Joins
  <2>2. Holder \in Rows /\ run[Holder].st # "none"
    BY <1>2, HolderActive DEF Joins, Active, Waiting
  <2>3. JoinedRow(run, wake, run', wake', Holder, w, cs)
    BY <1>1, <2>1, <2>2 DEF JoinedInto, JoinedRow, WakeRow
  <2>4. QED
    BY <1>1, <2>3, KeptJoin
<1>3. CASE DeferWake(kind, a, cs)
  <2>1. PICK w \in Rows : SavedIn(kind, a, cs, w)
    BY <1>1, <1>3, DeferEffect
  <2>2. run' = run
    BY <1>1, <1>3, DeferEffect
  <2>3. SavedRow(wake, wake', w, cs)
    BY <1>1, <2>1 DEF SavedIn, SavedRow
  <2>4. QED
    BY <1>1, <2>2, <2>3, KeptSave
<1>4. CASE StartRun(kind, a, cs, None)
  <2> DEFINE A   == Adopted(a, None)
             ids == cs \cup Saved(A)
  <2>1. PICK w \in Rows, n \in Rows : StartedAs(kind, a, cs, None, w, n)
    BY <1>1, <1>4, StartEffect
  <2>2. /\ wake[w].st = "none" /\ run[n].st = "none" /\ run'[n] = QueuedRun(a, w, kind, ids, "no")
        /\ \A r \in Rows \ {n} : run'[r] = run[r]
        /\ wake'[w] = WakeRow("queued", a, kind, cs, IF A = {} THEN {} ELSE ids, n)
        /\ \A v \in Rows \ {w} : IF v \in A THEN /\ wake'[v].st = "coalesced" /\ wake'[v].run = n
                                                 /\ wake'[v].msg = wake[v].msg
                                            ELSE wake'[v] = wake[v]
    BY <1>1, <2>1 DEF StartedAs
  <2>3. A \in SUBSET Rows /\ \A v \in A : wake[v].st = "deferred" /\ wake[v].env \subseteq ids
    BY AdoptedSaved DEF Saved
  <2> HIDE DEF A, ids
  <2>4. cs \subseteq ids
    BY DEF ids
  <2>5. /\ run'[n].st = "queued" /\ run'[n].wake = w /\ run'[n].of = None /\ run'[n].ctx = ids
        /\ wake'[w].st = "queued" /\ wake'[w].run = n /\ wake'[w].msg = cs
        /\ wake'[w].env = {} \/ wake'[w].env = ids
    BY <2>2 DEF QueuedRun, WakeRow
  <2>6. StartedRow(run, wake, run', wake', n, w, A, cs, Live)
    BY <2>2, <2>3, <2>4, <2>5 DEF StartedRow
  <2>7. QED
    BY <1>1, <2>6, KeptStart
<1>5. QED
  BY <1>2, <1>3, <1>4 DEF Enqueue

\* The drain drops a saved wake of the one agent only when its messages were deleted.
LEMMA DrainKept ==
  ASSUME IInv, Sole, KeptInv, NEW r, NEW resume, NEW fact
  PROVE  KeptIn(run, WakesDrained(r, resume, fact), Live)
<1> DEFINE wk == WakesDrained(r, resume, fact)
<1>1. ASSUME NEW w \in Rows, wake[w].st = "deferred", Disposition(w, r, resume, fact) = "cancel"
      PROVE  LiveIds(wake[w].env) = {}
  <2>1. wake[w].agent = issue.assignee /\ wake[w].kind = "comment"
    BY <1>1 DEF Sole, OneAgent
  <2>2. QED
    BY <1>1, <2>1 DEF Disposition
<1>2. ASSUME NEW w \in Rows
      PROVE  \/ wk[w] = wake[w]
             \/ /\ wake[w].st = "deferred" /\ wk[w].run = wake[w].run /\ wk[w].msg = wake[w].msg
                /\ \/ wk[w].st = "failed"
                   \/ /\ wk[w].st = "cancelled" /\ wk[w].env = wake[w].env
                      /\ LiveIds(wake[w].env) = {}
                   \/ wk[w].st = "deferred" /\ wk[w].env = LiveIds(wake[w].env)
  BY <1>1, DrainEffect
<1>3. \A w \in Rows : LiveIds(wake[w].env) = wake[w].env \cap Live
  BY LiveIdsLive DEF IInv, Sound, WakeRows, WakeRecord
<1> HIDE DEF wk
<1>4. Edited(wake, wk, Live)
  BY <1>2, <1>3 DEF Edited
<1>5. KeptIn(run, wk, Live)
  BY <1>4, KeptEdited DEF IInv, KeptInv
<1>6. QED
  BY <1>5 DEF wk

LEMMA ReleaseKept ==
  ASSUME IInv, Sole, KeptInv, NEW r \in Rows, NEW quiet, NEW resume, NEW fact,
         ReleaseIssue(r, quiet, resume, fact)
  PROVE  KeptIn(run', wake', Live)
<1> DEFINE wk == WakesDrained(r, resume, fact)
<1>1. KeptIn(run, wk, Live) /\ Sound(run, wk)
  BY DrainKept, DrainStep
<1>2. CASE UNCHANGED <<run, wake>>
  BY <1>2 DEF KeptInv
<1>3. CASE Promote(r, resume, fact)
  <2>1. PICK w \in Promoted(r, resume, fact), n \in Rows : PromotedAs(r, resume, fact, w, n)
    BY <1>3, PromoteEffect
  <2>2. /\ w \in Rows /\ wake[w].st = "deferred" /\ wk[w] = wake[w] /\ run[n].st = "none"
        /\ run'[n] = QueuedRun(wake[w].agent, w, wake[w].kind, LiveIds(wake[w].env), "no")
        /\ \A q \in Rows \ {n} : run'[q] = run[q]
        /\ \A v \in Rows \ {w} : wake'[v] = wk[v]
        /\ wake'[w].st = "queued" /\ wake'[w].run = n
        /\ wake'[w].env = LiveIds(wake[w].env) /\ wake'[w].msg = wake[w].msg
    BY <2>1 DEF PromotedAs
  <2>3. LiveIds(wake[w].env) = wake[w].env \cap Live
    BY <2>2, LiveIdsLive DEF IInv, Sound, WakeRows, WakeRecord
  <2>4. /\ run'[n].st = "queued" /\ run'[n].wake = w /\ run'[n].of = None
        /\ run'[n].ctx = LiveIds(wake[w].env)
    BY <2>2 DEF QueuedRun
  <2> HIDE DEF wk
  <2>5. StartedRow(run, wk, run', wake', n, w, {w}, {}, Live)
    BY <2>2, <2>3, <2>4 DEF StartedRow
  <2>6. QED
    BY <1>1, <2>5, KeptStart
<1>4. CASE Recover(r, resume, fact)
  <2>1. PICK w \in Rows, n \in Rows : RecoveredAs(r, resume, fact, w, n)
    BY <1>4, RecoverEffect
  <2>2. /\ wk[w].st = "none" /\ run[n].st = "none" /\ \A q \in Rows \ {n} : run'[q] = run[q]
        /\ \A v \in Rows \ {w} : wake'[v] = wk[v]
        /\ wake'[w] = WakeRow("queued", run[r].agent, "system", {}, {}, n)
    BY <2>1 DEF RecoveredAs
  <2> HIDE DEF wk
  <2>3. wake'[w].st = "queued" /\ wake'[w].msg = {} /\ wake'[w].run = n
    BY <2>2 DEF WakeRow
  <2>4. ContinuedRow(run, wk, run', wake', n, w)
    BY <2>2, <2>3 DEF ContinuedRow
  <2>5. QED
    BY <1>1, <2>4, KeptContinued
<1>5. CASE wake' = wk /\ UNCHANGED run
  BY <1>1, <1>5
<1>6. QED
  BY <1>2, <1>3, <1>4, <1>5 DEF ReleaseIssue

LEMMA DiscardKept ==
  ASSUME IInv, KeptInv, NEW c \in Comments, NEW w \in QueueOf(c), DiscardFrom(w, c)
  PROVE  KeptIn(run', wake', Live \ {c})
<1> DEFINE ids == wake[w].env \ {c}
<1>1. KeptIn(run, wake, Live) /\ Sound(run, wake) /\ Live \ {c} \subseteq Live
  BY DEF IInv, KeptInv
<1>2. CASE wake[w].st = "deferred"
  <2>1. /\ w \in Rows /\ run' = run /\ \A v \in Rows \ {w} : wake'[v] = wake[v]
        /\ wake'[w].run = wake[w].run /\ wake'[w].msg = wake[w].msg /\ wake'[w].env = ids
        /\ wake'[w].st = IF ids = {} THEN "cancelled" ELSE "deferred"
    BY <1>2, DiscardSaved
  <2>2. wake[w].env \cap (Live \ {c}) \subseteq ids
    OBVIOUS
  <2> HIDE DEF ids
  <2>3. Edited(wake, wake', Live \ {c})
    BY <1>2, <2>1, <2>2 DEF Edited
  <2>4. QED
    BY <1>1, <2>1, <2>3, KeptEdited
<1>3. CASE wake[w].st # "deferred"
  <2> DEFINE r == wake[w].run
  <2>1. /\ r \in Rows /\ run[r].wake = w /\ Turn(r)
        /\ wake'[w].env = ids
        /\ \/ ids = {}
           \/ ids # {} /\ run'[r].st = "queued" /\ run'[r].ctx = ids
        /\ run[r].st = "queued" /\ c \in wake[w].env
    BY <1>3, DiscardEffect
  <2> HIDE DEF r
  <2>2. TurnKeeps(r, Live \ {c})
    <3> SUFFICES ASSUME NEW d \in Live \ {c}, Holds(run[r], wake[run[r].wake].env, d)
                 PROVE  Holds(run'[r], wake'[run[r].wake].env, d)
      BY DEF TurnKeeps
    <3>1. d \in ids
      BY <2>1 DEF Holds, Waits
    <3>2. QED
      BY <2>1, <3>1 DEF Holds, Waits
  <2>3. QED
    BY <1>1, <2>1, <2>2, KeptTurn
<1>4. QED
  BY <1>2, <1>3

LEMMA OperateKept ==
  ASSUME IInv, Sole, KeptInv, Operate, "reassign" \notin Inputs
  PROVE  KeptInv'
<1>1. ASSUME NEW r \in Rows, Stop(r)
      PROVE  KeptInv'
  <2>1. Turn(r) /\ TurnKeeps(r, Live) /\ Live' = Live
    BY <1>1, CancelTurn DEF Stop, PlainTurn, TurnKeeps, Live
  <2>2. QED
    BY <2>1, KeptTurn DEF KeptInv
<1>2. ASSUME NEW c \in Comments, DeleteComment(c)
      PROVE  KeptInv'
  <2>1. /\ comment' = [comment EXCEPT ![c] = "deleted"]
        /\ comment \in [Comments -> {"none", "live", "deleted"}]
    BY <1>2 DEF DeleteComment, IInv, Typed
  <2>2. Live' = Live \ {c}
    BY <2>1 DEF Live
  <2>3. CASE UNCHANGED <<run, wake>>
    <3>1. KeptIn(run, wake, Live \ {c})
      BY DEF KeptInv, KeptIn, AllHeld
    <3>2. QED
      BY <2>2, <2>3, <3>1 DEF KeptInv
  <2>4. CASE \E w \in QueueOf(c) : DiscardFrom(w, c)
    BY <2>2, <2>4, DiscardKept DEF KeptInv
  <2>5. QED
    BY <1>2, <2>3, <2>4 DEF DeleteComment
<1>3. ASSUME NEW s \in Status, SetStatus(s)
      PROVE  KeptInv'
  BY <1>3 DEF SetStatus, KeptInv, Live
<1>4. QED
  BY <1>1, <1>2, <1>3 DEF Operate, ReassignStop

LEMMA ArriveKept ==
  ASSUME IInv, SingleInv, Sole, KeptInv, Arrive
  PROVE  KeptInv'
<1>1. ASSUME NEW c \in Comments, PostComment(c)
      PROVE  KeptInv'
  <2>1. /\ comment[c] = "none" /\ comment' = [comment EXCEPT ![c] = "live"]
        /\ UNCHANGED <<run, wake>> /\ comment \in [Comments -> {"none", "live", "deleted"}]
    BY <1>1 DEF PostComment, IInv, Typed
  <2>2. Live' = Live \cup {c} /\ c \notin Told
    BY <2>1 DEF Live, Told
  <2>3. KeptIn(run, wake, Live')
    BY <2>2, KeptTold DEF SingleInv, Single, KeptInv
  <2>4. QED
    BY <2>1, <2>3 DEF KeptInv
<1>2. ASSUME NEW c \in Comments, NEW a \in Agents, CommentWake(c, a)
      PROVE  KeptInv'
  <2>1. a = issue.assignee /\ Enqueue("comment", issue.assignee, {c}, None) /\ Live' = Live
    BY <1>2 DEF CommentWake, Sole, Enqueue, Live
  <2>2. KeptIn(run', wake', Live)
    BY <2>1, EnqueueKept DEF Kinds
  <2>3. QED
    BY <2>1, <2>2 DEF KeptInv
<1>3. ASSUME SystemWake
      PROVE  KeptInv'
  <2>1. Enqueue("system", issue.assignee, {}, None) /\ Live' = Live
    BY <1>3 DEF SystemWake, Enqueue, Live
  <2>2. KeptIn(run', wake', Live)
    BY <2>1, EnqueueKept DEF Kinds
  <2>3. QED
    BY <2>1, <2>2 DEF KeptInv
<1>4. QED
  BY <1>1, <1>2, <1>3 DEF Arrive

LEMMA RecoveryKept ==
  ASSUME IInv, Sole, KeptInv, Recovery
  PROVE  KeptInv'
<1>1. Live' = Live
  BY DEF Recovery, Reap, ScheduleRetry, PromoteRetry, ResumeStranded, ReleaseIssue,
     SweepStaleLock, process, Live
<1>2. ASSUME NEW r \in Rows, Reap(r)
      PROVE  KeptInv'
  BY <1>1, <1>2, ReapTurn, PlainTurnKeeps, KeptTurn DEF PlainTurn, KeptInv
<1>3. ASSUME NEW r \in Rows, PromoteRetry(r)
      PROVE  KeptInv'
  <2>1. Waiting(r) /\ run[r].st = "scheduled"
    BY <1>3 DEF PromoteRetry, Waiting
  <2>2. Turn(r) /\ TurnKeeps(r, Live)
    BY <1>3, <2>1, CancelRowsTurn, CancelRowsKeeps, DueTurn, PlainTurnKeeps
       DEF PromoteRetry, PlainTurn, Waits
  <2>3. QED
    BY <1>1, <2>2, KeptTurn DEF KeptInv
<1>4. ASSUME NEW r \in Rows, ScheduleRetry(r)
      PROVE  KeptInv'
  <2>1. CASE RetryOf(r)
    <3>1. PICK w \in Rows, n \in Rows : RetriedAs(r, w, n)
      BY <2>1, RetryEffect
    <3>2. ContinuedRow(run, wake, run', wake', n, w)
      BY <3>1 DEF RetriedAs, ContinuedRow, WakeRow
    <3>3. QED
      BY <1>1, <3>2, KeptContinued DEF IInv, KeptInv
  <2>2. QED
    BY <1>1, <1>4, <2>1 DEF ScheduleRetry, KeptInv
<1>5. ASSUME NEW r \in Rows, ResumeStranded(r)
      PROVE  KeptInv'
  BY <1>1, <1>5, ReleaseKept DEF ResumeStranded, KeptInv
<1>6. QED
  BY <1>1, <1>2, <1>3, <1>4, <1>5 DEF Recovery, SweepStaleLock, KeptInv

LEMMA NextKept ==
  ASSUME "reassign" \notin Inputs, IInv, SingleInv, Sole, KeptInv, [Next]_vars
  PROVE  KeptInv'
<1>1. ASSUME NEW r \in Rows, NEW how \in Settlement, Release(r, how)
      PROVE  KeptInv'
  <2>1. PICK fact \in [Agents -> Facts] : ReleaseWith(r, how, fact)
    BY <1>1 DEF Release
  <2>2. KeptIn(run', wake', Live) /\ Live' = Live
    BY <2>1, ReleaseKept DEF ReleaseWith, ReleaseIssue, Live
  <2>3. QED
    BY <2>2 DEF KeptInv
<1>2. CASE Restart \/ UNCHANGED vars
  BY <1>2 DEF Restart, vars, KeptInv, Live
<1>3. ~ReassignCommit /\ ~ReassignWake
  BY DEF ReassignCommit, ReassignWake, Sole
<1>4. QED
  BY <1>1, <1>2, <1>3, ArriveKept, OperateKept, RecoveryKept, ExecuteKept DEF Next

LEMMA InitKept == Init => KeptInv
<1> SUFFICES ASSUME Init PROVE KeptInv
  OBVIOUS
<1>1. \A w \in Rows : wake[w].st = "none" /\ wake[w].msg = {} /\ wake[w].run = None
  BY DEF Init
<1>2. QED
  BY <1>1 DEF KeptInv, KeptIn, AllHeld, RetriesSilent

\* While nobody reassigns the issue, every live message that has no answer yet is held
\* by the wake that carries it, or by the run of that wake.
THEOREM MessagesHeld == "reassign" \notin Inputs => (Spec => [](Sole /\ KeptInv))
<1> SUFFICES ASSUME "reassign" \notin Inputs
             PROVE  Spec => [](Sole /\ KeptInv)
  OBVIOUS
<1>1. Init => Sole /\ KeptInv
  BY InitSole, InitKept
<1>2. IInv /\ SingleInv /\ (Sole /\ KeptInv) /\ [Next]_vars => (Sole /\ KeptInv)'
  BY NextSole, NextKept
<1>3. QED
  BY <1>1, <1>2, Inductive, MessagesSingle, PTL DEF Spec

\* No message is lost while the issue keeps its assignee: whatever stops, crashes,
\* reaps, retries, drains and queue edits follow, a live comment whose wake is recorded
\* is in a saved wake, or in a run that waits or has started.
THEOREM NoMessageLost == "reassign" \notin Inputs => (Spec => []MessagesKept)
<1> SUFFICES ASSUME "reassign" \notin Inputs
             PROVE  Spec => []MessagesKept
  OBVIOUS
<1>1. IInv /\ KeptInv => MessagesKept
  <2> SUFFICES ASSUME IInv, KeptInv, NEW w \in Rows, ~Merged(w), ~Answered(w),
                      NEW c \in LiveIds(wake[w].msg)
               PROVE  Kept(c)
    BY DEF MessagesKept
  <2>1. Unanswered(run, wake, w) /\ c \in wake[w].msg \cap Live
    <3>1. wake[w].msg \in SUBSET Comments
      BY DEF IInv, Sound, WakeRows, WakeRecord
    <3>2. QED
      BY <3>1, LiveIdsLive DEF Merged, Answered, Unanswered, MergedRow
  <2>2. Held(run, wake, w, c)
    BY <2>1 DEF KeptInv, KeptIn, AllHeld
  <2>3. wake[w].run # None => wake[w].run \in Rows
    BY SoundReferences DEF IInv, References
  <2>4. QED
    BY <2>2, <2>3 DEF Held, Holds, Kept, Deferred, Waiting, Waits
<1>2. QED
  BY <1>1, Inductive, MessagesHeld, PTL

------------------------------------------------------------------------------
(* Whose run the issue executes.                                              *)

\* While nobody changes the assignee or the status, a run that runs has the lock.
Quiet == Inputs \cap {"reassign", "todo", "blocked", "done"} = {}
Locked ==
  /\ issue.status \in {"todo", "in_progress"}
  /\ \A r \in Rows : run[r].st = "running" => issue.exec = r

\* No run has begun in this step, and the lock of one that still runs was not touched.
NoneBegins ==
  /\ issue'.status \in {"todo", "in_progress"}
  /\ \A q \in Rows : run'[q].st = "running" => run[q].st = "running" /\ issue'.exec = issue.exec
LEMMA LockedKept ==
  ASSUME Locked, NoneBegins
  PROVE  Locked'
BY DEF Locked, NoneBegins

\* The UPDATE that clears the lock of a run which does not run.
LEMMA UnlockedKept ==
  ASSUME IInv, Locked, NEW r \in Rows, issue' = Unlocked(r),
         \A q \in Rows : run'[q].st = "running" => run[q].st = "running" /\ q # r
  PROVE  Locked'
<1>1. /\ issue \in IssueRows /\ issue'.status = issue.status
      /\ issue.exec # r => issue'.exec = issue.exec
  BY DEF IInv, Typed, IssueRows, Unlocked
<1>2. QED
  BY <1>1 DEF Locked

\* A wake moves the lock to the run it finds, which is the one that runs.
LEMMA EnqueueLocked ==
  ASSUME IInv, Sole, Locked, NEW kind \in Kinds, NEW cs \in SUBSET Comments,
         Enqueue(kind, issue.assignee, cs, None)
  PROVE  Locked'
<1> DEFINE a == issue.assignee
<1>1. /\ a \in Agents /\ issue \in IssueRows /\ RunsBehind = run /\ StaleHolders = {}
  <2>1. \A r \in StaleHolders : run[r].st # "none" /\ ~Owns(r) /\ r \in Rows
    BY StaleHoldersWait DEF Waiting, Owns
  <2>2. QED
    BY <2>1, NoStaleHolder DEF IInv, Typed, IssueRows
<1>2. issue' = [issue EXCEPT !.exec = Holder]
  BY DEF Enqueue
<1>3. issue'.exec = Holder /\ issue'.status = issue.status
  BY <1>1, <1>2 DEF IssueRows
<1>4. \A q \in Rows : run'[q].st = "running" => run[q].st = "running"
  <2>1. CASE Joins(a, cs) /\ JoinRun(kind, a, cs)
    <3>1. PICK w \in Rows : JoinedInto(kind, a, cs, w)
      BY <1>1, <2>1, JoinEffect DEF Joins
    <3>2. QED
      BY <1>1, <3>1 DEF JoinedInto
  <2>2. CASE DeferWake(kind, a, cs)
    BY <1>1, <2>2 DEF DeferWake
  <2>3. CASE StartRun(kind, a, cs, None)
    <3>1. PICK w \in Rows, n \in Rows : StartedAs(kind, a, cs, None, w, n)
      BY <1>1, <2>3, StartEffect
    <3>2. run'[n].st = "queued" /\ \A r \in Rows \ {n} : run'[r] = run[r]
      BY <1>1, <3>1 DEF StartedAs, QueuedRun
    <3>3. QED
      BY <3>2
  <2>4. QED
    BY <2>1, <2>2, <2>3 DEF Enqueue
<1>5. ASSUME NEW q \in Rows, run[q].st = "running"
      PROVE  Holder = issue.exec
  <2>1. q \in ActiveRuns /\ issue.exec = q
    BY <1>5 DEF ActiveRuns, Active, Locked
  <2>2. QED
    BY <1>1, <2>1 DEF Holder
<1>6. QED
  BY <1>3, <1>4, <1>5, LockedKept DEF NoneBegins, Locked

LEMMA ExecuteLocked ==
  ASSUME IInv, Sole, Locked, NEW r \in Rows, Execute(r)
  PROVE  Locked'
<1>1. issue \in IssueRows /\ r # None
  BY RowsAreNumbers DEF IInv, Typed
<1>2. ASSUME NEW y \in {"skipped", "cancelled"}, Waiting(r), CancelRows(r, y)
      PROVE  Locked'
  <2>1. run'[r].st = "cancelled" /\ \A q \in Rows \ {r} : run'[q] = run[q]
    BY <1>2, CancelRowsTurn DEF PlainTurn, Turn
  <2>2. QED
    BY <1>2, <2>1, UnlockedKept DEF CancelRows
<1>3. CASE Gate(r)
  <2>1. CASE UNCHANGED <<run, issue>>
    BY <2>1 DEF Locked
  <2>2. CASE CancelRows(r, "skipped")
    BY <1>2, <1>3, <2>2 DEF Gate, Waiting
  <2>3. QED
    BY <1>3, <2>1, <2>2 DEF Gate
<1>4. CASE Claim(r)
  <2>1. CASE UNCHANGED <<run, issue>>
    BY <2>1 DEF Locked
  <2>2. CASE Claimable(r) /\ CancelRows(r, "cancelled")
    BY <1>2, <2>2 DEF Claimable, Waiting
  <2>3. CASE Claimable(r) /\ TakeRun(r)
    <3>1. run[r].st = "queued" /\ Owns(r) /\ ~Blocked(r)
      BY <2>3, NoStaleHolder DEF Claimable
    <3>2. issue'.exec = r /\ issue'.status = issue.status
      BY <1>1, <2>3, <3>1 DEF TakeRun, IssueRows
    <3>3. ASSUME NEW q \in Rows, q # r, run[q].st = "running"
          PROVE  FALSE
      BY <1>1, <3>1, <3>3, RowsAreNumbers DEF Locked, Blocked, Active
    <3>4. \A q \in Rows \ {r} : run'[q] = run[q]
      BY <2>3, TakeRunTurn DEF Turn
    <3>5. QED
      BY <3>2, <3>3, <3>4 DEF Locked
  <2>4. QED
    BY <1>4, <2>1, <2>2, <2>3 DEF Claim
<1>5. CASE StampClaim(r)
  <2>1. run[r].st = "running" /\ run' = run /\ issue.exec = r
    BY <1>5, StampTurn DEF Locked
  <2>2. issue' = issue
    BY <1>1, <1>5, <2>1 DEF StampClaim
  <2>3. QED
    BY <2>1, <2>2 DEF Locked
<1>6. CASE ReleaseClaim(r)
  <2>1. run'[r].st = "queued" /\ \A q \in Rows \ {r} : run'[q] = run[q]
    BY <1>6, ReleaseClaimTurn DEF PlainTurn, Turn
  <2>2. QED
    BY <1>6, <2>1, UnlockedKept DEF ReleaseClaim
<1>7. CASE Checkout(r)
  <2>1. run[r].st = "running" /\ run' = run /\ issue.exec = r
    BY <1>7 DEF Checkout, Locked
  <2>2. issue'.exec = r /\ issue'.status = "in_progress"
    BY <1>1, <1>7 DEF Checkout, IssueRows
  <2>3. QED
    BY <2>1, <2>2 DEF Locked
<1>8. CASE \E outcome \in {"succeeded", "failed"} : Finish(r, outcome)
  <2>1. PICK outcome \in {"succeeded", "failed"} : Finish(r, outcome)
    BY <1>8
  <2>2. run'[r].st = outcome /\ \A q \in Rows \ {r} : run'[q] = run[q]
    BY <2>1, FinishTurn DEF PlainTurn, Turn
  <2>3. issue' = issue
    BY <2>1 DEF Finish
  <2>4. QED
    BY <2>2, <2>3 DEF Locked
<1>9. CASE Begin(r) \/ Cleanup(r)
  BY <1>9 DEF Begin, Cleanup, Locked
<1>10. QED
  BY <1>3, <1>4, <1>5, <1>6, <1>7, <1>8, <1>9 DEF Execute

\* A release that may drain finds no run that runs.
LEMMA ReleaseLocked ==
  ASSUME IInv, Locked, NEW r \in Rows, Ended(r), NEW quiet, NEW resume, NEW fact,
         ReleaseIssue(r, quiet, resume, fact)
  PROVE  Locked'
<1>1. issue \in IssueRows /\ run[r].st # "running"
  BY DEF IInv, Typed, Ended
<1>2. CASE UNCHANGED run /\ issue' = Unlocked(r)
  BY <1>1, <1>2, UnlockedKept
<1>3. ASSUME issue.exec \in {None, r}
      PROVE  \A q \in Rows : run[q].st # "running"
  BY <1>1, <1>3, RowsAreNumbers DEF Locked
<1>4. CASE issue.exec \in {None, r} /\ Promote(r, resume, fact)
  <2>1. PICK w \in Promoted(r, resume, fact), n \in Rows : PromotedAs(r, resume, fact, w, n)
    BY <1>4, PromoteEffect
  <2>2. run'[n].st = "queued" /\ \A q \in Rows \ {n} : run'[q] = run[q]
    BY <2>1 DEF PromotedAs, QueuedRun
  <2>3. issue'.status = issue.status
    BY <1>1, <2>1 DEF PromotedAs, IssueRows, Locked
  <2>4. QED
    BY <1>3, <1>4, <2>2, <2>3 DEF Locked
<1>5. CASE issue.exec \in {None, r} /\ Recover(r, resume, fact)
  <2>1. PICK w \in Rows, n \in Rows : RecoveredAs(r, resume, fact, w, n)
    BY <1>5, RecoverEffect
  <2>2. /\ run'[n].st = "queued" /\ \A q \in Rows \ {n} : run'[q] = run[q]
        /\ issue' = [issue EXCEPT !.exec = n]
    BY <2>1 DEF RecoveredAs
  <2>3. issue'.status = issue.status
    BY <1>1, <2>2 DEF IssueRows
  <2>4. QED
    BY <1>3, <1>5, <2>2, <2>3 DEF Locked
<1>6. QED
  BY <1>2, <1>4, <1>5 DEF ReleaseIssue

LEMMA OperateLocked ==
  ASSUME Quiet, IInv, Sole, Locked, Operate
  PROVE  Locked'
<1>1. issue \in IssueRows
  BY DEF IInv, Typed
<1>2. ASSUME NEW r \in Rows, Stop(r)
      PROVE  Locked'
  <2>1. run'[r].st = "cancelled" /\ \A q \in Rows \ {r} : run'[q] = run[q]
    BY <1>2, CancelTurn DEF Stop, PlainTurn, Turn
  <2>2. issue' = issue
    BY <1>2 DEF Stop
  <2>3. QED
    BY <2>1, <2>2 DEF Locked
<1>3. ASSUME NEW s \in Status, SetStatus(s)
      PROVE  Locked'
  <2>1. s = "in_progress"
    BY <1>3 DEF SetStatus, Quiet, Status
  <2>2. issue'.exec = issue.exec /\ issue'.status = "in_progress" /\ run' = run
    BY <1>1, <1>3, <2>1 DEF SetStatus, IssueRows
  <2>3. QED
    BY <2>2 DEF Locked
<1>4. ASSUME NEW c \in Comments, DeleteComment(c)
      PROVE  Locked'
  <2>1. CASE UNCHANGED <<issue, run>>
    BY <2>1 DEF Locked
  <2>2. ASSUME NEW w \in QueueOf(c), DiscardFrom(w, c)
        PROVE  Locked'
    <3>1. CASE wake[w].st = "deferred"
      <4>1. UNCHANGED <<issue, run>>
        BY <2>2, <3>1, DiscardSaved
      <4>2. QED
        BY <4>1 DEF Locked
    <3>2. CASE wake[w].st # "deferred"
      <4> DEFINE r == wake[w].run
      <4>1. /\ r \in Rows /\ run[r].st = "queued" /\ \A q \in Rows \ {r} : run'[q] = run[q]
            /\ \/ run'[r].st = "cancelled" /\ issue' = Unlocked(r)
               \/ run'[r].st = "queued" /\ issue' = issue
        <5>1. r \in Rows /\ run[r].st = "queued" /\ Turn(r)
          BY <2>2, <3>2, DiscardEffect
        <5>2. \/ run'[r].st = "cancelled" /\ issue' = Unlocked(r)
              \/ run'[r].st = "queued" /\ issue' = issue
          BY <2>2, <3>2, DiscardEffect
        <5>3. QED
          BY <5>1, <5>2 DEF Turn
      <4> HIDE DEF r
      <4>2. \A q \in Rows : run'[q].st = "running" => run[q].st = "running" /\ q # r
        BY <4>1
      <4>3. QED
        BY <4>1, <4>2, UnlockedKept DEF Locked
    <3>3. QED
      BY <3>1, <3>2
  <2>3. QED
    BY <1>4, <2>1, <2>2 DEF DeleteComment
<1>5. \A a \in Agents : ~ReassignStop(a)
  BY DEF ReassignStop, Quiet
<1>6. QED
  BY <1>2, <1>3, <1>4, <1>5 DEF Operate

LEMMA RecoveryLocked ==
  ASSUME IInv, Locked, Recovery
  PROVE  Locked'
<1>1. issue \in IssueRows
  BY DEF IInv, Typed
<1>2. ASSUME NEW r \in Rows, Reap(r)
      PROVE  Locked'
  <2>1. run'[r].st = "failed" /\ \A q \in Rows \ {r} : run'[q] = run[q]
    BY <1>2, ReapTurn DEF PlainTurn, Turn
  <2>2. issue' = issue
    BY <1>2 DEF Reap
  <2>3. QED
    BY <2>1, <2>2 DEF Locked
<1>3. ASSUME NEW r \in Rows, PromoteRetry(r)
      PROVE  Locked'
  <2>1. Waiting(r)
    BY <1>3 DEF PromoteRetry, Waiting
  <2>2. CASE run' = [run EXCEPT ![r].st = "queued"] /\ UNCHANGED <<issue, wake>>
    <3>1. run'[r].st = "queued" /\ \A q \in Rows \ {r} : run'[q] = run[q]
      BY <1>3, <2>2, DueTurn DEF PlainTurn, Turn
    <3>2. QED
      BY <2>2, <3>1 DEF Locked
  <2>3. CASE CancelRows(r, "cancelled")
    <3>1. run'[r].st = "cancelled" /\ \A q \in Rows \ {r} : run'[q] = run[q]
      BY <2>1, <2>3, CancelRowsTurn DEF PlainTurn, Turn
    <3>2. QED
      BY <2>3, <3>1, UnlockedKept DEF CancelRows
  <2>4. QED
    BY <1>3, <2>2, <2>3 DEF PromoteRetry
<1>4. ASSUME NEW r \in Rows, ScheduleRetry(r)
      PROVE  Locked'
  <2>1. Ended(r)
    BY <1>4 DEF ScheduleRetry, IInv, Driven, Settlement
  <2>2. CASE RetryOf(r)
    <3>1. PICK w \in Rows, n \in Rows : RetriedAs(r, w, n)
      BY <2>2, RetryEffect
    <3>2. /\ run'[n].st = "scheduled" /\ \A q \in Rows \ {n} : run'[q] = run[q]
          /\ issue' = IF issue.exec = r THEN [issue EXCEPT !.exec = n] ELSE issue
      BY <3>1 DEF RetriedAs
    <3>3. issue'.status = issue.status /\ (issue.exec # r => issue'.exec = issue.exec)
      BY <1>1, <3>2 DEF IssueRows
    <3>4. \A q \in Rows : run[q].st = "running" => issue.exec # r
      BY <2>1 DEF Locked, Ended
    <3>5. QED
      BY <3>2, <3>3, <3>4 DEF Locked
  <2>3. CASE UNCHANGED <<issue, run, wake>>
    BY <2>3 DEF Locked
  <2>4. QED
    BY <1>4, <2>2, <2>3 DEF ScheduleRetry
<1>5. ASSUME NEW r \in Rows, ResumeStranded(r)
      PROVE  Locked'
  BY <1>5, ReleaseLocked DEF ResumeStranded
<1>6. CASE SweepStaleLock
  <2>1. /\ Ended(issue.exec) /\ run' = run /\ issue'.status = issue.status
    BY <1>1, <1>6 DEF SweepStaleLock, IssueRows
  <2>2. QED
    BY <2>1 DEF Locked, Ended
<1>7. QED
  BY <1>2, <1>3, <1>4, <1>5, <1>6 DEF Recovery

LEMMA NextLocked ==
  ASSUME Quiet, IInv, Sole, Locked, [Next]_vars
  PROVE  Locked'
<1>1. CASE Arrive
  <2>1. ASSUME NEW c \in Comments, PostComment(c)
        PROVE  Locked'
    BY <2>1 DEF PostComment, Locked
  <2>2. ASSUME NEW c \in Comments, NEW a \in Agents, CommentWake(c, a)
        PROVE  Locked'
    <3>1. Enqueue("comment", issue.assignee, {c}, None)
      BY <2>2 DEF CommentWake, Sole
    <3>2. QED
      BY <3>1, EnqueueLocked DEF Kinds
  <2>3. ASSUME SystemWake
        PROVE  Locked'
    BY <2>3, EnqueueLocked DEF SystemWake, Kinds
  <2>4. QED
    BY <1>1, <2>1, <2>2, <2>3 DEF Arrive
<1>2. ASSUME NEW r \in Rows, NEW how \in Settlement, Release(r, how)
      PROVE  Locked'
  <2>1. PICK fact \in [Agents -> Facts] : ReleaseWith(r, how, fact)
    BY <1>2 DEF Release
  <2>2. Ended(r)
    BY <2>1 DEF ReleaseWith, IInv, Driven
  <2>3. QED
    BY <2>1, <2>2, ReleaseLocked DEF ReleaseWith
<1>3. CASE Restart \/ UNCHANGED vars
  BY <1>3 DEF Restart, vars, Locked
<1>4. ~ReassignCommit /\ ~ReassignWake
  BY DEF ReassignCommit, ReassignWake, Sole
<1>5. QED
  BY <1>1, <1>2, <1>3, <1>4, ExecuteLocked, OperateLocked, RecoveryLocked DEF Next

\* The lock serialises the assignee's runs while nobody changes the assignee or the
\* status of the issue: a claim, and no wake, retry, sweep or release, gives the issue
\* to another run while one runs.
THEOREM OwnerRunsAlone == Quiet => (Spec => []OneRunOfOwner)
<1> SUFFICES ASSUME Quiet
             PROVE  Spec => []OneRunOfOwner
  OBVIOUS
<1>1. Init => Locked
  BY DEF Init, Locked
<1>2. IInv /\ Sole /\ Locked /\ [Next]_vars => Locked'
  BY NextLocked
<1>3. Locked => OneRunOfOwner
  <2> SUFFICES ASSUME Locked PROVE OneRunOfOwner
    OBVIOUS
  <2> DEFINE S == {r \in Rows : run[r].st = "running" /\ Owns(r)}
  <2>1. S \subseteq {issue.exec}
    BY DEF Locked
  <2> HIDE DEF S
  <2>2. S = {} \/ S = {issue.exec}
    BY <2>1
  <2>3. Cardinality(S) \in {0, 1}
    BY <2>2, FS_EmptySet, FS_Singleton
  <2>4. QED
    BY <2>3 DEF OneRunOfOwner, S
<1>4. "reassign" \notin Inputs
  BY DEF Quiet
<1>5. Spec => []Sole
  BY <1>4, MessagesHeld, PTL
<1>6. QED
  BY <1>1, <1>2, <1>3, <1>5, Inductive, PTL DEF Spec

================================================================================
