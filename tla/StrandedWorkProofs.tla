-------------------------- MODULE StrandedWorkProofs --------------------------
(***************************************************************************)
(* Proofs about StrandedWork: the jobs of the sweep keep their types, there   *)
(* is one sweep at a time, and a failed run is retried once, whoever finds    *)
(* the failure first.                                                         *)
(***************************************************************************)
EXTENDS StrandedWork, IssueExecutionProofs

------------------------------------------------------------------------------
(* The inductive invariant.                                                   *)

\* One pass of the sweep at a time, over issues that are open; the run it decided to
\* retry has ended.
Orderly(js) ==
  /\ js \subseteq JobRecords
  /\ \A i, j \in js : i.by = "sweep" /\ j.by = "sweep" => i = j
  /\ \A j \in js : /\ j.step = "retry" => j.run \in Rows /\ Ended(j.run)
                   /\ j.step = "seen" => j.issue.status \in {"todo", "in_progress"}

SInv ==
  /\ IInv /\ OneRetry /\ Orderly(jobs)
  /\ board \in BOOLEAN /\ crashes \in 0..MaxCrashes

------------------------------------------------------------------------------
(* Which steps make a retry.                                                  *)

\* No run of the step counts as a retry that did not count as one of the same run before.
CountKept(S) == \A q \in Rows \ S : Counted(q)' => Counted(q) /\ run'[q].of = run[q].of
NoRetryMade == CountKept({})
RetryMade(r) == ~HasRetry(r) /\ \E n \in Rows : run'[n].of = r /\ CountKept({n})
RetryOnce == NoRetryMade \/ \E r \in Rows : RetryMade(r)

\* A retry of a run without one leaves every run with one retry.
LEMMA OnceStep ==
  ASSUME OneRetry, RetryOnce
  PROVE  OneRetry'
<1>1. CASE NoRetryMade
  BY <1>1 DEF NoRetryMade, CountKept, OneRetry
<1>2. ASSUME NEW r \in Rows, RetryMade(r)
      PROVE  OneRetry'
  <2>1. PICK n \in Rows : run'[n].of = r /\ CountKept({n})
    BY <1>2 DEF RetryMade
  <2>2. \A q \in Rows \ {n} : Counted(q)' => Counted(q) /\ run'[q].of = run[q].of /\ run[q].of # r
    BY <1>2, <2>1 DEF RetryMade, CountKept, HasRetry
  <2> QED
    BY <2>1, <2>2 DEF OneRetry
<1> QED
  BY <1>1, <1>2 DEF RetryOnce

\* A row whose origin is written once, when it is queued.
LEMMA KeptOrigins ==
  ASSUME \A q \in Rows : run'[q].of = run[q].of /\ run'[q].retry = run[q].retry
  PROVE  NoRetryMade
BY DEF NoRetryMade, CountKept, Counted

LEMMA PlainRow ==
  ASSUME NEW n \in Rows, run'[n].of = None \/ run'[n].retry # "no",
         \A q \in Rows \ {n} : run'[q].of = run[q].of /\ run'[q].retry = run[q].retry
  PROVE  NoRetryMade
BY DEF NoRetryMade, CountKept, Counted

\* A wake cancels stale runs, joins one, or queues a run that continues none.
LEMMA EnqueueCount ==
  ASSUME IInv, NEW kind, NEW a, NEW cs, NEW from, Enqueue(kind, a, cs, from)
  PROVE  NoRetryMade
<1>1. \A q \in Rows : RunsBehind[q].of = run[q].of /\ RunsBehind[q].retry = run[q].retry
  BY TypedRuns DEF RunsBehind, RunRecord
<1>2. CASE JoinRun(kind, a, cs)
  <2>1. run' = [RunsBehind EXCEPT ![Holder].ctx = @ \cup cs, ![Holder].kind = kind]
    BY <1>2 DEF JoinRun
  <2>2. \A q \in Rows : run'[q].of = RunsBehind[q].of /\ run'[q].retry = RunsBehind[q].retry
    BY <2>1, TypedRuns DEF RunsBehind, RunRecord
  <2> QED
    BY <1>1, <2>2, KeptOrigins
<1>3. CASE DeferWake(kind, a, cs)
  BY <1>1, <1>3, KeptOrigins DEF DeferWake
<1>4. CASE StartRun(kind, a, cs, from)
  <2>1. PICK w \in Rows, n \in Rows : \E ids :
          run' = [RunsBehind EXCEPT ![n] = QueuedRun(a, w, kind, ids, "no")]
    BY <1>4 DEF StartRun
  <2>2. run'[n].of = None /\ \A q \in Rows \ {n} : run'[q] = RunsBehind[q]
    BY <2>1 DEF QueuedRun, RunsBehind
  <2> QED
    BY <1>1, <2>2, PlainRow
<1> QED
  BY <1>2, <1>3, <1>4 DEF Enqueue

\* A release queues a run for saved messages, or a recovery run with a count of its own.
LEMMA ReleaseCount ==
  ASSUME IInv, NEW r, NEW quiet, NEW resume, NEW fact, ReleaseIssue(r, quiet, resume, fact)
  PROVE  NoRetryMade
<1>1. CASE UNCHANGED run
  BY <1>1, KeptOrigins
<1>2. CASE Promote(r, resume, fact)
  <2>1. PICK w \in Rows, n \in Rows :
          run' = [run EXCEPT ![n] = QueuedRun(wake[w].agent, w, wake[w].kind,
                                              LiveIds(wake[w].env), "no")]
    BY <1>2 DEF Promote, Promoted, Deferred
  <2>2. run'[n].of = None /\ \A q \in Rows \ {n} : run'[q] = run[q]
    BY <2>1, TypedRuns DEF QueuedRun, RunRows
  <2> QED
    BY <2>2, PlainRow
<1>3. CASE Recover(r, resume, fact)
  <2>1. PICK w \in Rows, n \in Rows :
          run' = [run EXCEPT ![n] = [QueuedRun(run[r].agent, w, "system", {}, issue.status)
                                       EXCEPT !.of = r]]
    BY <1>3 DEF Recover
  <2>2. issue.status # "no"
    BY DEF IInv, Typed, IssueRows, Status
  <2>3. run'[n].retry # "no" /\ \A q \in Rows \ {n} : run'[q] = run[q]
    BY <2>1, <2>2, TypedRuns DEF QueuedRun, RunRows
  <2> QED
    BY <2>3, PlainRow
<1> QED
  BY <1>1, <1>2, <1>3 DEF ReleaseIssue

\* The retry of a run names that run, and nothing else changes its origin.
LEMMA RetryCount ==
  ASSUME IInv, NEW r \in Rows, ~HasRetry(r), RetryOf(r)
  PROVE  RetryMade(r)
<1>1. PICK w \in Rows, n \in Rows :
        run' = [run EXCEPT ![n] = [QueuedRun(run[r].agent, w, "system", run[r].ctx, "no")
                                     EXCEPT !.st = "scheduled", !.of = r]]
  BY DEF RetryOf
<1>2. run'[n].of = r /\ \A q \in Rows \ {n} : run'[q] = run[q]
  BY <1>1, TypedRuns DEF QueuedRun, RunRows
<1> QED
  BY <1>2 DEF RetryMade, CountKept, Counted

------------------------------------------------------------------------------
(* The steps of IssueExecution.                                               *)

LEMMA ExecuteCount ==
  ASSUME IInv, NEW r \in Rows, Execute(r)
  PROVE  NoRetryMade
<1> USE TypedRuns
<1>1. CASE UNCHANGED run
  BY <1>1, KeptOrigins
<1>2. ASSUME NEW y, CancelRows(r, y)
      PROVE  NoRetryMade
  BY <1>2, KeptOrigins DEF CancelRows, RunRows, RunRecord
<1>3. CASE TakeRun(r)
  <2>1. PICK ids : run' = [run EXCEPT ![r].st = "running", ![r].started = TRUE, ![r].ctx = ids]
    BY <1>3 DEF TakeRun
  <2> QED
    BY <2>1, KeptOrigins DEF RunRows, RunRecord
<1>4. CASE ReleaseClaim(r)
  BY <1>4, KeptOrigins DEF ReleaseClaim, RunRows, RunRecord
<1>5. ASSUME NEW x, Finish(r, x)
      PROVE  NoRetryMade
  BY <1>5, KeptOrigins DEF Finish, RunRows, RunRecord
<1> QED
  BY <1>1, <1>2, <1>3, <1>4, <1>5
  DEF Execute, Gate, Claim, StampClaim, Begin, Checkout, Cleanup, process

\* Operators stop runs and edit the queue; they make no retry.
LEMMA OperateCount ==
  ASSUME IInv, Operate
  PROVE  NoRetryMade
<1>1. CASE UNCHANGED run
  BY <1>1, KeptOrigins
<1>2. ASSUME NEW r \in Rows, Cancel(r)
      PROVE  NoRetryMade
  BY <1>2, TypedRuns, KeptOrigins DEF Cancel, RunRows, RunRecord
<1>3. ASSUME NEW c \in Comments, DeleteComment(c)
      PROVE  NoRetryMade
  <2>1. CASE UNCHANGED run
    BY <2>1, KeptOrigins
  <2>2. ASSUME NEW w \in QueueOf(c), DiscardFrom(w, c)
        PROVE  NoRetryMade
    <3>1. PICK r, ids, x : run' = run \/ run' = [run EXCEPT ![r].ctx = ids, ![r].st = x]
      BY <2>2 DEF DiscardFrom
    <3> QED
      BY <3>1, TypedRuns, KeptOrigins DEF RunRows, RunRecord
  <2> QED
    BY <1>3, <2>1, <2>2 DEF DeleteComment
<1>4. ASSUME NEW a \in Agents, ReassignStop(a)
      PROVE  NoRetryMade
  <2>1. ToInterrupt \subseteq Rows
    BY DEF ToInterrupt, RunningRuns
  <2> QED
    BY <1>1, <1>2, <1>4, <2>1 DEF ReassignStop
<1> QED
  BY <1>1, <1>2, <1>3, <1>4 DEF Operate, Stop, SetStatus

\* The recovery schedules one retry, of a run that has none.
LEMMA RecoveryCount ==
  ASSUME IInv, Recovery
  PROVE  RetryOnce
<1>1. CASE UNCHANGED run
  BY <1>1, KeptOrigins DEF RetryOnce
<1>2. ASSUME NEW r \in Rows, Reap(r)
      PROVE  NoRetryMade
  BY <1>2, TypedRuns, KeptOrigins DEF Reap, RunRows, RunRecord
<1>3. ASSUME NEW r \in Rows, ScheduleRetry(r)
      PROVE  RetryOnce
  BY <1>1, <1>3, RetryCount DEF ScheduleRetry, RetryOnce
<1>4. ASSUME NEW r \in Rows, PromoteRetry(r)
      PROVE  NoRetryMade
  <2>1. PICK x : run' = [run EXCEPT ![r].st = x]
    BY <1>4 DEF PromoteRetry, CancelRows
  <2> QED
    BY <2>1, TypedRuns, KeptOrigins DEF RunRows, RunRecord
<1>5. ASSUME NEW r \in Rows, ResumeStranded(r)
      PROVE  NoRetryMade
  BY <1>5, ReleaseCount DEF ResumeStranded
<1> QED
  BY <1>1, <1>2, <1>3, <1>4, <1>5 DEF Recovery, SweepStaleLock, RetryOnce

\* No other action of the issue's execution makes a second retry of a run.
LEMMA NextOnce ==
  ASSUME IInv, Next
  PROVE  RetryOnce
<1>1. CASE UNCHANGED run
  BY <1>1, KeptOrigins DEF RetryOnce
<1>2. ASSUME NEW kind, NEW a, NEW cs, NEW from, Enqueue(kind, a, cs, from)
      PROVE  RetryOnce
  BY <1>2, EnqueueCount DEF RetryOnce
<1>3. CASE Arrive
  BY <1>1, <1>2, <1>3 DEF Arrive, PostComment, CommentWake, SystemWake
<1>4. CASE Operate
  BY <1>4, OperateCount DEF RetryOnce
<1>5. CASE ReassignCommit \/ ReassignWake \/ Restart
  BY <1>1, <1>2, <1>5 DEF ReassignCommit, ReassignWake, Restart
<1>6. CASE Recovery
  BY <1>6, RecoveryCount
<1>7. ASSUME NEW r \in Rows, Execute(r)
      PROVE  RetryOnce
  BY <1>7, ExecuteCount DEF RetryOnce
<1>8. ASSUME NEW r \in Rows, NEW how \in Settlement, Release(r, how)
      PROVE  RetryOnce
  BY <1>8, ReleaseCount DEF RetryOnce, Release, ReleaseWith
<1> QED
  BY <1>3, <1>4, <1>5, <1>6, <1>7, <1>8 DEF Next

------------------------------------------------------------------------------
(* The jobs.                                                                  *)

LEMMA JobFields ==
  ASSUME NEW j \in JobRecords
  PROVE  /\ j.by \in {"sweep", "release"} /\ j.step \in Steps /\ j.issue \in IssueRows
         /\ j.run \in Rows \cup {None} /\ j.moved \in BOOLEAN
BY DEF JobRecords, IssueRows

\* A job changes its step, its run or its mark, and stays a job of the same pass.
LEMMA JobAdvanced ==
  ASSUME NEW j \in JobRecords, NEW s \in Steps
  PROVE  /\ [j EXCEPT !.step = s] \in JobRecords
         /\ [j EXCEPT !.step = s].by = j.by /\ [j EXCEPT !.step = s].step = s
BY DEF JobRecords

LEMMA JobMarked ==
  ASSUME NEW j \in JobRecords, NEW b \in BOOLEAN
  PROVE  LET i == [j EXCEPT !.moved = b]
         IN  /\ i \in JobRecords /\ i.by = j.by /\ i.step = j.step /\ i.run = j.run
             /\ i.issue = j.issue
BY DEF JobRecords

LEMMA JobNew ==
  ASSUME NEW by \in {"sweep", "release"}, NEW s \in Steps, NEW row \in IssueRows,
         NEW l \in Rows \cup {None}
  PROVE  /\ Job(by, s, row, l) \in JobRecords
         /\ Job(by, s, row, l).by = by /\ Job(by, s, row, l).step = s
         /\ Job(by, s, row, l).run = l /\ Job(by, s, row, l).issue = row
BY DEF Job, JobRecords, IssueRows

\* Marking the jobs whose issue was written leaves them in order.
LEMMA OrderlyWatched ==
  ASSUME NEW js, Orderly(js)
  PROVE  Orderly(Watched(js))
<1> DEFINE mark(j) == [j EXCEPT !.moved = j.moved \/ RowWritten]
<1>1. \A j \in js : /\ mark(j) \in JobRecords /\ mark(j).by = j.by /\ mark(j).step = j.step
                    /\ mark(j).run = j.run /\ mark(j).issue = j.issue
  <2>1. TAKE j \in js
  <2>2. j \in JobRecords /\ (j.moved \/ RowWritten) \in BOOLEAN
    BY DEF Orderly
  <2> QED
    BY <2>2, JobMarked
<1>2. \A i \in Watched(js) : \E j \in js : i = mark(j)
  BY DEF Watched
<1> HIDE DEF mark
<1> QED
  BY <1>1, <1>2 DEF Orderly

\* Jobs leave, and one is added that is not a second sweep.
LEMMA OrderlyFewer ==
  ASSUME NEW js, Orderly(js), NEW ks \in SUBSET js
  PROVE  Orderly(ks)
BY DEF Orderly

LEMMA OrderlyAdded ==
  ASSUME NEW js, Orderly(js), NEW i \in JobRecords,
         i.by = "sweep" => \A j \in js : j.by # "sweep",
         i.step = "retry" => i.run \in Rows /\ Ended(i.run),
         i.step = "seen" => i.issue.status \in {"todo", "in_progress"}
  PROVE  Orderly(js \cup {i})
BY DEF Orderly

\* A job takes its next step.
LEMMA OrderlyReplaced ==
  ASSUME NEW js, Orderly(js), NEW j \in js, NEW i \in JobRecords, i.by = j.by,
         i.step = "retry" => i.run \in Rows /\ Ended(i.run),
         i.step = "seen" => i.issue.status \in {"todo", "in_progress"}
  PROVE  Orderly((js \ {j}) \cup {i})
BY DEF Orderly

\* Runs stay ended.
LEMMA OrderlyLater ==
  ASSUME NEW js, Orderly(js), NEW S, Steady(S), js' = js
  PROVE  Orderly(js)'
BY DEF Orderly, Steady, Ended

\* The newest run is the last row in use.
LEMMA LatestUsed ==
  ASSUME IInv
  PROVE  \/ LatestRun = None
         \/ LatestRun \in Rows /\ run[LatestRun].st # "none"
<1> DEFINE unused == {r \in Rows : run[r].st = "none"}
<1>0. \A r, q \in Rows : run[r].st # "none" /\ q < r => run[q].st # "none"
  BY DEF IInv, Sound, Chained, UsedUpTo
<1>1. CASE \A r \in Rows : run[r].st = "none"
  BY <1>1 DEF LatestRun
<1>2. CASE unused = {}
  <2>1. MaxRows \in Rows /\ run[MaxRows].st # "none" /\ \A q \in Rows : ~(q > MaxRows)
    BY <1>2, BoundAssumption DEF Rows
  <2> QED
    BY <2>1, <1>2 DEF LatestRun
<1>3. CASE unused # {} /\ \E r \in Rows : run[r].st # "none"
  <2> DEFINE n == Oldest(unused)
  <2>1. unused \in SUBSET Rows
    OBVIOUS
  <2>2. n \in unused /\ \A y \in unused : n <= y
    BY <1>3, <2>1, OldestIn
  <2> HIDE DEF n
  <2>3. PICK p \in Rows : run[p].st # "none"
    BY <1>3
  <2>4. p < n
    BY <2>2, <2>3, <1>0, BoundAssumption DEF Rows
  <2>5. n - 1 \in Rows /\ n - 1 < n /\ n \in Rows
    BY <2>2, <2>4, BoundAssumption DEF Rows
  <2>6. run[n - 1].st # "none"
    BY <2>2, <2>5, BoundAssumption DEF Rows
  <2>7. \A q \in Rows : q > n - 1 => run[q].st = "none"
    BY <2>2, <1>0, BoundAssumption DEF Rows
  <2> QED
    BY <2>5, <2>6, <2>7, <2>3 DEF LatestRun
<1> QED
  BY <1>1, <1>2, <1>3

\* The sweep retries a run that ended: nothing of the issue is active.
LEMMA RetriesEnded ==
  ASSUME IInv, NEW row, NEW fact, "retry" \in Decisions(row, LatestRun, fact)
  PROVE  LatestRun \in Rows /\ Ended(LatestRun)
<1>1. LatestRun # None /\ ~HasActivePath
  BY DEF Decisions, Dispatch, LeftAlone
<1>2. LatestRun \in Rows /\ run[LatestRun].st # "none"
  BY <1>1, LatestUsed
<1>3. ~Active(LatestRun)
  BY <1>1, <1>2 DEF HasActivePath, ActiveRuns
<1>4. run[LatestRun].st \in RunStatus
  BY <1>2, TypedRuns DEF RunRecord
<1> QED
  BY <1>2, <1>3, <1>4 DEF Active, Waiting, Ended, RunStatus

\* Every decision about a candidate of the pass is a step.
LEMMA DecisionSteps ==
  ASSUME NEW row, row.status \in {"todo", "in_progress"}, NEW l, NEW fact
  PROVE  Decisions(row, l, fact) \subseteq Steps
<1>1. Continuation(row, l) \subseteq Steps
  BY DEF Continuation, Steps
<1> QED
  BY <1>1 DEF Decisions, Dispatch, Steps

------------------------------------------------------------------------------
(* The specification.                                                         *)

LEMMA SInitInv == SInit => SInv
<1> SUFFICES ASSUME SInit
             PROVE  SInv
  OBVIOUS
<1>1. IInv
  BY InitInv DEF SInit
<1>2. \A r \in Rows : ~Counted(r)
  BY DEF SInit, Init, Counted
<1>3. OneRetry
  BY <1>2 DEF OneRetry
<1>4. Orderly(jobs)
  BY DEF SInit, Orderly
<1>5. board \in BOOLEAN
  BY DEF SInit
<1>6. crashes \in 0..MaxCrashes
  <2>1. crashes = 0
    BY DEF SInit
  <2> QED
    BY <2>1, CrashAssumption
<1> QED
  BY <1>1, <1>3, <1>4, <1>5, <1>6 DEF SInv

\* The rows of a step, its retries and its jobs make the invariant.
LEMMA SAssemble ==
  ASSUME SInv, IInv', RetryOnce, EndedStay, NEW js, Orderly(js), jobs' = js,
         board' \in BOOLEAN, crashes' \in 0..MaxCrashes
  PROVE  SInv'
<1>1. OneRetry'
  BY OnceStep DEF SInv
<1>2. Orderly(jobs)'
  BY DEF Orderly, EndedStay
<1> QED
  BY <1>1, <1>2 DEF SInv

\* Steps of the issue's execution, with the jobs that they leave.
LEMMA NextJobs ==
  ASSUME SInv, Next, NEW js, Orderly(js), jobs' = js, board' \in BOOLEAN, UNCHANGED crashes
  PROVE  SInv'
<1>1. IInv /\ crashes \in 0..MaxCrashes
  BY DEF SInv
<1> QED
  BY <1>1, NextInv, NextOnce, NextStay, SAssemble

\* Steps of the sweep that only read.
LEMMA ReadJobs ==
  ASSUME SInv, NEW js, Orderly(js), jobs' = js, UNCHANGED <<vars, board, crashes>>
  PROVE  SInv'
<1>1. IInv' /\ UNCHANGED run
  BY StutterStep DEF SInv, vars
<1>2. RetryOnce /\ EndedStay
  BY <1>1, KeptOrigins DEF RetryOnce, EndedStay, Ended
<1> QED
  BY <1>1, <1>2, SAssemble DEF SInv

LEMMA ElsewhereInv ==
  ASSUME SInv, Elsewhere, jobs' = Watched(jobs), UNCHANGED <<board, crashes>>
  PROVE  SInv'
<1>1. Next /\ Orderly(Watched(jobs)) /\ board' \in BOOLEAN
  BY OrderlyWatched DEF Elsewhere, Next, SInv
<1> QED
  BY <1>1, NextJobs

\* A release leaves an escalation to its handler.
LEMMA ReleaseOrEscalateInv ==
  ASSUME SInv, NEW r \in Rows, NEW how \in Settlement, ReleaseOrEscalate(r, how)
  PROVE  SInv'
<1>1. PICK fact \in [Agents -> Facts] :
        /\ ReleaseWith(r, how, fact)
        /\ jobs' = Watched(jobs) \cup (IF OwesEscalation(r, how = "cleanup", fact)
                                         THEN {Job("release", "owed", issue, r)} ELSE {})
        /\ UNCHANGED <<board, crashes>>
  BY DEF ReleaseOrEscalate
<1>2. Next /\ board' \in BOOLEAN
  BY <1>1 DEF Next, Release, SInv
<1>3. Orderly(Watched(jobs))
  BY OrderlyWatched DEF SInv
<1> DEFINE job == Job("release", "owed", issue, r)
<1>4. job \in JobRecords /\ job.by = "release" /\ job.step = "owed"
  BY JobNew DEF SInv, IInv, Typed, Steps
<1> HIDE DEF job
<1>5. Orderly(Watched(jobs) \cup {job})
  BY <1>3, <1>4, OrderlyAdded
<1>6. Orderly(jobs') /\ UNCHANGED crashes
  BY <1>1, <1>3, <1>5 DEF job
<1> QED
  BY <1>2, <1>6, NextJobs

------------------------------------------------------------------------------
(* The steps of the sweep, and of an escalation.                              *)

LEMMA LookInv ==
  ASSUME SInv, Look
  PROVE  SInv'
<1> DEFINE job == Job("sweep", "seen", issue, None)
<1>1. job \in JobRecords /\ job.step = "seen" /\ job.issue = issue
  BY JobNew DEF SInv, IInv, Typed, Steps
<1>2. jobs' = jobs \cup {job} /\ UNCHANGED <<vars, board, crashes>>
  BY DEF Look
<1>3. (\A j \in jobs : j.by # "sweep") /\ issue.status \in {"todo", "in_progress"}
  BY DEF Look
<1> HIDE DEF job
<1>4. Orderly(jobs \cup {job})
  BY <1>1, <1>3, OrderlyAdded DEF SInv
<1> QED
  BY <1>2, <1>4, ReadJobs

LEMMA DecideInv ==
  ASSUME SInv, NEW j \in jobs, Decide(j)
  PROVE  SInv'
<1>1. /\ Orderly(jobs) /\ j \in JobRecords /\ j.issue.status \in {"todo", "in_progress"}
      /\ UNCHANGED <<vars, board, crashes>>
  BY DEF Decide, SInv, Orderly
<1>2. CASE jobs' = jobs \ {j}
  BY <1>1, <1>2, OrderlyFewer, ReadJobs
<1>3. ASSUME NEW fact, NEW s \in Decisions(j.issue, LatestRun, fact),
             jobs' = (jobs \ {j}) \cup {[j EXCEPT !.step = s, !.run = LatestRun]}
      PROVE  SInv'
  <2> DEFINE i == [j EXCEPT !.step = s, !.run = LatestRun]
  <2>1. s \in Steps /\ s # "seen"
    BY <1>1, <1>3, DecisionSteps DEF Decisions, Dispatch, Continuation
  <2>2. LatestRun \in Rows \cup {None}
    BY LatestUsed DEF SInv
  <2>3. i \in JobRecords /\ i.by = j.by /\ i.step = s /\ i.run = LatestRun
    BY <1>1, <2>1, <2>2 DEF JobRecords
  <2> HIDE DEF i
  <2>4. i.step = "retry" => i.run \in Rows /\ Ended(i.run)
    BY <1>3, <2>3, RetriesEnded DEF SInv
  <2>5. Orderly((jobs \ {j}) \cup {i})
    BY <1>1, <2>1, <2>3, <2>4, OrderlyReplaced
  <2> QED
    BY <1>1, <1>3, <2>5, ReadJobs DEF i
<1> QED
  BY <1>2, <1>3 DEF Decide

\* A job that is done leaves the others, which notice that the issue was written.
LEMMA JobDone ==
  ASSUME SInv, NEW j
  PROVE  Orderly(jobs \ {j}) /\ Orderly(Watched(jobs \ {j}))
BY OrderlyFewer, OrderlyWatched DEF SInv

LEMMA WakeAssigneeInv ==
  ASSUME SInv, NEW j \in jobs, WakeAssignee(j)
  PROVE  SInv'
<1>1. /\ Enqueue("system", j.issue.assignee, {}, None) /\ UNCHANGED <<mail, route, board, crashes>>
      /\ jobs' = Watched(jobs \ {j})
  BY DEF WakeAssignee
<1>2. j.issue.assignee \in Agents
  BY JobFields DEF SInv, Orderly, IssueRows
<1>3. IInv' /\ RetryOnce
  BY <1>1, <1>2, WakeStep, EnqueueCount DEF SInv, IInv, Typed, Kinds, RetryOnce
<1>4. EndedStay
  BY <1>1, <1>2, EnqueueStep DEF SInv, Kinds, Steady, EndedStay
<1> QED
  BY <1>1, <1>3, <1>4, JobDone, SAssemble DEF SInv

LEMMA RetryLatestInv ==
  ASSUME SInv, NEW j \in jobs, RetryLatest(j)
  PROVE  SInv'
<1>1. j \in JobRecords /\ j.run \in Rows /\ Ended(j.run) /\ UNCHANGED <<board, crashes>>
  BY DEF RetryLatest, SInv, Orderly
<1>2. CASE UNCHANGED vars /\ jobs' = (jobs \ {j}) \cup {[j EXCEPT !.step = "spent"]}
  <2> DEFINE i == [j EXCEPT !.step = "spent"]
  <2>1. i \in JobRecords /\ i.by = j.by /\ i.step = "spent"
    BY <1>1, JobAdvanced DEF Steps
  <2> HIDE DEF i
  <2>2. Orderly((jobs \ {j}) \cup {i})
    BY <2>1, OrderlyReplaced DEF SInv
  <2> QED
    BY <1>1, <1>2, <2>2, ReadJobs DEF i
<1>3. CASE UNCHANGED vars /\ jobs' = jobs \ {j}
  BY <1>1, <1>3, JobDone, ReadJobs
<1>4. CASE /\ ~HasRetry(j.run) /\ RetryOf(j.run)
           /\ UNCHANGED <<comment, proc, settle, mail, route>>
           /\ jobs' = Watched(jobs \ {j})
  <2>1. Sound(run, wake)' /\ Steady({}) /\ issue' \in IssueRows
    BY <1>1, <1>4, RetryOfStep DEF SInv
  <2>2. Typed'
    BY <1>4, <2>1 DEF SInv, IInv, Typed
  <2>3. IInv'
    BY <1>4, <2>1, <2>2, Assemble DEF SInv, Busy
  <2>4. RetryOnce /\ EndedStay
    BY <1>1, <1>4, <2>1, RetryCount DEF SInv, RetryOnce, Steady, EndedStay
  <2> QED
    BY <1>1, <1>4, <2>3, <2>4, JobDone, SAssemble DEF SInv
<1> QED
  BY <1>2, <1>3, <1>4 DEF RetryLatest

LEMMA RereadInv ==
  ASSUME SInv, NEW j \in jobs, Reread(j)
  PROVE  SInv'
<1> DEFINE i == [j EXCEPT !.step = "escalate"]
<1>1. i \in JobRecords /\ i.by = j.by /\ i.step = "escalate"
  BY JobAdvanced DEF SInv, Orderly, Steps
<1>2. UNCHANGED <<vars, board, crashes>> /\ (jobs' = jobs \ {j} \/ jobs' = (jobs \ {j}) \cup {i})
  BY DEF Reread
<1> HIDE DEF i
<1>3. Orderly((jobs \ {j}) \cup {i})
  BY <1>1, OrderlyReplaced DEF SInv
<1> QED
  BY <1>2, <1>3, JobDone, ReadJobs

\* An escalation blocks the issue, which clears its lock.
LEMMA EscalateInv ==
  ASSUME SInv, NEW j \in jobs, Escalate(j)
  PROVE  SInv'
<1>1. /\ UNCHANGED <<comment, run, wake, process, crashes>> /\ jobs' = Watched(jobs \ {j})
      /\ board' \in BOOLEAN /\ issue' \in {issue, [issue EXCEPT !.status = "blocked", !.exec = None]}
  BY DEF Escalate, SInv
<1>2. issue' \in IssueRows
  BY <1>1 DEF SInv, IInv, Typed, IssueRows, Status
<1>3. IInv'
  BY <1>1, <1>2, PlainStep DEF process, SInv, IInv, Typed
<1>4. RetryOnce /\ EndedStay
  BY <1>1, KeptOrigins DEF RetryOnce, EndedStay, Ended
<1> QED
  BY <1>1, <1>3, <1>4, JobDone, SAssemble DEF SInv

LEMMA LoadRowInv ==
  ASSUME SInv, NEW j \in jobs, j.by = "release", LoadRow(j)
  PROVE  SInv'
<1> DEFINE i == Job("release", "escalate", issue, j.run)
<1>1. i \in JobRecords /\ i.by = j.by /\ i.step = "escalate"
  BY JobFields, JobNew DEF SInv, Orderly, Steps, IInv, Typed
<1>2. UNCHANGED <<vars, board, crashes>> /\ jobs' = (jobs \ {j}) \cup {i}
  BY DEF LoadRow
<1> HIDE DEF i
<1>3. Orderly((jobs \ {j}) \cup {i})
  BY <1>1, OrderlyReplaced DEF SInv
<1> QED
  BY <1>2, <1>3, ReadJobs

\* A restart forgets the jobs.
LEMMA CrashInv ==
  ASSUME SInv, Crash
  PROVE  SInv'
<1>1. Next /\ jobs' = {} /\ board' \in BOOLEAN /\ crashes' \in 0..MaxCrashes
  BY CrashAssumption DEF Crash, Next, SInv
<1>2. Orderly({})
  BY DEF Orderly
<1>3. IInv' /\ RetryOnce /\ EndedStay
  BY <1>1, NextInv, NextOnce, NextStay DEF SInv
<1> QED
  BY <1>1, <1>2, <1>3, SAssemble

LEMMA SNextInv ==
  ASSUME SInv, SNext
  PROVE  SInv'
<1>1. CASE Sweep
  BY <1>1, LookInv, DecideInv, WakeAssigneeInv, RetryLatestInv, RereadInv, EscalateInv DEF Sweep
<1>2. CASE SettleEscalation
  BY <1>2, LoadRowInv, EscalateInv DEF SettleEscalation
<1> QED
  BY <1>1, <1>2, ElsewhereInv, ReleaseOrEscalateInv, CrashInv DEF SNext

\* SInv is inductive.
THEOREM SweepInductive == SSpec => []SInv
<1>1. SInv /\ UNCHANGED svars => SInv'
  BY ReadJobs DEF svars, SInv
<1>2. SInv /\ [SNext]_svars => SInv'
  BY <1>1, SNextInv
<1>3. QED
  BY SInitInv, <1>2, PTL DEF SSpec

\* Every variable of the sweep keeps its type, and there is one pass at a time.
THEOREM SweepTypeCorrect == SSpec => []SweepTypeOK
<1>1. SInv => SweepTypeOK
  <2> SUFFICES ASSUME SInv
               PROVE  SweepTypeOK
    OBVIOUS
  <2> DEFINE passes == {j \in jobs : j.by = "sweep"}
  <2>1. passes = {} \/ \E j \in passes : passes = {j}
    BY DEF SInv, Orderly
  <2>2. Cardinality(passes) \in {0, 1}
    BY <2>1, FS_EmptySet, FS_Singleton
  <2> QED
    BY <2>2 DEF SInv, Orderly, SweepTypeOK
<1>2. QED
  BY <1>1, SweepInductive, PTL

\* A failed run is retried once, whoever finds the failure first: the reaper or the sweep,
\* in any order and across restarts.
THEOREM RetriedOnce == SSpec => []OneRetry
<1>1. SInv => OneRetry
  BY DEF SInv
<1>2. QED
  BY <1>1, SweepInductive, PTL

================================================================================
