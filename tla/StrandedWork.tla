----------------------------- MODULE StrandedWork -----------------------------
(***************************************************************************)
(* The recovery of work that nobody continues any more: the periodic sweep   *)
(* over assigned issues (reconcileStrandedAssignedIssues in                   *)
(* server/src/services/recovery/service.ts), and the escalation that a        *)
(* release of IssueExecution may owe (createReleaseIssueExecution).           *)
(*                                                                          *)
(* The sweep reads the issue, reads its runs and wakes, and then acts, each   *)
(* in a transaction of its own: it wakes the agent, schedules a retry of the  *)
(* newest run, or escalates, which blocks the issue and hands it to a person. *)
(* An escalation first compares the issue with the row it was decided on.     *)
(* Everything of IssueExecution runs in between.  The process restarts at     *)
(* most MaxCrashes times.  Work that a successful run leaves unfinished       *)
(* (reconcileLegacyContinuation) is not modelled, nor are reviews, monitors,  *)
(* budgets and conversations.                                                *)
(***************************************************************************)
EXTENDS IssueExecution

CONSTANT MaxCrashes  \* bound on the restarts of the process
ASSUME CrashAssumption == MaxCrashes \in Nat

VARIABLES jobs,     \* what the sweep and the releases are about to do
          board,    \* an escalation handed the issue to a person
          crashes

svars == <<vars, jobs, board, crashes>>

Steps == {"seen", "wake", "retry", "spent", "owed", "escalate"}

\* A job: who does it, its next step, the issue it saw, the run it is about, and
\* whether the issue's row was written since it was read.
JobRecords == [by : {"sweep", "release"}, step : Steps, issue : [assignee : Agents, status : Status,
               exec : Rows \cup {None}], run : Rows \cup {None}, moved : BOOLEAN]

SweepTypeOK ==
  /\ jobs \subseteq JobRecords
  /\ Cardinality({j \in jobs : j.by = "sweep"}) <= 1
  /\ board \in BOOLEAN
  /\ crashes \in 0..MaxCrashes

SInit == Init /\ jobs = {} /\ board = FALSE /\ crashes = 0

\* Every write of the issue's row moves its updatedAt, as do comments and claims.
RowWritten ==
  \/ issue' # issue \/ comment' # comment
  \/ \E r \in Rows : run[r].st # "running" /\ run'[r].st = "running"
Watched(js) == {[j EXCEPT !.moved = @ \/ RowWritten] : j \in js}

------------------------------------------------------------------------------
(* The sweep.                                                                 *)

LatestRun == IF \A r \in Rows : run[r].st = "none" THEN None
             ELSE CHOOSE r \in Rows : run[r].st # "none" /\ \A q \in Rows : q > r => run[q].st = "none"
HasActivePath == ActiveRuns # {} \/ Deferred # {}

Job(by, step, row, r) == [by |-> by, step |-> step, issue |-> row, run |-> r, moved |-> FALSE]

\* Mutated form of Look: a pass starts while another one is under way.
LookOverlapping ==
  /\ issue.status \in {"todo", "in_progress"}
  /\ jobs' = jobs \cup {Job("sweep", "seen", issue, None)}
  /\ UNCHANGED <<vars, board, crashes>>

\* The candidates of a pass are read at its start.  One pass runs at a time.
Look ==
  /\ ~\E j \in jobs : j.by = "sweep"
  /\ issue.status \in {"todo", "in_progress"}
  /\ jobs' = jobs \cup {Job("sweep", "seen", issue, None)}
  /\ UNCHANGED <<vars, board, crashes>>

\* The agent of the issue cannot be invoked, and it is not that a person paused it.
NotInvokable(row, l, fact) ==
  /\ fact \in {"paused", "gone"}
  /\ ~(fact = "paused" /\ l # None /\ run[l].agent = row.assignee /\ run[l].stopped)
\* Something else owns the continuation of the issue.
LeftAlone(l, fact) ==
  \/ fact # "invokable" \/ HasActivePath \/ board
  \/ l # None /\ run[l].stopped

\* An issue that never had a run, and no wake of which is queued, is dispatched.
Dispatch(row) == {s \in {"wake"} : row.status = "todo" /\ ~\E w \in Rows : wake[w].st = "queued"}
\* The newest run l did not succeed: it is retried, or the assignee is woken for the run of
\* another agent.  The recovery of a todo is tried once; work in progress is given up
\* after a failure that is not retryable, or after enough of the same.
Continuation(row, l) ==
  LET again == IF run[l].agent = row.assignee THEN "retry" ELSE "wake"
  IN  CASE row.status = "in_progress" -> {again, "escalate"}
        [] row.status = "todo" -> IF run[l].retry = "todo" THEN {"escalate"} ELSE {again}

Decisions(row, l, fact) ==
  IF l # None /\ run[l].st = "succeeded" THEN {}
  ELSE IF NotInvokable(row, l, fact) THEN {"escalate"}
  ELSE IF LeftAlone(l, fact) THEN {}
  ELSE IF l = None THEN Dispatch(row) ELSE Continuation(row, l)

Decide(j) ==
  /\ j.step = "seen"
  /\ \E fact \in Facts :
       LET steps == Decisions(j.issue, LatestRun, fact)
       IN  \/ steps = {} /\ jobs' = jobs \ {j}
           \/ \E s \in steps :
                jobs' = (jobs \ {j}) \cup {[j EXCEPT !.step = s, !.run = LatestRun]}
  /\ UNCHANGED <<vars, board, crashes>>

\* enqueueInitialAssignedTodoDispatch, and the wake of an assignee for the run that
\* another agent left.
WakeAssignee(j) ==
  /\ j.step = "wake"
  /\ Enqueue("system", j.issue.assignee, {}, None)
  /\ UNCHANGED <<mail, route>>
  /\ jobs' = Watched(jobs \ {j})
  /\ UNCHANGED <<board, crashes>>

\* Mutated form of RetryLatest: it schedules a retry of its own.
RetryLatestAgain(j) ==
  /\ j.step = "retry"
  /\ \/ /\ ~RetriesLeft(j.run) /\ UNCHANGED vars
        /\ jobs' = (jobs \ {j}) \cup {[j EXCEPT !.step = "spent"]}
     \/ /\ RetriesLeft(j.run) /\ RowsLeft /\ Facts \cap {"invokable", "held"} # {}
        /\ RetryOf(j.run)
        /\ UNCHANGED <<comment, proc, settle, mail, route>>
        /\ jobs' = Watched(jobs \ {j})
     \/ /\ RetriesLeft(j.run)
        /\ ~RowsLeft \/ Facts \cap {"paused", "gone"} # {}
        /\ UNCHANGED vars
        /\ jobs' = jobs \ {j}
  /\ UNCHANGED <<board, crashes>>

\* Mutated form of RetryLatest: a spent count is passed over, like any other "no retry".
RetryLatestPassingOver(j) ==
  /\ j.step = "retry"
  /\ \/ /\ ~RetriesLeft(j.run) /\ UNCHANGED vars
        /\ jobs' = jobs \ {j}
     \/ /\ RetriesLeft(j.run) /\ ~HasRetry(j.run) /\ RowsLeft /\ Facts \cap {"invokable", "held"} # {}
        /\ RetryOf(j.run)
        /\ UNCHANGED <<comment, proc, settle, mail, route>>
        /\ jobs' = Watched(jobs \ {j})
     \/ /\ RetriesLeft(j.run)
        /\ HasRetry(j.run) \/ ~RowsLeft \/ Facts \cap {"paused", "gone"} # {}
        /\ UNCHANGED vars
        /\ jobs' = jobs \ {j}
  /\ UNCHANGED <<board, crashes>>

\* enqueueStrandedIssueRecovery for an unsuccessful run of the assignee.
RetryLatest(j) ==
  /\ j.step = "retry"
  /\ \/ /\ ~RetriesLeft(j.run) /\ UNCHANGED vars
        /\ jobs' = (jobs \ {j}) \cup {[j EXCEPT !.step = "spent"]}
     \/ /\ RetriesLeft(j.run) /\ ~HasRetry(j.run) /\ RowsLeft /\ Facts \cap {"invokable", "held"} # {}
        /\ RetryOf(j.run)
        /\ UNCHANGED <<comment, proc, settle, mail, route>>
        /\ jobs' = Watched(jobs \ {j})
     \/ /\ RetriesLeft(j.run)
        /\ HasRetry(j.run) \/ ~RowsLeft \/ Facts \cap {"paused", "gone"} # {}
        /\ UNCHANGED vars
        /\ jobs' = jobs \ {j}
  /\ UNCHANGED <<board, crashes>>

\* The retries are spent: the active path is read once more.
Reread(j) ==
  /\ j.step = "spent"
  /\ jobs' = IF HasActivePath THEN jobs \ {j}
             ELSE (jobs \ {j}) \cup {[j EXCEPT !.step = "escalate"]}
  /\ UNCHANGED <<vars, board, crashes>>

\* escalateStrandedAssignedIssue: the row must be the one that was read.  The update of the
\* status clears the lock.
Escalate(j) ==
  /\ j.step = "escalate"
  /\ \/ /\ ~j.moved /\ issue.status # "done"
        /\ issue' = [issue EXCEPT !.status = "blocked", !.exec = None] /\ board' = TRUE
     \/ (j.moved \/ issue.status = "done") /\ UNCHANGED <<issue, board>>
  /\ UNCHANGED <<comment, run, wake, process, crashes>>
  /\ jobs' = Watched(jobs \ {j})

------------------------------------------------------------------------------
(* The escalation of a release.                                               *)

\* decideReleaseRecovery: the drain promoted nothing, nothing continues the issue, and the
\* automatic recovery has failed already, or has no agent to run it.
OwesEscalation(r, quiet, fact) ==
  /\ issue.status \in {"todo", "in_progress"} /\ Owns(r)
  /\ run[r].st \in {"failed", "cancelled"} /\ ~run[r].stopped /\ ~quiet
  /\ issue.exec \in {None, r} /\ ActiveRuns \ {r} = {}
  /\ Promoted(r, FALSE, fact) = {}
  /\ fact[run[r].agent] # "held"
  /\ run[r].retry = issue.status \/ fact[run[r].agent] # "invokable"

ReleaseOrEscalate(r, how) ==
  \E fact \in [Agents -> Facts] :
    /\ ReleaseWith(r, how, fact)
    /\ LET owed == IF OwesEscalation(r, how = "cleanup", fact)
                     THEN {Job("release", "owed", issue, r)} ELSE {}
       IN  jobs' = Watched(jobs) \cup owed
    /\ UNCHANGED <<board, crashes>>

\* loadStrandedEscalationRows: the row is read when the release has committed.
LoadRow(j) ==
  /\ j.step = "owed"
  /\ jobs' = (jobs \ {j}) \cup {Job("release", "escalate", issue, j.run)}
  /\ UNCHANGED <<vars, board, crashes>>

Sweep == Look \/ \E j \in {j \in jobs : j.by = "sweep"} :
                   Decide(j) \/ WakeAssignee(j) \/ RetryLatest(j) \/ Reread(j) \/ Escalate(j)
SettleEscalation == \E j \in {j \in jobs : j.by = "release"} : LoadRow(j) \/ Escalate(j)

Crash ==
  /\ crashes < MaxCrashes
  /\ Restart
  /\ jobs' = {} /\ crashes' = crashes + 1 /\ UNCHANGED board

Elsewhere == \/ Arrive \/ Operate \/ ReassignCommit \/ ReassignWake \/ Recovery
             \/ \E r \in Rows : Execute(r)

SNext == \/ Elsewhere /\ jobs' = Watched(jobs) /\ UNCHANGED <<board, crashes>>
         \/ \E r \in Rows, how \in Settlement : ReleaseOrEscalate(r, how)
         \/ Sweep \/ SettleEscalation \/ Crash

SSpec == SInit /\ [][SNext]_svars

\* The sweep is periodic, and a release escalates before its handler returns.
SFairSpec ==
  /\ SSpec /\ WF_vars(SweepStaleLock) /\ \A r \in Rows : Controller(r)
  /\ WF_svars(Sweep) /\ WF_svars(SettleEscalation)

------------------------------------------------------------------------------
(* Properties.                                                                *)

\* A failed run is retried once, whoever finds the failure first: the reaper or the sweep, in
\* any order and across restarts.
OneRetry ==
  \A q, r \in Rows : Counted(q) /\ Counted(r) /\ run[q].of = run[r].of => q = r

\* Work that nobody continues: no active run and no deferred wake, and the newest run,
\* if there is one, did not succeed and was not stopped by a person.
Stranded ==
  /\ issue.status \in {"todo", "in_progress"} /\ ~board /\ ~HasActivePath
  /\ LatestRun # None => run[LatestRun].st # "succeeded" /\ ~run[LatestRun].stopped
\* No stranded issue stays assigned for ever: it gets a run, or it is surfaced as blocked,
\* whichever handlers a crash cut short.  (The rows of the instance bound the retries.)
StrandedWorkContinues ==
  Stranded ~> \/ ActiveRuns # {} \/ board \/ issue.status \in {"blocked", "done"}
              \/ ~RowsLeft /\ RetriesLeft(LatestRun)
===============================================================================
