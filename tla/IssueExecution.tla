---------------------------- MODULE IssueExecution ----------------------------
(***************************************************************************)
(* The execution of one issue by the control plane: wakes, runs, and the    *)
(* execution lock issues.execution_run_id                                    *)
(* (server/src/services/heartbeat/queue.ts, modules/wake-queue,              *)
(* modules/run-dispatch, services/heartbeat/run-control.ts, recovery).       *)
(*                                                                          *)
(* A wake (for a comment, or a system event) becomes a queued run, is merged *)
(* into a run, or is deferred behind the run that holds the issue.           *)
(* A queued run is claimed and executed by the controller process; when it   *)
(* ends, its release drains the deferred wakes and promotes at most one.     *)
(*                                                                          *)
(* One action is one transaction: every transaction locks the issue row      *)
(* first.  What happens between the transactions of one handler is state of  *)
(* the controller process: proc, settle and route, which a crash erases.     *)
(* The issue is an ordinary task executed by legacy (not native) runs of one *)
(* controller process, whose adapters keep no conversation of their own;     *)
(* comments are a person's.  No run ends in a way that needs reconciliation, *)
(* so that no execution hold exists: a running run is stopped while its      *)
(* executor is there to acknowledge it, and a run that fails, or that a      *)
(* crash interrupts, had not started the provider's work.                    *)
(***************************************************************************)
EXTENDS Naturals, FiniteSets

CONSTANTS Agents,
          Comments,
          MaxRows,  \* bound on the rows of heartbeat_runs, and of wakeup requests
          Inputs,   \* what the environment of this instance does
          Facts     \* what a release may find out about an agent

AllInputs == {"system", "stop", "reassign", "discard", "suppress", "crash",
              "todo", "in_progress", "blocked", "done"}
AllFacts  == {"invokable", "paused", "gone", "held"}

ASSUME BoundAssumption == MaxRows \in Nat \ {0}
ASSUME InputAssumption == Inputs \subseteq AllInputs /\ Facts \subseteq AllFacts

VARIABLES issue,    \* the issues row
          comment,  \* comment[c]: not written, live, or deleted
          run,      \* the heartbeat_runs rows, numbered in order of creation
          wake,     \* the agent_wakeup_requests rows, in order of requestedAt
          proc,     \* proc[r]: how far the controller process is with run r
          settle,   \* releases that a handler still has to perform
          mail,     \* wakes of comments that a request still has to enqueue
          route     \* the PATCH of the issue that changes its assignee

process == <<proc, settle, mail, route>>
vars == <<issue, comment, run, wake, process>>

Rows == 1..MaxRows
None == 0

RunStatus  == {"none", "queued", "scheduled", "running", "succeeded", "failed", "cancelled"}
WakeStatus == {"none", "queued", "claimed", "deferred", "coalesced", "completed",
               "skipped", "failed", "cancelled"}
Kinds      == {"comment", "system"}
Status     == {"todo", "in_progress", "blocked", "done"}
Phases     == {"idle", "gated", "claimed", "starting", "live"}
Settlement == {"ended", "cleanup", "lost"}

TypeOK ==
  /\ issue \in [assignee : Agents, status : Status, exec : Rows \cup {None}]
  /\ comment \in [Comments -> {"none", "live", "deleted"}]
  /\ run \in [Rows -> [st : RunStatus, agent : Agents, wake : Rows, kind : Kinds,
                       ctx : SUBSET Comments, retry : Status \cup {"no"},
                       of : Rows \cup {None},
                       started : BOOLEAN, stopped : BOOLEAN]]
  /\ wake \in [Rows -> [st : WakeStatus, agent : Agents, kind : Kinds,
                        msg : SUBSET Comments, env : SUBSET Comments,
                        run : Rows \cup {None}]]
  /\ proc \in [Rows -> Phases]
  /\ settle \subseteq Rows \X Settlement
  /\ mail \subseteq Comments \X Agents
  /\ route \in [phase : {"idle", "stopped", "assigned"}, to : Agents,
                run : Rows \cup {None}]

Init ==
  \E a \in Agents :
    /\ issue = [assignee |-> a, status |-> "todo", exec |-> None]
    /\ comment = [c \in Comments |-> "none"]
    /\ run = [r \in Rows |-> [st |-> "none", agent |-> a, wake |-> r, kind |-> "system",
                              ctx |-> {}, retry |-> "no", of |-> None,
                              started |-> FALSE, stopped |-> FALSE]]
    /\ wake = [w \in Rows |-> [st |-> "none", agent |-> a, kind |-> "system",
                               msg |-> {}, env |-> {}, run |-> None]]
    /\ proc = [r \in Rows |-> "idle"]
    /\ settle = {}
    /\ mail = {}
    /\ route = [phase |-> "idle", to |-> a, run |-> None]

------------------------------------------------------------------------------
(* Rows and sets of rows.                                                     *)

Waiting(r) == run[r].st \in {"queued", "scheduled"}
Active(r)  == Waiting(r) \/ run[r].st = "running"
Ended(r)   == run[r].st \in {"succeeded", "failed", "cancelled"}
ActiveRuns == {r \in Rows : Active(r)}

Deferred       == {w \in Rows : wake[w].st = "deferred"}
DeferredFor(a) == {w \in Deferred : wake[w].agent = a}
LiveIds(cs)    == {c \in cs : comment[c] = "live"}

Oldest(S) == CHOOSE x \in S : \A y \in S : x <= y

FreshRun(r)  == run[r].st = "none" /\ \A q \in Rows : q < r => run[q].st # "none"
FreshWake(w) == wake[w].st = "none" /\ \A v \in Rows : v < w => wake[v].st # "none"

QueuedRun(a, w, kind, ctx, retry) ==
  [st |-> "queued", agent |-> a, wake |-> w, kind |-> kind, ctx |-> ctx,
   retry |-> retry, of |-> None, started |-> FALSE, stopped |-> FALSE]
\* msg: the comments whose requests the row records; env: its envelope, the
\* queuedCommentIds that the queue shows and that a run will be given.
WakeRow(st, a, kind, msg, env, r) ==
  [st |-> st, agent |-> a, kind |-> kind, msg |-> msg, env |-> env, run |-> r]

\* The lock after the UPDATE that clears it where execution_run_id = r.
Unlocked(r) == IF issue.exec = r THEN [issue EXCEPT !.exec = None] ELSE issue

\* setWakeupStatus does not overwrite a cancelled wake.
WakeSet(w, st) ==
  IF wake[w].st = "cancelled" THEN wake ELSE [wake EXCEPT ![w].st = st]

------------------------------------------------------------------------------
(* Wakes arrive.                                                              *)

\* The active run that a search finds first: a running one, else the oldest.
First(S) == LET running == {r \in S : run[r].st = "running"}
            IN  IF running = {} THEN Oldest(S) ELSE Oldest(running)

\* A waiting holder of the lock that belongs to a former assignee is cancelled
\* by the next wake, with its own wake; so is a scheduled retry that the search for
\* another run finds.
Former(r) == run[r].agent # issue.assignee
StaleHolders ==
  LET held   == {r \in {issue.exec} \ {None} : Waiting(r) /\ Former(r)}
      others == ActiveRuns \ held
      found  == IF issue.exec \in others \/ others = {} THEN {} ELSE {First(others)}
  IN  held \cup {r \in found : run[r].st = "scheduled" /\ Former(r)}
RunsBehind ==
  [r \in Rows |-> IF r \in StaleHolders THEN [run[r] EXCEPT !.st = "cancelled"] ELSE run[r]]
WakesBehind ==
  [w \in Rows |-> IF \E r \in StaleHolders : run[r].wake = w
                    THEN [wake[w] EXCEPT !.st = "cancelled"] ELSE wake[w]]

\* The run a wake finds: the lock's holder, else an active run of the issue.  The
\* search is not repeated when what it found was a stale retry.
Holder ==
  LET others == ActiveRuns \ {r \in StaleHolders : r = issue.exec}
  IN  IF issue.exec \in others THEN issue.exec
      ELSE IF others = {} \/ First(others) \in StaleHolders THEN None ELSE First(others)

\* A running run without an execution in this process takes no more input.
Zombie(a) ==
  Holder # None /\ run[Holder].agent = a /\ run[Holder].st = "running" /\ proc[Holder] # "live"
\* decideWakeAdmission: a comment never joins a turn that already runs.
Joins(a, cs) ==
  /\ Holder # None /\ run[Holder].agent = a /\ ~Zombie(a)
  /\ run[Holder].st = "running" => cs = {}

\* coalesceIntoActiveExecutionRun: the run's context takes the comment and the
\* kind of the new wake; the envelope of the run's own wake is not changed.
JoinRun(kind, a, cs) ==
  \E w \in Rows :
    /\ FreshWake(w)
    /\ run' = [RunsBehind EXCEPT ![Holder].ctx = @ \cup cs, ![Holder].kind = kind]
    /\ wake' = [WakesBehind EXCEPT ![w] = WakeRow("coalesced", a, kind, cs, {}, Holder)]

\* Mutated form of DeferWake: the row takes the newest message's ids only.
DeferWakeNewestOnly(kind, a, cs) ==
  /\ run' = RunsBehind
  /\ \/ /\ DeferredFor(a) # {}
        /\ wake' = [WakesBehind EXCEPT ![Oldest(DeferredFor(a))].env = cs,
                                       ![Oldest(DeferredFor(a))].msg = @ \cup cs]
     \/ /\ DeferredFor(a) = {}
        /\ \E w \in Rows :
             /\ FreshWake(w)
             /\ wake' = [WakesBehind EXCEPT ![w] = WakeRow("deferred", a, kind, cs, cs, None)]

\* mergeIntoExistingDeferredWake, or insertNewDeferredWake.
DeferWake(kind, a, cs) ==
  /\ run' = RunsBehind
  /\ \/ /\ DeferredFor(a) # {}
        /\ wake' = [WakesBehind EXCEPT ![Oldest(DeferredFor(a))].env = @ \cup cs,
                                       ![Oldest(DeferredFor(a))].msg = @ \cup cs,
                                       ![Oldest(DeferredFor(a))].kind = kind]
     \/ /\ DeferredFor(a) = {}
        /\ \E w \in Rows :
             /\ FreshWake(w)
             /\ wake' = [WakesBehind EXCEPT ![w] = WakeRow("deferred", a, kind, cs, cs, None)]

\* The deferred comment wakes that a new run takes over: the agent's own, and
\* after a reassignment those of the agent whose run the reassignment stopped.
Adopted(a, from) ==
  LET former == {run[f].agent : f \in {f \in {from} \ {None} :
                                         run[f].st = "cancelled" /\ issue.assignee = a}}
  IN  {w \in Deferred : /\ wake[w].agent \in {a} \cup former
                        /\ wake[w].kind = "comment" /\ wake[w].env # {}}

\* Mutated form of StartRun: the wakes it takes over stay deferred.
StartRunKeepingAdopted(kind, a, cs, from) ==
  \E w \in Rows, r \in Rows :
    /\ FreshWake(w) /\ FreshRun(r)
    /\ LET ids == cs \cup UNION {wake[v].env : v \in Adopted(a, from)}
       IN  /\ run' = [RunsBehind EXCEPT ![r] = QueuedRun(a, w, kind, ids, "no")]
           /\ wake' = [WakesBehind EXCEPT ![w] = WakeRow("queued", a, kind, cs, ids, r)]

\* No run holds the issue: a wake and its run are queued.  The lock is not
\* stamped before the run is claimed.
StartRun(kind, a, cs, from) ==
  \E w \in Rows, r \in Rows :
    /\ FreshWake(w) /\ FreshRun(r)
    /\ LET adopted == Adopted(a, from)
           saved   == UNION {wake[v].env : v \in adopted}
           ids     == cs \cup (IF from = None THEN saved ELSE LiveIds(saved))
       IN  /\ run' = [RunsBehind EXCEPT ![r] = QueuedRun(a, w, kind, ids, "no")]
           /\ wake' = [v \in Rows |->
                CASE v = w -> WakeRow("queued", a, kind, cs,
                                        IF adopted = {} THEN {} ELSE ids, r)
                  [] v \in adopted -> [wake[v] EXCEPT !.st = "coalesced", !.run = r]
                  [] OTHER -> WakesBehind[v]]

\* enqueueWakeup, in the transaction that holds the issue's lock.
Enqueue(kind, a, cs, from) ==
  /\ issue' = [issue EXCEPT !.exec = Holder]
  /\ \/ Joins(a, cs) /\ JoinRun(kind, a, cs)
     \/ Holder # None /\ ~Joins(a, cs) /\ ~Zombie(a) /\ DeferWake(kind, a, cs)
     \/ (Holder = None \/ Zombie(a)) /\ StartRun(kind, a, cs, from)
  /\ UNCHANGED <<comment, proc, settle>>

\* POST of a comment.  A finished or blocked issue is reopened, which clears its
\* lock.  The route goes on to wake the assignee it read in a call of its own.
\* (A comment that supersedes the scheduled retry of an issue in progress is not
\* modelled: none is posted then.)
PostComment(c) ==
  /\ comment[c] = "none"
  /\ ~(issue.status = "in_progress" /\ \E r \in Rows : run[r].st = "scheduled")
  /\ comment' = [comment EXCEPT ![c] = "live"]
  /\ issue' = IF issue.status \in {"done", "blocked"}
                THEN [issue EXCEPT !.status = "todo", !.exec = None] ELSE issue
  /\ mail' = mail \cup {<<c, issue.assignee>>}
  /\ UNCHANGED <<run, wake, proc, settle, route>>

CommentWake(c, a) ==
  /\ <<c, a>> \in mail
  /\ Enqueue("comment", a, {c}, None)
  /\ mail' = mail \ {<<c, a>>}
  /\ UNCHANGED route

\* Any wake of the assignee that carries no comment.
SystemWake ==
  /\ "system" \in Inputs
  /\ Enqueue("system", issue.assignee, {}, None)
  /\ UNCHANGED <<mail, route>>

------------------------------------------------------------------------------
(* Dispatch: the gate, the claim, and the statements after the claim.         *)

\* decideQueuedRunStaleness: the run's agent lost the issue (a comment
\* still reaches the agent it was queued for), or the issue is done and nobody wrote.
Stale(r) ==
  \/ Former(r) /\ ~(run[r].kind = "comment" /\ run[r].ctx # {})
  \/ issue.status = "done" /\ run[r].ctx = {}

CancelRows(r, wakeStatus) ==
  /\ run' = [run EXCEPT ![r].st = "cancelled"]
  /\ wake' = [wake EXCEPT ![run[r].wake].st = wakeStatus]
  /\ issue' = Unlocked(r)

\* cancelStaleQueuedRun, the transaction before the claim.
Gate(r) ==
  /\ proc[r] = "idle" /\ run[r].st = "queued"
  /\ \/ Stale(r) /\ CancelRows(r, "skipped") /\ UNCHANGED proc
     \/ ~Stale(r) /\ proc' = [proc EXCEPT ![r] = "gated"] /\ UNCHANGED <<run, wake, issue>>
  /\ UNCHANGED <<comment, settle, mail, route>>

Owns(r) == ~Former(r)

\* Mutated form of Blocked: only an execution in this process holds the issue.
BlockedByLocalExecution(r) ==
  Owns(r) /\ issue.exec \notin {None, r} /\ proc[issue.exec] = "live"

\* lockIssueExecutionClaim: the previous holder is not finished, or not cleaned up.
Blocked(r) ==
  /\ Owns(r) /\ issue.exec \notin {None, r}
  /\ Active(issue.exec) \/ proc[issue.exec] = "live"

\* The rows that a claim finds under the lock.  A run with comments needs its
\* own wake, still queued.
Claimable(r) ==
  LET w == run[r].wake
  IN  /\ run[r].st = "queued" /\ ~Blocked(r)
      /\ run[r].ctx # {} => wake[w].st = "queued" /\ wake[w].run = r

\* Every message of the envelope was discarded.
Emptied(r) == LET env == wake[run[r].wake].env
              IN  run[r].ctx # {} /\ env # {} /\ LiveIds(env) = {}

\* The claim commits.  An envelope that is not empty is authoritative: it
\* replaces the comments of the run's context.
TakeRun(r) ==
  LET w == run[r].wake
      enveloped == run[r].ctx # {} /\ wake[w].env # {}
      ids == LiveIds(wake[w].env)
  IN  /\ run' = [run EXCEPT ![r].st = "running", ![r].started = TRUE,
                             ![r].ctx = IF enveloped THEN ids ELSE @]
      /\ wake' = IF enveloped
                   THEN [wake EXCEPT ![w].st = "claimed", ![w].env = ids] ELSE wake
      /\ issue' = IF Owns(r) THEN [issue EXCEPT !.exec = r] ELSE issue

\* claimQueuedRun.
Claim(r) ==
  /\ proc[r] = "gated"
  /\ \/ /\ ~Claimable(r)
        /\ proc' = [proc EXCEPT ![r] = "idle"] /\ UNCHANGED <<run, wake, issue>>
     \/ /\ Claimable(r) /\ Emptied(r) /\ CancelRows(r, "cancelled")
        /\ proc' = [proc EXCEPT ![r] = "idle"]
     \/ /\ Claimable(r) /\ ~Emptied(r) /\ TakeRun(r)
        /\ proc' = [proc EXCEPT ![r] = "claimed"]
  /\ UNCHANGED <<comment, settle, mail, route>>

\* After the claim committed: the wake is marked claimed and the lock is stamped
\* once more, whatever has happened to the run since.
StampClaim(r) ==
  /\ proc[r] = "claimed"
  /\ wake' = WakeSet(run[r].wake, "claimed")
  /\ issue' = IF Owns(r) /\ issue.exec = None THEN [issue EXCEPT !.exec = r] ELSE issue
  /\ proc' = [proc EXCEPT ![r] = "starting"]
  /\ UNCHANGED <<comment, run, settle, mail, route>>

\* Mutated form of ReleaseClaim: the wake stays claimed.
ReleaseClaimOfRunOnly(r) ==
  /\ "suppress" \in Inputs
  /\ proc[r] = "starting" /\ run[r].st = "running"
  /\ run' = [run EXCEPT ![r].st = "queued", ![r].started = FALSE]
  /\ issue' = Unlocked(r)
  /\ proc' = [proc EXCEPT ![r] = "idle"]
  /\ UNCHANGED <<comment, wake, settle, mail, route>>

\* releaseRunClaimedJustBeforeSuppression: scheduling was suppressed since.
ReleaseClaim(r) ==
  /\ "suppress" \in Inputs
  /\ proc[r] = "starting" /\ run[r].st = "running"
  /\ run' = [run EXCEPT ![r].st = "queued", ![r].started = FALSE]
  /\ wake' = WakeSet(run[r].wake, "queued")
  /\ issue' = Unlocked(r)
  /\ proc' = [proc EXCEPT ![r] = "idle"]
  /\ UNCHANGED <<comment, settle, mail, route>>

\* executeRun: activeRunExecutions gets the run, unless it ended meanwhile.
Begin(r) ==
  /\ proc[r] = "starting"
  /\ proc' = [proc EXCEPT ![r] = IF run[r].st = "running" THEN "live" ELSE "idle"]
  /\ UNCHANGED <<issue, comment, run, wake, settle, mail, route>>

\* The preparation of the run checks the issue out for it.  A lock left on an ended
\* run does not stand in the way.
Checkout(r) ==
  /\ proc[r] = "live" /\ run[r].st = "running"
  /\ Owns(r) /\ issue.status # "done"
  /\ issue.exec \notin {None, r} => Ended(issue.exec)
  /\ issue' = [issue EXCEPT !.status = "in_progress", !.exec = r]
  /\ UNCHANGED <<comment, run, wake, process>>

\* Mutated form of Finish: the wake takes the status of the run.
FinishWithRunStatus(r, outcome) ==
  /\ proc[r] = "live" /\ run[r].st = "running"
  /\ run' = [run EXCEPT ![r].st = outcome]
  /\ wake' = WakeSet(run[r].wake, outcome)
  /\ settle' = settle \cup {<<r, "ended">>}
  /\ UNCHANGED <<issue, comment, proc, mail, route>>

\* Mutated form of Finish: the result is written whatever became of the run.
FinishLate(r, outcome) ==
  /\ proc[r] = "live"
  /\ run' = [run EXCEPT ![r].st = outcome]
  /\ wake' = WakeSet(run[r].wake, IF outcome = "succeeded" THEN "completed" ELSE "failed")
  /\ settle' = settle \cup {<<r, "ended">>}
  /\ UNCHANGED <<issue, comment, proc, mail, route>>

\* The adapter's result makes the run terminal; its release follows.
Finish(r, outcome) ==
  /\ proc[r] = "live" /\ run[r].st = "running"
  /\ run' = [run EXCEPT ![r].st = outcome]
  /\ wake' = WakeSet(run[r].wake, IF outcome = "succeeded" THEN "completed" ELSE "failed")
  /\ settle' = settle \cup {<<r, "ended">>}
  /\ UNCHANGED <<issue, comment, proc, mail, route>>

\* The executor's finally block.  The agent's own deferred wakes get another
\* release, which queues no recovery.
Cleanup(r) ==
  /\ proc[r] = "live" /\ Ended(r)
  /\ run[r].st # "cancelled" => <<r, "ended">> \notin settle
  /\ proc' = [proc EXCEPT ![r] = "idle"]
  /\ settle' = IF DeferredFor(run[r].agent) # {} THEN settle \cup {<<r, "cleanup">>} ELSE settle
  /\ UNCHANGED <<issue, comment, run, wake, mail, route>>

------------------------------------------------------------------------------
(* Release of an ended run, and the drain of the deferred wakes.              *)

\* Mutated form of Disposition: the owner of a message is not asked for.
DispositionOfAnyOwner(w, r, resume, fact) ==
  IF fact[wake[w].agent] = "gone" THEN "fail"
  ELSE IF fact[wake[w].agent] = "paused" THEN "hold" ELSE "promote"

\* Mutated form of Disposition: the owner is taken to be the agent of the ended run.
DispositionOfRunsAgent(w, r, resume, fact) ==
  IF wake[w].env # {} /\ wake[w].agent # run[r].agent THEN "cancel"
  ELSE IF fact[wake[w].agent] = "gone" THEN "fail"
  ELSE IF fact[wake[w].agent] = "paused" THEN "hold" ELSE "promote"

\* Mutated form of Disposition: the comparison with the assignee is inverted.
DispositionOwnerInverted(w, r, resume, fact) ==
  IF wake[w].agent = issue.assignee /\ wake[w].env # {} THEN "skip" ELSE "promote"

\* What the drain does with one deferred wake: an ordinary comment for a former
\* assignee waits for the new one; messages that were all deleted are dropped.
Disposition(w, r, resume, fact) ==
  LET ordinary == wake[w].kind = "comment" /\ wake[w].env # {}
      elsewhere == ordinary /\ wake[w].agent # issue.assignee
      emptied == ordinary /\ LiveIds(wake[w].env) = {}
      f == fact[wake[w].agent]
  IN  CASE elsewhere /\ (resume \/ run[r].agent # issue.assignee) -> "skip"
        [] elsewhere /\ ~(resume \/ run[r].agent # issue.assignee) -> "cancel"
        [] ~elsewhere /\ emptied -> "cancel"
        [] ~elsewhere /\ ~emptied /\ f = "gone" -> "fail"
        [] ~elsewhere /\ ~emptied /\ f = "held" /\ wake[w].kind = "system" -> "cancel"
        [] ~elsewhere /\ ~emptied /\ f = "paused" -> "hold"
        [] OTHER -> IF issue.status = "done" /\ wake[w].agent = issue.assignee
                       /\ LiveIds(wake[w].env) = {} THEN "cancel" ELSE "promote"

\* The deferred wakes read before the first one that is promoted.
Drained(r, resume, fact) ==
  {w \in Deferred : \A v \in Deferred : v <= w => Disposition(v, r, resume, fact) # "promote"}
Promoted(r, resume, fact) ==
  {w \in Deferred : /\ Disposition(w, r, resume, fact) = "promote"
                    /\ \A v \in Deferred : v < w => v \in Drained(r, resume, fact)}

WakesDrained(r, resume, fact) ==
  [w \in Rows |->
     IF w \notin Drained(r, resume, fact) THEN wake[w]
     ELSE CASE Disposition(w, r, resume, fact) = "cancel" -> [wake[w] EXCEPT !.st = "cancelled"]
            [] Disposition(w, r, resume, fact) = "fail" -> [wake[w] EXCEPT !.st = "failed"]
            [] Disposition(w, r, resume, fact) = "hold" -> [wake[w] EXCEPT !.env = LiveIds(@)]
            [] OTHER -> wake[w]]

\* Mutated form of Promote: the wake is not linked to its run.
PromoteUnlinked(r, resume, fact) ==
  \E w \in Promoted(r, resume, fact), n \in Rows :
    /\ FreshRun(n)
    /\ run' = [run EXCEPT ![n] = QueuedRun(wake[w].agent, w, wake[w].kind,
                                           LiveIds(wake[w].env), "no")]
    /\ wake' = [WakesDrained(r, resume, fact) EXCEPT ![w].st = "queued"]
    /\ issue' = [issue EXCEPT !.exec = IF wake[w].agent = issue.assignee THEN n ELSE None]

\* finalizePromotedWake: the wake gets a queued run with its live messages; a
\* finished issue is reopened; the lock goes to the assignee's run at once.
Promote(r, resume, fact) ==
  \E w \in Promoted(r, resume, fact), n \in Rows :
    LET ids == LiveIds(wake[w].env)
    IN  /\ FreshRun(n)
        /\ run' = [run EXCEPT ![n] = QueuedRun(wake[w].agent, w, wake[w].kind, ids, "no")]
        /\ wake' = [WakesDrained(r, resume, fact) EXCEPT ![w].st = "queued", ![w].env = ids,
                                                         ![w].run = n]
        /\ issue' = [issue EXCEPT
              !.exec = IF wake[w].agent = issue.assignee THEN n ELSE None,
              !.status = IF issue.status = "done" /\ ids # {} THEN "todo" ELSE @]

\* decideReleaseRecovery: the assignee's run failed and nothing else will
\* continue the issue.  A recovery run is not retried for the same reason.
NeedsRecovery(r, quiet, fact) ==
  /\ issue.status \in {"todo", "in_progress"} /\ Owns(r)
  /\ run[r].st \in {"failed", "cancelled"} /\ ~run[r].stopped /\ ~quiet
  /\ ActiveRuns \ {r} = {}
  /\ run[r].retry # issue.status
  /\ fact[run[r].agent] = "invokable"

\* queueImmediateRecoveryRun, while the bound leaves a row.
Recover(r, resume, fact) ==
  \E w \in Rows, n \in Rows :
    /\ FreshWake(w) /\ FreshRun(n)
    /\ run' = [run EXCEPT ![n] = [QueuedRun(run[r].agent, w, "system", {}, issue.status)
                                    EXCEPT !.of = r]]
    /\ wake' = [WakesDrained(r, resume, fact) EXCEPT
                  ![w] = WakeRow("queued", run[r].agent, "system", {}, {}, n)]
    /\ issue' = [issue EXCEPT !.exec = n]
RowsLeft == (\E w \in Rows : FreshWake(w)) /\ (\E r \in Rows : FreshRun(r))

\* Another run owns the next turn.
HasSuccessor(r, resume) ==
  IF resume THEN \E q \in Rows : Active(q) \/ (q > r /\ run[q].st # "none")
            ELSE \E q \in Rows \ {r} : Active(q) /\ run[q].agent = run[r].agent

\* withIssueExecutionLock and runReleaseDrain.  An acknowledged stop clears the
\* lock and leaves the deferred wakes to the next explicit wake.
ReleaseIssue(r, quiet, resume, fact) ==
  LET mayDrain == /\ issue.exec \in {None, r} /\ ~run[r].stopped
                  /\ ~HasSuccessor(r, resume)
      promoted == Promoted(r, resume, fact)
      recover  == NeedsRecovery(r, quiet, fact) /\ RowsLeft
  IN  /\ \/ ~mayDrain /\ issue' = Unlocked(r) /\ UNCHANGED <<run, wake>>
         \/ mayDrain /\ promoted # {} /\ Promote(r, resume, fact)
         \/ mayDrain /\ promoted = {} /\ recover /\ Recover(r, resume, fact)
         \/ /\ mayDrain /\ promoted = {} /\ ~recover
            /\ issue' = Unlocked(r) /\ wake' = WakesDrained(r, resume, fact)
            /\ UNCHANGED run
      /\ UNCHANGED <<comment, proc, mail, route>>

\* releaseIssueExecutionAndPromote, as the last step of the handler that ended r.
ReleaseWith(r, how, fact) ==
  /\ how # "lost" /\ <<r, how>> \in settle
  /\ ReleaseIssue(r, how = "cleanup", FALSE, fact)
  /\ settle' = settle \ {<<r, how>>}
Release(r, how) == \E fact \in [Agents -> Facts] : ReleaseWith(r, how, fact)

------------------------------------------------------------------------------
(* Operators: stop, reassign, change the status, edit the queue.              *)

\* cancelRun on an active run.  The executor of a running run acknowledges its
\* stop; that of an operator on a run which never started needs no proof.
Cancel(r) ==
  /\ Active(r) /\ (run[r].st = "running" => proc[r] = "live")
  /\ run' = [run EXCEPT ![r].st = "cancelled", ![r].stopped = TRUE]
  /\ wake' = WakeSet(run[r].wake, "cancelled")
  /\ settle' = settle \cup {<<r, "ended">>}

Stop(r) ==
  /\ "stop" \in Inputs
  /\ Cancel(r)
  /\ UNCHANGED <<issue, comment, proc, mail, route>>

\* resolveActiveIssueRun: the lock's holder if it runs, else the assignee's run.
RunningRuns == {r \in Rows : run[r].st = "running"}
ToInterrupt ==
  IF issue.exec \in RunningRuns THEN {issue.exec}
  ELSE {r \in RunningRuns : run[r].agent = issue.assignee}

\* The PATCH of an issue with a new assignee: the running run is stopped, then
\* the row is updated, then the new assignee is woken.
ReassignStop(a) ==
  /\ "reassign" \in Inputs
  /\ route.phase = "idle" /\ a # issue.assignee
  /\ \/ /\ ToInterrupt = {}
        /\ route' = [phase |-> "stopped", to |-> a, run |-> None]
        /\ UNCHANGED <<run, wake, settle>>
     \/ \E r \in ToInterrupt :
          /\ Cancel(r)
          /\ route' = [phase |-> "stopped", to |-> a, run |-> r]
  /\ UNCHANGED <<issue, comment, proc, mail>>

\* issues.update: a new assignee clears the lock, whatever holds it.
ReassignCommit ==
  /\ route.phase = "stopped"
  /\ <<route.run, "ended">> \notin settle
  /\ issue' = [issue EXCEPT !.assignee = route.to, !.exec = None]
  /\ route' = [route EXCEPT !.phase = "assigned"]
  /\ UNCHANGED <<comment, run, wake, proc, settle, mail>>

ReassignWake ==
  /\ route.phase = "assigned"
  /\ Enqueue("system", route.to, {}, route.run)
  /\ UNCHANGED mail
  /\ route' = [route EXCEPT !.phase = "idle", !.run = None]

\* issues.update: a status other than in_progress clears the lock as well.
SetStatus(s) ==
  /\ s \in Inputs /\ s # issue.status
  /\ issue' = [issue EXCEPT !.status = s, !.exec = IF s = "in_progress" THEN @ ELSE None]
  /\ UNCHANGED <<comment, run, wake, process>>

\* The wake whose messages the assignee's queue shows: deferred, or queued with
\* a run that is still queued.
Pending(w) ==
  \/ wake[w].st = "deferred"
  \/ wake[w].st = "queued" /\ wake[w].run # None /\ run[wake[w].run].st = "queued"
QueueOf(c) == {w \in Rows : Pending(w) /\ c \in wake[w].env /\ wake[w].agent = issue.assignee}

\* Mutated form of DiscardFrom: any discarded message takes the wake with it.
DiscardWholeQueue(w, c) ==
  LET r == wake[w].run
  IN  /\ wake' = [wake EXCEPT ![w].env = @ \ {c}, ![w].st = "cancelled"]
      /\ run' = IF r = None THEN run ELSE [run EXCEPT ![r].st = "cancelled"]
      /\ issue' = IF r # None THEN Unlocked(r) ELSE issue

\* Mutated form of DiscardFrom: only the queued run forgets the message.
DiscardFromRunOnly(w, c) ==
  LET ids == wake[w].env \ {c}
      r   == wake[w].run
  IN  /\ wake' = [wake EXCEPT ![w].env = IF r = None THEN ids ELSE @,
                              ![w].st = IF ids = {} THEN "cancelled" ELSE @]
      /\ run' = IF r = None THEN run
                ELSE [run EXCEPT ![r].ctx = IF ids = {} THEN @ ELSE ids,
                                 ![r].st = IF ids = {} THEN "cancelled" ELSE @]
      /\ issue' = IF r # None /\ ids = {} THEN Unlocked(r) ELSE issue

\* discardQueuedComment: the last message of a queue takes the wake, its queued
\* run and the run's lock with it.
DiscardFrom(w, c) ==
  LET ids == wake[w].env \ {c}
      r   == wake[w].run
  IN  /\ wake' = [wake EXCEPT ![w].env = ids, ![w].st = IF ids = {} THEN "cancelled" ELSE @]
      /\ run' = IF r = None THEN run
                ELSE [run EXCEPT ![r].ctx = IF ids = {} THEN @ ELSE ids,
                                 ![r].st = IF ids = {} THEN "cancelled" ELSE @]
      /\ issue' = IF r # None /\ ids = {} THEN Unlocked(r) ELSE issue

\* DELETE of a comment: out of the assignee's queue, else only the comment.
DeleteComment(c) ==
  /\ "discard" \in Inputs
  /\ comment[c] = "live"
  /\ comment' = [comment EXCEPT ![c] = "deleted"]
  /\ \/ QueueOf(c) = {} /\ UNCHANGED <<issue, run, wake>>
     \/ \E w \in QueueOf(c) : DiscardFrom(w, c)
  /\ UNCHANGED process

------------------------------------------------------------------------------
(* Crash, restart and the periodic recovery.                                  *)

\* The controller process restarts: handlers and executions are forgotten.
Restart ==
  /\ "crash" \in Inputs
  /\ proc' = [r \in Rows |-> "idle"]
  /\ settle' = {}
  /\ mail' = {}
  /\ route' = [route EXCEPT !.phase = "idle", !.run = None]
  /\ UNCHANGED <<issue, comment, run, wake>>

\* A chain of failures is retried twice.  A recovery run, which a release queued
\* with a context of its own, starts a new count.
Counted(r)     == run[r].of # None /\ run[r].retry = "no"
RetriesLeft(r) == ~(Counted(r) /\ Counted(run[r].of))

\* reapOrphanedRuns: a running run that no execution of this process tracks.
Reap(r) ==
  /\ run[r].st = "running" /\ proc[r] = "idle"
  /\ run' = [run EXCEPT ![r].st = "failed"]
  /\ wake' = WakeSet(run[r].wake, "failed")
  /\ settle' = settle \cup {<<r, "lost">>}
  /\ UNCHANGED <<issue, comment, proc, mail, route>>

\* scheduleBoundedRetryForRun: the failed run's context is scheduled once more, and
\* the retry takes over its lock.  A run that has a successor gets no other.
HasRetry(r) == \E q \in Rows : run[q].of = r
RetryOf(r) ==
  \E w \in Rows, n \in Rows :
    /\ FreshWake(w) /\ FreshRun(n)
    /\ run' = [run EXCEPT ![n] = [QueuedRun(run[r].agent, w, "system", run[r].ctx, "no")
                                    EXCEPT !.st = "scheduled", !.of = r]]
    /\ wake' = [wake EXCEPT ![w] = WakeRow("queued", run[r].agent, "system", {}, {}, n)]
    /\ issue' = IF issue.exec = r THEN [issue EXCEPT !.exec = n] ELSE issue

\* enqueueProcessLossRetry.  Without a retry, because the agent cannot be invoked or
\* the count is spent, the reaped run is released.
ScheduleRetry(r) ==
  /\ <<r, "lost">> \in settle
  /\ \/ /\ Facts \cap {"invokable", "held"} # {} /\ RetriesLeft(r)
        /\ settle' = settle \ {<<r, "lost">>}
        /\ IF HasRetry(r) THEN UNCHANGED <<issue, run, wake>> ELSE RetryOf(r)
     \/ /\ Facts \cap {"paused", "gone"} # {} \/ ~RetriesLeft(r)
        /\ settle' = (settle \ {<<r, "lost">>}) \cup {<<r, "ended">>}
        /\ UNCHANGED <<issue, run, wake>>
  /\ UNCHANGED <<comment, proc, mail, route>>

\* promoteOrCancelDueRetry: the retry is due.
PromoteRetry(r) ==
  /\ run[r].st = "scheduled"
  /\ \E fact \in Facts :
       LET allowed == fact = "invokable" /\ Owns(r) /\ issue.status # "done"
       IN  \/ allowed /\ run' = [run EXCEPT ![r].st = "queued"] /\ UNCHANGED <<issue, wake>>
           \/ ~allowed /\ CancelRows(r, "cancelled")
  /\ UNCHANGED <<comment, process>>

\* resumeQueuedRuns: deferred messages of an unlocked issue without an active
\* run go through the release of the issue's newest run once more.
ResumeStranded(r) ==
  /\ issue.exec = None /\ ActiveRuns = {}
  /\ \E w \in DeferredFor(issue.assignee) : wake[w].env # {}
  /\ Ended(r) /\ \A q \in Rows : q > r => run[q].st = "none"
  /\ proc[r] # "live"
  /\ \E fact \in [Agents -> Facts] : ReleaseIssue(r, TRUE, TRUE, fact)
  /\ UNCHANGED settle

\* sweepStaleIssueLocks: a lock on an ended run is cleared.
SweepStaleLock ==
  /\ issue.exec # None /\ Ended(issue.exec)
  /\ issue' = [issue EXCEPT !.exec = None]
  /\ UNCHANGED <<comment, run, wake, process>>

------------------------------------------------------------------------------
Arrive  == \/ \E c \in Comments : PostComment(c) \/ \E a \in Agents : CommentWake(c, a)
           \/ SystemWake
Operate == \/ \E r \in Rows : Stop(r)
           \/ \E a \in Agents : ReassignStop(a)
           \/ \E s \in Status : SetStatus(s)
           \/ \E c \in Comments : DeleteComment(c)
Execute(r) == \/ Gate(r) \/ Claim(r) \/ StampClaim(r) \/ ReleaseClaim(r) \/ Begin(r)
              \/ Checkout(r)
              \/ \E outcome \in {"succeeded", "failed"} : Finish(r, outcome)
              \/ Cleanup(r)
Recovery == \/ \E r \in Rows : Reap(r) \/ ScheduleRetry(r) \/ PromoteRetry(r) \/ ResumeStranded(r)
            \/ SweepStaleLock

Next == \/ Arrive \/ Operate \/ ReassignCommit \/ ReassignWake \/ Restart \/ Recovery
        \/ \E r \in Rows : Execute(r) \/ \E how \in Settlement : Release(r, how)

Spec == Init /\ [][Next]_vars

\* The handlers of a run are one promise chain, and the passes over stranded queues
\* and stale locks are periodic.  An adapter ends by itself, or by its timeout.
Controller(r) ==
  /\ WF_vars(Gate(r)) /\ WF_vars(Claim(r)) /\ WF_vars(StampClaim(r)) /\ WF_vars(Begin(r))
  /\ WF_vars(\E outcome \in {"succeeded", "failed"} : Finish(r, outcome))
  /\ WF_vars(Cleanup(r))
  /\ WF_vars(\E how \in Settlement : Release(r, how))
  /\ WF_vars(ResumeStranded(r))
  /\ WF_vars(Reap(r)) /\ WF_vars(ScheduleRetry(r)) /\ WF_vars(PromoteRetry(r))
FairSpec == Spec /\ WF_vars(SweepStaleLock) /\ \A r \in Rows : Controller(r)

------------------------------------------------------------------------------
(* Properties.                                                                *)

\* A comment is given to one execution.  A run may only share a comment with an
\* earlier run when it is the retry of the run that had the comment; a run that was
\* cancelled may have left its comments to another.  (The adoption of deferred
\* wakes in queue.ts and the promotion by the drain both move saved messages.)
Given(r) == run[r].st \notin {"none", "cancelled"}
NoDuplicateDelivery ==
  \A q, r \in Rows :
    q < r /\ Given(q) /\ Given(r)
      => \A c \in run[q].ctx \cap run[r].ctx :
           run[r].of # None /\ c \in run[run[r].of].ctx

\* A run that waits can be claimed: its own wake is queued and points back at it.
\* The claim of a run with comments skips any other run as stale, so that the run
\* would stay queued and hold its agent's issue for ever.
QueuedRunClaimable ==
  \A r \in Rows : Waiting(r) => wake[run[r].wake].st = "queued" /\ wake[run[r].wake].run = r

\* Never two running runs of the assignee: the issue's lock serialises claims although
\* wakes are not merged into a zombie. It does so while nobody reassigns the issue or sets
\* its status to one that clears the lock.
OneRunOfOwner ==
  Cardinality({r \in Rows : run[r].st = "running" /\ Owns(r)}) <= 1

\* What the queue shows as delivered is what the run was given: the envelope of a
\* wake that has a run is part of the run's context, through adoption, promotion,
\* edits of the queue, and the claim.
EnvelopeInContext ==
  \A w \in Rows :
    wake[w].st \in {"queued", "claimed", "completed"} /\ wake[w].env # {}
      => wake[w].env \subseteq run[wake[w].run].ctx

\* A comment is kept: saved in a deferred wake, or in the context of a run that
\* waits or that has started.
Kept(c) ==
  \/ \E w \in Deferred : c \in wake[w].env
  \/ \E r \in Rows : c \in run[r].ctx /\ (Waiting(r) \/ run[r].started)
\* The wake had its answer: it failed for an agent that is gone, or a person stopped
\* its run.
Answered(w) ==
  \/ wake[w].st = "failed"
  \/ wake[w].run # None /\ run[wake[w].run].stopped
\* The comment joined a queued run instead of having a wake of its own.
Merged(w) == wake[w].st = "coalesced" /\ wake[w].env = {}

\* No message is lost: a comment that somebody wrote and nobody deleted, once its
\* wake is recorded, is in a deferred wake or in a run, whatever stops, crashes,
\* reaps, retries, drains and queue edits follow.
MessagesKept ==
  \A w \in Rows : ~Merged(w) /\ ~Answered(w) => \A c \in LiveIds(wake[w].msg) : Kept(c)

\* The same of a comment that was merged into the context of a queued run.
MergedMessagesKept ==
  \A w \in Rows : Merged(w) /\ ~Answered(w) => \A c \in LiveIds(wake[w].msg) : Kept(c)

\* The outcome of a run stands: whoever ends it first, the adapter's answer, a person's
\* Stop, the gate or the reaper, nobody who comes late changes how it ended or what it
\* was given.
OutcomeStands == [][\A r \in Rows : Ended(r) => run'[r] = run[r]]_vars

\* Deferred task messages belong to the assignee: a drain never queues a run for
\* the ordinary comments of a former assignee.
DeferredFollowsOwner ==
  [][\A w \in Deferred : wake[w].kind = "comment" /\ wake[w].env # {}
                           /\ wake[w].agent # issue.assignee => wake'[w].st # "queued"]_vars

\* A comment waits for the assignee: saved in a deferred wake, or in a queued run
\* whose own wake brought it.
InTurn(c, r) == LET own == wake[run[r].wake]
                IN  /\ run[r].st = "queued" /\ Owns(r) /\ c \in run[r].ctx
                    /\ c \in (IF own.env = {} THEN own.msg ELSE own.env)
WaitsForOwner(c) == \/ \E w \in DeferredFor(issue.assignee) : c \in wake[w].env
                    \/ \E r \in Rows : InTurn(c, r)
\* A step that answers it: the assignee is found gone, or a person stops the run.
AnsweredNow(c) == \/ \E w \in Deferred : c \in wake[w].env /\ wake'[w].st = "failed"
                  \/ \E r \in Rows : c \in run[r].ctx /\ Active(r) /\ run'[r].stopped

\* A reassignment may drop what a former assignee was to be told, and nobody drops
\* what the assignee is: no release that comes late, no drain, claim, gate, retry or
\* cancelled stale holder loses a live comment that waits for the present assignee.
\* (It does not hold for an agent under a pause hold: see "held" in Disposition.)
OwnersMessagesKept ==
  [][\A c \in Comments :
       comment[c] = "live" /\ WaitsForOwner(c)
         => Kept(c)' \/ comment'[c] = "deleted" \/ AnsweredNow(c)]_vars

\* Every queued run is eventually claimed or cancelled: nobody waits behind a lock
\* that no release will clear.
QueuedRunSettles == \A r \in Rows : (run[r].st = "queued") ~> (run[r].st # "queued")

\* A saved message of the assignee reaches a run that starts, unless it is deleted,
\* or the instance has no row left for the run.
SavedMessageDelivered ==
  \A c \in Comments :
    (\E w \in DeferredFor(issue.assignee) : c \in wake[w].env)
      ~> \/ \E r \in Rows : c \in run[r].ctx /\ run[r].started
         \/ comment[c] # "live"
         \/ \A r \in Rows : run[r].st # "none"

==============================================================================
