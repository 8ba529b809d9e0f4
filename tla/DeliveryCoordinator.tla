-------------------------- MODULE DeliveryCoordinator --------------------------
(***************************************************************************)
(* One queue of the delivery coordinator                                     *)
(* (server/src/services/delivery-work-coordinator.ts), over the work signals *)
(* of database transactions (packages/db/src/work-signals.ts).               *)
(*                                                                          *)
(* A producer announces its transaction before it writes a row, and the      *)
(* worker of the queue is told when the transaction settles.  The worker     *)
(* sweeps the durable rows, and keeps a hold against idle sleep as long as   *)
(* the outcome of an announced transaction is not known.                     *)
(*                                                                          *)
(* One action is what runs between two awaits of a handler: JavaScript       *)
(* callbacks do not interleave, promises and timers do.  Other queues share  *)
(* only the timer, which serves each queue's own deadline.                   *)
(***************************************************************************)
EXTENDS Naturals, FiniteSets

CONSTANTS Items,           \* rows of the queue, each written by a transaction
          RunDuringDrain,  \* task.runDuringDrain
          PausePassive,    \* task.pausePassiveMaintenance
          MaxFaults        \* bound on failures and on closings of the admission

ASSUME TaskAssumption  == RunDuringDrain \in BOOLEAN /\ PausePassive \in BOOLEAN
ASSUME FaultAssumption == MaxFaults \in Nat

VARIABLES tx,      \* tx[i]: the transaction of row i on the database server
          done,    \* the rows that have been delivered
          tracked, \* scope.transactions: announced, outcome not known here
          unsure,  \* those whose reply was an error
          worker,  \* the worker's variables
          admission, \* what canRun and canReconcile say
          faults

vars == <<tx, done, tracked, unsure, worker, admission, faults>>

TxState   == {"none", "open", "committed", "aborted"}
Phases    == {"idle", "reconcile", "run", "deliver", "check", "answer", "finally"}
Deadlines == {"none", "now", "later"}
Admission == {"open", "drain", "standby"}

Worker    == [phase : Phases, ready : BOOLEAN, dirty : BOOLEAN,
              scheduledAt : Deadlines, timer : Deadlines, hold : BOOLEAN,
              pendingWork : BOOLEAN, stopped : BOOLEAN, closed : BOOLEAN,
              todo : SUBSET Items, batch : SUBSET Items, answer : BOOLEAN]

TypeOK ==
  /\ tx \in [Items -> TxState]
  /\ done \subseteq Items /\ tracked \subseteq Items /\ unsure \subseteq Items
  /\ worker \in Worker
  /\ admission \in Admission
  /\ faults \in 0..MaxFaults

Undone  == {i \in Items : tx[i] = "committed" /\ i \notin done}
CanRun  == admission = "open"
Running == worker.phase # "idle"

\* A new process finds the rows that an earlier one has left.
Init ==
  /\ tx \in [Items -> {"none", "committed"}]
  /\ done = {} /\ tracked = {} /\ unsure = {}
  /\ worker = [phase |-> "idle", ready |-> FALSE, dirty |-> FALSE,
               scheduledAt |-> "none", timer |-> "none", hold |-> FALSE,
               pendingWork |-> TRUE, stopped |-> FALSE, closed |-> FALSE,
               todo |-> {}, batch |-> {}, answer |-> FALSE]
  /\ admission \in Admission
  /\ faults = 0

Fault == faults < MaxFaults /\ faults' = faults + 1

------------------------------------------------------------------------------
(* The worker's deadline, and its two notifications.                          *)

\* schedule: an earlier deadline stays.
Scheduled(w, at) ==
  IF w.stopped \/ w.scheduledAt = "now" \/ w.scheduledAt = at THEN w
  ELSE [w EXCEPT !.scheduledAt = at, !.timer = at]

\* Mutated form of Woken: a wake during a sweep schedules the next one as well.
WokenWhileRunning(w) ==
  IF w.stopped THEN w ELSE Scheduled([w EXCEPT !.dirty = TRUE], "now")

\* wake: a sweep that runs will look at dirty when it ends.
Woken(w) ==
  IF w.stopped THEN w
  ELSE IF w.phase = "idle" THEN Scheduled([w EXCEPT !.dirty = TRUE], "now")
  ELSE [w EXCEPT !.dirty = TRUE]

\* The listener's first part: the hold is taken while an outcome is open.
Held(w, pending) ==
  IF w.stopped \/ ~pending THEN w
  ELSE LET held == [w EXCEPT !.hold = TRUE]
       IN  IF w.phase = "idle" THEN Scheduled(held, "later") ELSE held

\* publish(intent) and publish(settled), given the transactions still tracked.
Intent(w)           == Held(w, TRUE)
Settled(w, pending) == Woken(Held(w, pending # {}))

------------------------------------------------------------------------------
(* Producers and the database server.                                         *)

\* signalDatabaseWork, before the row is written.
Announce(i) ==
  /\ tx[i] = "none"
  /\ tx' = [tx EXCEPT ![i] = "open"]
  /\ tracked' = tracked \cup {i}
  /\ worker' = Intent(worker)
  /\ UNCHANGED <<done, unsure, admission, faults>>

\* The server ends the transaction; the producer does not know yet.
ServerSettles(i) ==
  /\ tx[i] = "open"
  /\ \E outcome \in {"committed", "aborted"} : tx' = [tx EXCEPT ![i] = outcome]
  /\ UNCHANGED <<done, tracked, unsure, worker, admission, faults>>

\* transaction() returns: committed.  Or it throws before the transaction's id was
\* known, when no row can have been written: it needs no tracking either.
ReplyKnown(i) ==
  /\ i \in tracked \ unsure /\ tx[i] \in {"committed", "aborted"}
  /\ tracked' = tracked \ {i}
  /\ worker' = Settled(worker, tracked')
  /\ UNCHANGED <<tx, done, unsure, admission, faults>>

\* Mutated form of ReplyError: an error is taken for a rollback.
ReplyErrorForgotten(i) ==
  /\ i \in tracked \ unsure
  /\ IF tx[i] = "aborted" THEN UNCHANGED faults ELSE Fault
  /\ tracked' = tracked \ {i}
  /\ worker' = Settled(worker, tracked')
  /\ UNCHANGED <<tx, done, unsure, admission>>

\* transaction() throws: rolled back, or the reply of the commit was lost.  The
\* transaction stays tracked, until a sweep asks the server for its outcome.
ReplyError(i) ==
  /\ i \in tracked \ unsure
  /\ IF tx[i] = "aborted" THEN UNCHANGED faults ELSE Fault
  /\ unsure' = unsure \cup {i}
  /\ worker' = Settled(worker, tracked)
  /\ UNCHANGED <<tx, done, tracked, admission>>

\* The owner of the queue asks for a sweep.
Wake ==
  /\ worker' = Woken(worker)
  /\ UNCHANGED <<tx, done, tracked, unsure, admission, faults>>

\* A drain or a standby begins, or ends.
CloseAdmission ==
  /\ CanRun /\ Fault
  /\ admission' \in {"drain", "standby"}
  /\ UNCHANGED <<tx, done, tracked, unsure, worker>>
OpenAdmission ==
  /\ ~CanRun /\ admission' = "open"
  /\ UNCHANGED <<tx, done, tracked, unsure, worker, faults>>

------------------------------------------------------------------------------
(* The sweep.                                                                 *)

\* Nothing but the maintenance of an empty queue would be done now.
Passive(w) ==
  ~CanRun /\ PausePassive /\ ~w.pendingWork /\ ~w.dirty /\ ~w.hold /\ tracked = {}

\* start, called by the timer or, once, by register.
Started(w) ==
  LET free == [w EXCEPT !.scheduledAt = "none", !.timer = "none"]
  IN  IF w.stopped \/ w.phase # "idle" THEN w
      ELSE IF admission = "standby" \/ Passive(w) THEN Scheduled(free, "later")
      ELSE [free EXCEPT !.dirty = FALSE, !.phase = "reconcile", !.todo = tracked]

Ready ==
  /\ ~worker.ready
  /\ worker' = Started([worker EXCEPT !.ready = TRUE])
  /\ UNCHANGED <<tx, done, tracked, unsure, admission, faults>>

\* The scheduler forgets the task, then runs it.  No timer fires before the
\* promise callbacks that are due have run.
TimerFires ==
  /\ worker.timer # "none" /\ worker.phase # "finally"
  /\ worker' = Started([worker EXCEPT !.timer = "none"])
  /\ UNCHANGED <<tx, done, tracked, unsure, admission, faults>>

\* Mutated form of Resolve: an aborted transaction is not recognised.
ResolveCommitted(i) ==
  /\ worker.phase = "reconcile" /\ i \in worker.todo
  /\ LET looked   == [worker EXCEPT !.todo = @ \ {i}]
         resolved == i \in unsure /\ tx[i] = "committed"
     IN  /\ tracked' = IF resolved THEN tracked \ {i} ELSE tracked
         /\ unsure' = IF resolved THEN unsure \ {i} ELSE unsure
         /\ worker' = IF resolved THEN Settled(looked, tracked') ELSE looked
  /\ UNCHANGED <<tx, done, admission, faults>>

\* reconcileDatabaseWork looks at one of the transactions it found.
Resolve(i) ==
  /\ worker.phase = "reconcile" /\ i \in worker.todo
  /\ LET looked   == [worker EXCEPT !.todo = @ \ {i}]
         resolved == i \in unsure /\ tx[i] # "open"
     IN  /\ tracked' = IF resolved THEN tracked \ {i} ELSE tracked
         /\ unsure' = IF resolved THEN unsure \ {i} ELSE unsure
         /\ worker' = IF resolved THEN Settled(looked, tracked') ELSE looked
  /\ UNCHANGED <<tx, done, admission, faults>>

\* Mutated form of Admit: stop is not looked at again.
AdmitStopped ==
  /\ worker.phase = "reconcile" /\ worker.todo = {}
  /\ worker' = [worker EXCEPT !.phase = IF CanRun THEN "run" ELSE "check"]
  /\ UNCHANGED <<tx, done, tracked, unsure, admission, faults>>

\* The task runs, unless the worker was stopped or the admission closed meanwhile.
Admit ==
  /\ worker.phase = "reconcile" /\ worker.todo = {}
  /\ LET admitted == ~worker.stopped /\ (CanRun \/ (RunDuringDrain /\ admission = "drain"))
     IN  worker' = [worker EXCEPT !.phase = IF admitted THEN "run" ELSE "check"]
  /\ UNCHANGED <<tx, done, tracked, unsure, admission, faults>>

\* task.run reads the committed rows, then delivers them.
Scan ==
  /\ worker.phase = "run"
  /\ worker' = [worker EXCEPT !.phase = "deliver", !.batch = Undone]
  /\ UNCHANGED <<tx, done, tracked, unsure, admission, faults>>

\* A row that could not be delivered stays in the queue.
Deliver ==
  /\ worker.phase = "deliver"
  /\ \E S \in SUBSET worker.batch :
       /\ done' = done \cup S
       /\ IF S = worker.batch THEN UNCHANGED faults ELSE Fault
  /\ worker' = [worker EXCEPT !.phase = "check", !.batch = {}]
  /\ UNCHANGED <<tx, tracked, unsure, admission>>

\* task.hasPending is asked; its answer takes time.
AskPending ==
  /\ worker.phase = "check"
  /\ worker' = [worker EXCEPT !.phase = "answer", !.answer = ~worker.stopped /\ Undone # {}]
  /\ UNCHANGED <<tx, done, tracked, unsure, admission, faults>>

\* Mutated form of Answered: the transactions still open are not looked at.
AnsweredFromRowsOnly ==
  /\ worker.phase = "answer"
  /\ LET ended == [worker EXCEPT !.phase = "finally", !.pendingWork = worker.answer,
                                 !.answer = FALSE]
     IN  worker' = IF worker.answer THEN Scheduled(ended, "later")
                   ELSE [ended EXCEPT !.hold = FALSE]
  /\ UNCHANGED <<tx, done, tracked, unsure, admission, faults>>

\* The answer arrives.  A queue with nothing left lets the hold go; the task may ask
\* for maintenance later.
Answered ==
  /\ worker.phase = "answer"
  /\ LET pending == worker.answer \/ tracked # {}
         ended   == [worker EXCEPT !.phase = "finally", !.pendingWork = pending,
                                   !.answer = FALSE]
         next    == IF pending THEN Scheduled(ended, "later")
                    ELSE [ended EXCEPT !.hold = FALSE]
     IN  worker' \in {next, Scheduled(next, "later")}
  /\ UNCHANGED <<tx, done, tracked, unsure, admission, faults>>

\* A step of the sweep rejects, by a failure or because stop aborted it.
Rejects ==
  /\ worker.phase \in {"reconcile", "run", "deliver", "check", "answer"}
  /\ IF worker.stopped THEN UNCHANGED faults ELSE Fault
  /\ worker' = Scheduled([worker EXCEPT !.phase = "finally", !.todo = {}, !.batch = {},
                                        !.answer = FALSE], "later")
  /\ UNCHANGED <<tx, done, tracked, unsure, admission>>

\* Mutated form of Finally: the promise of the sweep is not cleared.
FinallyStillRunning ==
  /\ worker.phase = "finally"
  /\ worker' = [worker EXCEPT !.phase = "settled"]
  /\ UNCHANGED <<tx, done, tracked, unsure, admission, faults>>

\* Mutated form of Finally: what arrived during the sweep waits for the next wake.
FinallyForgetting ==
  /\ worker.phase = "finally"
  /\ worker' = [worker EXCEPT !.phase = "idle"]
  /\ UNCHANGED <<tx, done, tracked, unsure, admission, faults>>

\* A wake that arrived during the sweep starts another.
Finally ==
  /\ worker.phase = "finally"
  /\ LET idle == [worker EXCEPT !.phase = "idle"]
     IN  worker' = IF worker.dirty THEN Scheduled(idle, "now") ELSE idle
  /\ UNCHANGED <<tx, done, tracked, unsure, admission, faults>>

------------------------------------------------------------------------------
(* Shutdown.                                                                  *)

Stop ==
  /\ ~worker.stopped
  /\ worker' = [worker EXCEPT !.stopped = TRUE, !.timer = "none"]
  /\ UNCHANGED <<tx, done, tracked, unsure, admission, faults>>

\* Mutated form of StopReturns: the sweep that runs is not awaited.
StopReturnsAtOnce ==
  /\ worker.stopped /\ ~worker.closed
  /\ worker' = [worker EXCEPT !.hold = FALSE, !.closed = TRUE]
  /\ UNCHANGED <<tx, done, tracked, unsure, admission, faults>>

\* stop returns after the sweep that was running.
StopReturns ==
  /\ worker.stopped /\ ~Running /\ ~worker.closed
  /\ worker' = [worker EXCEPT !.hold = FALSE, !.closed = TRUE]
  /\ UNCHANGED <<tx, done, tracked, unsure, admission, faults>>

Sweep == \/ Admit \/ Scan \/ Deliver \/ AskPending \/ Answered \/ Finally
         \/ \E i \in Items : Resolve(i)

Next == \/ \E i \in Items : Announce(i) \/ ServerSettles(i) \/ ReplyKnown(i) \/ ReplyError(i)
        \/ Wake \/ CloseAdmission \/ OpenAdmission
        \/ Ready \/ TimerFires \/ Sweep \/ Rejects
        \/ Stop \/ StopReturns

Spec == Init /\ [][Next]_vars

\* Timers fire and promises settle; a transaction ends and its reply, or an error,
\* arrives.  Nothing obliges a drain or a standby to end.
FairSpec ==
  /\ Spec
  /\ WF_vars(Ready) /\ WF_vars(TimerFires) /\ WF_vars(Sweep)
  /\ WF_vars(StopReturns)
  /\ \A i \in Items : /\ WF_vars(ServerSettles(i))
                      /\ WF_vars(ReplyKnown(i) \/ ReplyError(i))

------------------------------------------------------------------------------
(* Properties.                                                                *)

\* A wake is never lost: between two sweeps, a deadline is set whenever a row that
\* committed waits to be delivered, or a transaction ended without a reply.  (A row
\* whose transaction is still to be answered will be announced by that answer.)
WorkIsScheduled ==
  worker.ready /\ ~worker.stopped /\ ~Running
    /\ (Undone \ tracked # {} \/ unsure # {}) => worker.timer # "none"

\* The deadline the worker believes in is the one the scheduler has: a stale
\* scheduledAt would swallow every later request for a sweep.
DeadlineArmed == ~worker.stopped => worker.timer = worker.scheduledAt

\* The instance does not look idle while the outcome of an announced write is open.
HoldWhileUnresolved == ~worker.stopped /\ tracked # {} => worker.hold

\* Stop awaits the sweep that runs, and nothing is delivered after it returned.
NothingAfterStop == [][worker.closed => ~Running /\ done' = done]_vars

\* No task starts after the worker was told to stop.
NoTaskAfterStop == [][worker.stopped /\ worker.phase # "run" => worker'.phase # "run"]_vars

\* Once the admission stays open, a committed row is delivered, unless the
\* coordinator is stopped: no wake is lost between commit, sweep and timer.
CommittedDelivered ==
  <>[]CanRun => \A i \in Items : (tx[i] = "committed") ~> (i \in done \/ worker.stopped)

\* The idle hold is let go: once the admission stays open, every lost reply is
\* resolved and then the queue goes quiet.
HoldReleased == <>[]CanRun => (worker.hold ~> ~worker.hold)

==============================================================================
