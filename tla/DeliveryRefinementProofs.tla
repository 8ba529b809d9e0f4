------------------------ MODULE DeliveryRefinementProofs ------------------------
(***************************************************************************)
(* Every step of DeliveryCoordinator is a step of DeliveryQueue, or leaves   *)
(* the queue as it is.  Beside the invariant of DeliveryCoordinatorProofs,   *)
(* this needs that what a sweep is about to deliver waits to be delivered.   *)
(***************************************************************************)
EXTENDS DeliveryRefinement, DeliveryCoordinatorProofs

\* A batch is read once, and only its sweep delivers rows.
Fresh ==
  /\ \A i \in done : tx[i] = "committed"
  /\ worker.batch \subseteq Undone

RInv == IInv /\ Fresh

\* What the queue shows of the worker stays, and no row enters its batch.
Same(w, r) ==
  r.hold = w.hold /\ r.stopped = w.stopped /\ r.closed = w.closed /\ r.batch \subseteq w.batch

------------------------------------------------------------------------------
(* Steps that the queue does not show.                                        *)

\* A step that moves neither rows nor what is known of them.
LEMMA Hidden ==
  ASSUME RInv, Same(worker, worker'), UNCHANGED <<tx, done, tracked, admission>>
  PROVE  UNCHANGED Queue!qvars /\ Fresh'
<1>1. Stages' = Stages /\ Service' = Service /\ CanRun' = CanRun
  BY DEF Stages, Stage, Service, CanRun, Same
<1>2. Fresh'
  BY DEF RInv, Fresh, Undone, Same
<1>3. QED
  BY <1>1, <1>2 DEF Queue!qvars, Same

\* Requests, timers and the course of a sweep.
LEMMA SweepHidden ==
  ASSUME RInv, Wake \/ Ready \/ TimerFires \/ Admit \/ AskPending \/ Rejects \/ Finally
  PROVE  UNCHANGED Queue!qvars /\ Fresh'
<1>1. worker \in Worker /\ tracked \subseteq Items
  BY DEF RInv, IInv, TypeOK
<1>2. UNCHANGED <<tx, done, tracked, admission>>
  BY DEF Wake, Ready, TimerFires, Admit, AskPending, Rejects, Finally
<1> SUFFICES ASSUME TRUE PROVE Same(worker, worker')
  BY <1>2, Hidden
<1>3. CASE Wake
  BY <1>1, <1>3, WokenEffect DEF Wake, Agree, Same
<1>4. CASE Ready
  <2>1. PICK w \in Worker : w = [worker EXCEPT !.ready = TRUE]
    BY <1>1 DEF Worker
  <2>2. Same(worker, w) /\ worker' = Started(w)
    BY <1>1, <1>4, <2>1 DEF Ready, Same, Worker
  <2>3. QED
    BY <1>1, <2>2, StartedEffect DEF Same
<1>5. CASE TimerFires
  <2>1. PICK w \in Worker : w = [worker EXCEPT !.timer = "none"]
    BY <1>1 DEF Worker, Deadlines
  <2>2. Same(worker, w) /\ worker' = Started(w)
    BY <1>1, <1>5, <2>1 DEF TimerFires, Same, Worker
  <2>3. QED
    BY <1>1, <2>2, StartedEffect DEF Same
<1>6. CASE Admit \/ AskPending
  BY <1>1, <1>6 DEF Admit, AskPending, Same, Worker
<1>7. CASE Rejects
  <2>1. PICK w \in Worker : w = [worker EXCEPT !.phase = "finally", !.todo = {},
                                               !.batch = {}, !.answer = FALSE]
    BY <1>1 DEF Worker, Phases
  <2>2. Same(worker, w) /\ worker' = Scheduled(w, "later")
    BY <1>1, <1>7, <2>1 DEF Rejects, Same, Worker
  <2>3. QED
    BY <2>2, ScheduledEffect DEF Agree, Same
<1>8. CASE Finally
  <2>1. PICK w \in Worker : w = [worker EXCEPT !.phase = "idle"]
    BY <1>1 DEF Worker, Phases
  <2>2. Same(worker, w) /\ worker' \in {w, Scheduled(w, "now")}
    BY <1>1, <1>8, <2>1 DEF Finally, Same, Worker
  <2>3. QED
    BY <2>2, ScheduledEffect DEF Agree, Same
<1>9. QED
  BY <1>3, <1>4, <1>5, <1>6, <1>7, <1>8

\* The batch of a scan is what waits to be delivered.
LEMMA ScanHidden ==
  ASSUME RInv, Scan PROVE UNCHANGED Queue!qvars /\ Fresh'
<1>1. UNCHANGED <<tx, done, tracked, admission>> /\ worker \in Worker
  BY DEF Scan, RInv, IInv, TypeOK
<1>2. worker'.hold = worker.hold /\ worker'.stopped = worker.stopped
      /\ worker'.closed = worker.closed /\ worker'.batch = Undone
  BY <1>1 DEF Scan, Worker
<1>3. Stages' = Stages /\ Service' = Service /\ CanRun' = CanRun
  BY <1>1, <1>2 DEF Stages, Stage, Service, CanRun
<1>4. Fresh'
  BY <1>1, <1>2 DEF RInv, Fresh, Undone
<1>5. QED
  BY <1>1, <1>2, <1>3, <1>4 DEF Queue!qvars

\* While an outcome is tracked, what the worker is told leaves its hold alone.
LEMMA ToldEffect ==
  ASSUME RInv, NEW w \in Worker, NEW pending, Same(worker, w),
         tracked # {} \/ worker.stopped
  PROVE  Same(worker, Settled(w, pending))
<1>1. CASE w.stopped
  BY <1>1 DEF Settled, Held, Woken, Same
<1>2. CASE ~w.stopped
  <2>1. worker.hold /\ w.hold
    BY <1>2 DEF RInv, IInv, HoldWhileUnresolved, Same
  <2>2. PICK r \in Worker : r = Settled(w, pending) /\ Agree(w, r) /\ r.hold
    BY <2>1, SettledEffect
  <2>3. QED
    BY <2>1, <2>2 DEF Agree, Same
<1>3. QED
  BY <1>1, <1>2

\* An error teaches the process nothing.
LEMMA ReplyErrorHidden ==
  ASSUME RInv, NEW i \in Items, ReplyError(i) PROVE UNCHANGED Queue!qvars /\ Fresh'
<1>1. worker \in Worker /\ Same(worker, worker) /\ tracked # {}
  BY DEF RInv, IInv, TypeOK, Same, ReplyError
<1>2. Same(worker, worker')
  BY <1>1, ToldEffect DEF ReplyError
<1>3. QED
  BY <1>2, Hidden DEF ReplyError

------------------------------------------------------------------------------
(* Steps of the queue.                                                        *)

\* An announcement takes the hold, unless the queue was stopped.
LEMMA AnnounceMaps ==
  ASSUME RInv, NEW i \in Items, Announce(i) PROVE Queue!Announce(i) /\ Fresh'
<1>1. worker \in Worker /\ worker' = Held(worker, TRUE) /\ i \notin done
  BY DEF RInv, IInv, TypeOK, Fresh, Announce, Intent
<1>2. /\ worker'.stopped = worker.stopped /\ worker'.closed = worker.closed
      /\ worker'.batch = worker.batch
      /\ worker'.hold = (worker.hold \/ ~worker.stopped)
  <2>1. CASE worker.stopped
    BY <1>1, <2>1 DEF Held, Worker
  <2>2. CASE ~worker.stopped
    BY <1>1, <2>2, HeldEffect DEF Agree, Worker
  <2>3. QED
    BY <2>1, <2>2
<1>3. Service' = Service /\ (Service = "running" <=> ~worker.stopped)
  BY <1>2 DEF Service, RInv, IInv, Closed
<1>4. Stages[i] = "absent" /\ Stages' = [Stages EXCEPT ![i] = "announced"]
  <2>1. Stage(i) = "absent" /\ Stage(i)' = "announced"
    BY <1>1 DEF Announce, Stage, StageOf, RInv, IInv, TypeOK
  <2>2. ASSUME NEW j \in Items, j # i PROVE Stage(j)' = Stage(j)
    BY <2>2 DEF Announce, Stage, RInv, IInv, TypeOK
  <2>3. QED
    BY <2>1, <2>2 DEF Stages
<1>5. worker'.hold = (worker.hold \/ Service = "running")
  BY <1>2, <1>3
<1>6. Fresh'
  BY <1>2 DEF Announce, RInv, Fresh, Undone, IInv, TypeOK
<1>7. QED
  BY <1>3, <1>4, <1>5, <1>6 DEF Announce, Queue!Announce, CanRun

\* The server ends a transaction.
LEMMA ServerSettlesMaps ==
  ASSUME RInv, NEW i \in Items, ServerSettles(i) PROVE Queue!End(i) /\ Fresh'
<1>1. PICK outcome \in {"committed", "aborted"} : tx' = [tx EXCEPT ![i] = outcome]
  BY DEF ServerSettles
<1>2. Service' = Service /\ CanRun' = CanRun /\ i \notin done
  BY DEF ServerSettles, Service, CanRun, RInv, Fresh
<1>3. /\ Stages[i] = "announced"
      /\ Stages' = [Stages EXCEPT ![i] = IF outcome = "committed" THEN "queued" ELSE "void"]
  <2>1. Stage(i) = "announced" /\ Stage(i)' = IF outcome = "committed" THEN "queued" ELSE "void"
    BY <1>1, <1>2 DEF ServerSettles, Stage, StageOf, RInv, IInv, TypeOK
  <2>2. ASSUME NEW j \in Items, j # i PROVE Stage(j)' = Stage(j)
    BY <1>1, <2>2 DEF ServerSettles, Stage, RInv, IInv, TypeOK
  <2>3. QED
    BY <2>1, <2>2 DEF Stages
<1>4. Fresh'
  BY <1>1 DEF ServerSettles, RInv, Fresh, Undone, IInv, TypeOK
<1>5. QED
  BY <1>2, <1>3, <1>4 DEF ServerSettles, Queue!End

\* A row is let go with its outcome, and the rest of what the queue shows stays.
LEMMA Learnt ==
  ASSUME RInv, NEW i \in tracked, tx[i] # "open", Same(worker, worker'),
         tracked' = tracked \ {i}, UNCHANGED <<tx, done, admission>>
  PROVE  Queue!Learn(i) /\ Fresh'
<1>1. Stages' = Stages /\ Service' = Service /\ CanRun' = CanRun
  BY DEF Stages, Stage, Service, CanRun, Same
<1>2. Stages[i] # "announced"
  BY DEF Stages, Stage, StageOf, RInv, IInv, TypeOK, TxState
<1>3. Fresh'
  BY DEF RInv, Fresh, Undone, Same
<1>4. QED
  BY <1>1, <1>2, <1>3 DEF Queue!Learn, Same

\* The reply of a commit.
LEMMA ReplyKnownMaps ==
  ASSUME RInv, NEW i \in Items, ReplyKnown(i) PROVE Queue!Learn(i) /\ Fresh'
<1>1. worker \in Worker /\ Same(worker, worker) /\ tracked # {}
  BY DEF RInv, IInv, TypeOK, Same, ReplyKnown
<1>2. Same(worker, worker')
  BY <1>1, ToldEffect DEF ReplyKnown
<1>3. QED
  BY <1>2, Learnt DEF ReplyKnown

\* A transaction whose reply was lost is looked up: it is learned, or still open.
LEMMA ResolveMaps ==
  ASSUME RInv, NEW i \in Items, Resolve(i)
  PROVE  (Queue!Learn(i) \/ UNCHANGED Queue!qvars) /\ Fresh'
<1>1. PICK w \in Worker : w = [worker EXCEPT !.todo = @ \ {i}]
  BY DEF RInv, IInv, TypeOK, Worker
<1>2. Same(worker, w)
  BY <1>1 DEF Same, RInv, IInv, TypeOK, Worker
<1>3. CASE i \in unsure /\ tx[i] # "open"
  <2>1. i \in tracked
    BY <1>3 DEF RInv, IInv, Announced
  <2>2. worker' = Settled(w, tracked') /\ tracked' = tracked \ {i}
    BY <1>1, <1>3 DEF Resolve
  <2>3. Same(worker, worker')
    BY <1>2, <2>1, <2>2, ToldEffect
  <2>4. QED
    BY <1>3, <2>1, <2>2, <2>3, Learnt DEF Resolve
<1>4. CASE ~(i \in unsure /\ tx[i] # "open")
  BY <1>1, <1>2, <1>4, Hidden DEF Resolve
<1>5. QED
  BY <1>3, <1>4

\* A sweep delivers rows of its batch, and stop has not returned.
LEMMA DeliverMaps ==
  ASSUME RInv, Deliver PROVE (\E S \in SUBSET Items : Queue!Deliver(S)) /\ Fresh'
<1>1. PICK S \in SUBSET worker.batch : done' = done \cup S
  BY DEF Deliver
<1>2. /\ worker'.hold = worker.hold /\ worker'.stopped = worker.stopped
      /\ worker'.closed = worker.closed /\ worker'.batch = {} /\ ~worker.closed
  BY DEF Deliver, RInv, IInv, TypeOK, Worker, Closed, Running
<1>3. S \subseteq Items /\ \A i \in S : i \notin done /\ tx[i] = "committed"
  BY <1>1 DEF RInv, Fresh, Undone
<1>4. /\ \A i \in S : Stages[i] = "queued"
      /\ Stages' = [i \in Items |-> IF i \in S THEN "delivered" ELSE Stages[i]]
  BY <1>1, <1>3 DEF Deliver, Stages, Stage, StageOf
<1>5. Service # "stopped" /\ Service' = Service /\ CanRun' = CanRun
  BY <1>2 DEF Deliver, Service, CanRun
<1>6. Fresh'
  BY <1>1, <1>2, <1>3 DEF Deliver, RInv, Fresh, Undone
<1>7. Queue!Deliver(S)
  BY <1>2, <1>4, <1>5 DEF Deliver, Queue!Deliver
<1>8. QED
  BY <1>3, <1>6, <1>7

\* The hold is let go when no outcome is open.
LEMMA AnsweredMaps ==
  ASSUME RInv, Answered PROVE (Queue!Rest \/ UNCHANGED Queue!qvars) /\ Fresh'
<1> DEFINE pending == worker.answer \/ tracked # {}
<1>1. PICK ended \in Worker : ended = [worker EXCEPT !.phase = "finally",
                                         !.pendingWork = pending, !.answer = FALSE]
  BY DEF RInv, IInv, TypeOK, Worker, Phases
<1>2. Same(worker, ended)
  BY <1>1 DEF Same, RInv, IInv, TypeOK, Worker
<1>3. UNCHANGED <<tx, done, tracked, admission>>
  BY DEF Answered
<1>4. CASE pending
  <2>1. PICK next \in Worker : next = Scheduled(ended, "later") /\ Same(worker, next)
    BY <1>2, ScheduledEffect DEF Agree, Same
  <2>2. worker' = next \/ worker' = Scheduled(next, "later")
    BY <1>1, <1>4, <2>1 DEF Answered
  <2>3. Same(worker, worker')
    BY <2>1, <2>2, ScheduledEffect DEF Agree, Same
  <2>4. QED
    BY <1>3, <2>3, Hidden
<1>5. CASE ~pending
  <2>1. PICK next \in Worker : next = [ended EXCEPT !.hold = FALSE]
    BY DEF Worker
  <2>2. worker' = next \/ worker' = Scheduled(next, "later")
    BY <1>1, <1>5, <2>1 DEF Answered
  <2>3. /\ next.hold = FALSE /\ next.stopped = ended.stopped
        /\ next.closed = ended.closed /\ next.batch = ended.batch
    BY <2>1 DEF Worker
  <2>4. /\ worker'.hold = FALSE /\ worker'.stopped = worker.stopped
        /\ worker'.closed = worker.closed /\ worker'.batch \subseteq worker.batch
    <3>1. PICK later : later = Scheduled(next, "later")
      OBVIOUS
    <3>2. Agree(next, later) /\ later.hold = next.hold
      BY <2>1, <3>1, ScheduledEffect
    <3>3. Agree(next, worker') /\ worker'.hold = next.hold
      BY <2>2, <3>1, <3>2 DEF Agree
    <3>4. QED
      BY <1>2, <2>3, <3>3 DEF Agree, Same
  <2>5. Stages' = Stages /\ Service' = Service /\ CanRun' = CanRun
    BY <1>3, <2>4 DEF Stages, Stage, Service, CanRun
  <2>6. Fresh'
    BY <1>3, <2>4 DEF RInv, Fresh, Undone
  <2>7. QED
    BY <1>3, <1>5, <2>4, <2>5, <2>6 DEF Queue!Rest
<1>6. QED
  BY <1>4, <1>5

\* The admission closes, or opens.
LEMMA AdmissionMaps ==
  ASSUME RInv, CloseAdmission \/ OpenAdmission PROVE Queue!Gate /\ Fresh'
<1>1. UNCHANGED <<tx, done, tracked, worker>> /\ CanRun' = ~CanRun
  BY DEF CloseAdmission, OpenAdmission, CanRun
<1>2. Stages' = Stages /\ Service' = Service /\ Fresh'
  BY <1>1 DEF Stages, Stage, Service, RInv, Fresh, Undone
<1>3. QED
  BY <1>1, <1>2 DEF Queue!Gate

\* Stop is called, and returns.
LEMMA StopMaps ==
  ASSUME RInv, Stop \/ StopReturns PROVE (Queue!Stop \/ Queue!Stopped) /\ Fresh'
<1>1. UNCHANGED <<tx, done, tracked, admission>> /\ worker \in Worker
  BY DEF Stop, StopReturns, RInv, IInv, TypeOK
<1>2. Stages' = Stages /\ CanRun' = CanRun
  BY <1>1 DEF Stages, Stage, CanRun
<1>3. worker'.batch = worker.batch
  BY <1>1 DEF Stop, StopReturns, Worker
<1>4. Fresh'
  BY <1>1, <1>3 DEF RInv, Fresh, Undone
<1>5. CASE Stop
  <2>1. /\ Service = "running" /\ Service' = "stopping" /\ worker'.hold = worker.hold
    BY <1>1, <1>5 DEF Stop, Service, Worker, RInv, IInv, Closed
  <2>2. QED
    BY <1>1, <1>2, <1>4, <2>1 DEF Queue!Stop
<1>6. CASE StopReturns
  <2>1. /\ Service = "stopping" /\ Service' = "stopped" /\ worker'.hold = FALSE
    BY <1>1, <1>6 DEF StopReturns, Service, Worker
  <2>2. QED
    BY <1>1, <1>2, <1>4, <2>1 DEF Queue!Stopped
<1>7. QED
  BY <1>5, <1>6

------------------------------------------------------------------------------
(* The refinement.                                                            *)

\* A new process maps to a new queue.
LEMMA InitMaps == Init => Queue!Init /\ RInv
<1> SUFFICES ASSUME Init PROVE Queue!Init /\ RInv
  OBVIOUS
<1>1. Stages \in [Items -> {"absent", "queued"}]
  BY DEF Init, Stages, Stage, StageOf
<1>2. Service = "running" /\ CanRun \in BOOLEAN
  BY DEF Init, Service, CanRun
<1>3. Fresh
  BY DEF Init, Fresh
<1>4. QED
  BY <1>1, <1>2, <1>3, Initially DEF Init, Queue!Init, RInv

\* A step maps to a step or a stutter.
LEMMA NextMaps == RInv /\ [Next]_vars => [Queue!Next]_(Queue!qvars) /\ Fresh'
<1> SUFFICES ASSUME RInv, [Next]_vars PROVE [Queue!Next]_(Queue!qvars) /\ Fresh'
  OBVIOUS
<1>1. CASE \E i \in Items : Announce(i) \/ ServerSettles(i) \/ ReplyKnown(i) \/ ReplyError(i)
  BY <1>1, AnnounceMaps, ServerSettlesMaps, ReplyKnownMaps, ReplyErrorHidden DEF Queue!Next
<1>2. CASE CloseAdmission \/ OpenAdmission
  BY <1>2, AdmissionMaps DEF Queue!Next
<1>3. CASE Wake \/ Ready \/ TimerFires \/ Rejects
  BY <1>3, SweepHidden
<1>4. CASE Sweep
  BY <1>4, SweepHidden, ScanHidden, DeliverMaps, AnsweredMaps, ResolveMaps
  DEF Sweep, Queue!Next
<1>5. CASE Stop \/ StopReturns
  BY <1>5, StopMaps DEF Queue!Next
<1>6. CASE UNCHANGED vars
  BY <1>6, Hidden DEF vars, Same
<1>7. QED
  BY <1>1, <1>2, <1>3, <1>4, <1>5, <1>6 DEF Next

\* For any rows and any options of the task, the coordinator keeps the safety promise of
\* the queue: each row is delivered once, after it committed and before stop returned; an
\* outcome is learned after it was decided; the instance is busy until then.
THEOREM Refinement == Spec => Queue!SafeSpec
<1>1. RInv /\ [Next]_vars => RInv'
  BY Step, NextMaps DEF RInv
<1>2. QED
  BY InitMaps, NextMaps, <1>1, PTL DEF Spec, Queue!SafeSpec
===============================================================================
