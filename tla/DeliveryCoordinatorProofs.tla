----------------------- MODULE DeliveryCoordinatorProofs -----------------------
(***************************************************************************)
(* Proofs about DeliveryCoordinator, for any set of rows and any options of  *)
(* the task.  The inductive invariant follows one notification through the   *)
(* sweep: where it is remembered between the moment it arrives and the next  *)
(* sweep.                                                                    *)
(***************************************************************************)
EXTENDS DeliveryCoordinator, TLAPS

------------------------------------------------------------------------------
(* The inductive invariant.                                                   *)

\* A transaction is tracked from its announcement until its outcome is known.
Announced ==
  /\ unsure \subseteq tracked
  /\ \A i \in Items : tx[i] = "open" => i \in tracked

\* A deadline is only set between two sweeps, and never after stop.
Armed(w) ==
  /\ ~w.stopped => w.timer = w.scheduledAt
  /\ w.timer # "none" => w.phase \in {"idle", "finally"} /\ ~w.stopped

\* A worker whose stop has returned is idle.
Closed == worker.closed => worker.stopped /\ ~Running

\* Nothing is left for a sweep.
Quiet == Undone \subseteq tracked /\ unsure = {}

\* Where a notification is remembered once hasPending has been asked.
Remembered ==
  ~worker.stopped =>
    /\ worker.phase = "answer" => worker.dirty \/ worker.answer \/ Undone \subseteq tracked
    /\ worker.phase = "finally" => worker.dirty \/ worker.timer # "none" \/ Quiet
    /\ worker.phase = "idle" /\ worker.ready => worker.timer # "none" \/ Quiet

IInv == /\ TypeOK
        /\ Announced
        /\ Armed(worker)
        /\ Closed
        /\ HoldWhileUnresolved
        /\ Remembered

------------------------------------------------------------------------------
(* What the worker's operators change.                                        *)

\* r is w but for the deadline, the hold and what the next sweep remembers.
Agree(w, r) ==
  /\ r.phase = w.phase /\ r.ready = w.ready /\ r.pendingWork = w.pendingWork
  /\ r.stopped = w.stopped /\ r.closed = w.closed
  /\ r.todo = w.todo /\ r.batch = w.batch /\ r.answer = w.answer

\* A request for a sweep moves the deadline alone, and leaves one behind.
LEMMA ScheduledEffect ==
  ASSUME NEW w \in Worker, NEW at \in {"now", "later"}
  PROVE  LET r == Scheduled(w, at)
         IN  /\ r \in Worker
             /\ Agree(w, r) /\ r.dirty = w.dirty /\ r.hold = w.hold
             /\ w.stopped => r = w
             /\ Armed(w) /\ ~w.stopped => r.timer # "none" /\ r.timer = r.scheduledAt
<1>1. CASE w.stopped \/ w.scheduledAt = "now" \/ w.scheduledAt = at
  BY <1>1 DEF Scheduled, Agree, Armed
<1>2. CASE ~(w.stopped \/ w.scheduledAt = "now" \/ w.scheduledAt = at)
  <2>1. Scheduled(w, at) = [w EXCEPT !.scheduledAt = at, !.timer = at]
    BY <1>2 DEF Scheduled
  <2>2. at \in Deadlines
    BY DEF Deadlines
  <2>3. Scheduled(w, at) \in Worker
    BY <2>1, <2>2 DEF Worker
  <2>4. QED
    BY <1>2, <2>1, <2>3 DEF Worker, Agree
<1>3. QED
  BY <1>1, <1>2

\* A wake is remembered by dirty, and by a deadline if no sweep runs.
LEMMA WokenEffect ==
  ASSUME NEW w \in Worker
  PROVE  LET r == Woken(w)
         IN  /\ r \in Worker
             /\ Agree(w, r) /\ r.hold = w.hold
             /\ w.stopped => r = w
             /\ ~w.stopped => r.dirty
             /\ Armed(w) => Armed(r)
             /\ ~w.stopped /\ w.phase = "idle" /\ Armed(w) => r.timer # "none"
<1>0. PICK woken \in Worker : woken = [w EXCEPT !.dirty = TRUE]
  BY DEF Worker
<1>1. /\ Agree(w, woken) /\ woken.hold = w.hold /\ woken.dirty
      /\ woken.timer = w.timer /\ woken.scheduledAt = w.scheduledAt
  BY <1>0 DEF Agree
<1>2. Armed(w) => Armed(woken)
  BY <1>1 DEF Armed, Agree
<1>3. CASE w.stopped
  BY <1>3 DEF Woken, Agree
<1>4. CASE ~w.stopped /\ w.phase # "idle"
  BY <1>0, <1>1, <1>2, <1>4 DEF Woken
<1>5. CASE ~w.stopped /\ w.phase = "idle"
  <2>1. PICK r : r = Scheduled(woken, "now")
    OBVIOUS
  <2>2. /\ r \in Worker /\ Agree(woken, r)
        /\ r.dirty = woken.dirty /\ r.hold = woken.hold
        /\ Armed(w) => r.timer # "none" /\ r.timer = r.scheduledAt
    BY <1>1, <1>2, <1>5, <2>1, ScheduledEffect DEF Agree
  <2>3. Woken(w) = r
    BY <1>0, <1>5, <2>1 DEF Woken
  <2>4. QED
    BY <1>1, <1>5, <2>2, <2>3 DEF Agree, Armed
<1>6. QED
  BY <1>3, <1>4, <1>5

\* The hold is taken if an outcome is open; nothing remembered is lost.
LEMMA HeldEffect ==
  ASSUME NEW w \in Worker, NEW pending \in BOOLEAN
  PROVE  LET r == Held(w, pending)
         IN  /\ r \in Worker
             /\ Agree(w, r) /\ r.dirty = w.dirty
             /\ w.hold => r.hold
             /\ ~w.stopped /\ pending => r.hold
             /\ Armed(w) => Armed(r)
             /\ w.timer # "none" /\ Armed(w) => r.timer # "none"
<1>0. PICK held \in Worker : held = [w EXCEPT !.hold = TRUE]
  BY DEF Worker
<1>1. /\ Agree(w, held) /\ held.hold /\ held.dirty = w.dirty
      /\ held.timer = w.timer /\ held.scheduledAt = w.scheduledAt
  BY <1>0 DEF Agree
<1>2. Armed(w) => Armed(held)
  BY <1>1 DEF Armed, Agree
<1>3. CASE w.stopped \/ ~pending
  BY <1>3 DEF Held, Agree
<1>4. CASE ~w.stopped /\ pending /\ w.phase # "idle"
  BY <1>0, <1>1, <1>2, <1>4 DEF Held
<1>5. CASE ~w.stopped /\ pending /\ w.phase = "idle"
  <2>1. PICK r : r = Scheduled(held, "later")
    OBVIOUS
  <2>2. /\ r \in Worker /\ Agree(held, r)
        /\ r.dirty = held.dirty /\ r.hold = held.hold
        /\ Armed(w) => r.timer # "none" /\ r.timer = r.scheduledAt
    BY <1>1, <1>2, <1>5, <2>1, ScheduledEffect DEF Agree
  <2>3. Held(w, pending) = r
    BY <1>0, <1>5, <2>1 DEF Held
  <2>4. QED
    BY <1>1, <1>5, <2>2, <2>3 DEF Agree, Armed
<1>6. QED
  BY <1>3, <1>4, <1>5

\* The listener's two parts together.
LEMMA SettledEffect ==
  ASSUME NEW w \in Worker, NEW pending
  PROVE  LET r == Settled(w, pending)
         IN  /\ r \in Worker
             /\ Agree(w, r)
             /\ w.hold => r.hold
             /\ ~w.stopped /\ pending # {} => r.hold
             /\ ~w.stopped => r.dirty
             /\ Armed(w) => Armed(r)
             /\ ~w.stopped /\ w.phase = "idle" /\ Armed(w) => r.timer # "none"
<1>1. (pending # {}) \in BOOLEAN
  OBVIOUS
<1>2. PICK h \in Worker : h = Held(w, pending # {})
  BY <1>1, HeldEffect
<1>3. /\ Agree(w, h) /\ (w.hold => h.hold)
      /\ ~w.stopped /\ pending # {} => h.hold
      /\ Armed(w) => Armed(h)
  BY <1>2, HeldEffect
<1>4. Settled(w, pending) = Woken(h)
  BY <1>2 DEF Settled
<1>5. QED
  BY <1>3, <1>4, WokenEffect DEF Agree

\* A sweep starts from an idle worker and consumes dirty and the deadline; otherwise
\* the timer that has fired is replaced.
LEMMA StartedEffect ==
  ASSUME NEW w \in Worker, tracked \subseteq Items
  PROVE  LET r == Started(w)
         IN  /\ r \in Worker
             /\ w.stopped \/ w.phase # "idle" => r = w
             /\ r.hold = w.hold /\ r.ready = w.ready /\ r.stopped = w.stopped
             /\ r.closed = w.closed /\ r.batch = w.batch
             /\ ~w.stopped /\ w.phase = "idle" =>
                  /\ r.timer = r.scheduledAt
                  /\ \/ r.phase = "reconcile" /\ r.timer = "none"
                     \/ r.phase = "idle" /\ r.timer = "later"
<1> DEFINE free == [w EXCEPT !.scheduledAt = "none", !.timer = "none"]
           later == [w EXCEPT !.scheduledAt = "later", !.timer = "later"]
<1>1. CASE w.stopped \/ w.phase # "idle"
  BY <1>1 DEF Started
<1>2. CASE ~w.stopped /\ w.phase = "idle"
  <2>1. free \in Worker
    BY DEF Worker, Deadlines
  <2>2. CASE admission = "standby" \/ Passive(w)
    <3>1. Started(w) = later
      BY <1>2, <2>1, <2>2 DEF Started, Scheduled, Worker
    <3>2. later \in Worker
      BY DEF Worker, Deadlines
    <3>3. QED
      BY <1>2, <3>1, <3>2 DEF Worker
  <2>3. CASE ~(admission = "standby" \/ Passive(w))
    BY <1>2, <2>1, <2>3 DEF Started, Worker, Deadlines, Phases
  <2>4. QED
    BY <2>2, <2>3
<1>3. QED
  BY <1>1, <1>2

------------------------------------------------------------------------------
(* The invariant is inductive: one lemma per action.                          *)

\* A new process has been told nothing, and asks for a sweep before anything else.
LEMMA Initially == Init => IInv
<1> SUFFICES ASSUME Init PROVE IInv
  OBVIOUS
<1>1. TypeOK
  <2>1. worker \in Worker
    BY DEF Init, Worker, Phases, Deadlines
  <2>2. tx \in [Items -> TxState]
    BY DEF Init, TxState
  <2>3. QED
    BY <2>1, <2>2, FaultAssumption DEF Init, TypeOK
<1>2. Announced /\ Armed(worker) /\ Closed /\ HoldWhileUnresolved /\ Remembered
  BY DEF Init, Announced, Armed, Closed, HoldWhileUnresolved, Remembered
<1>3. QED
  BY <1>1, <1>2 DEF IInv

\* The invariant after a step, from its parts.
LEMMA Parts ==
  TypeOK' /\ Announced' /\ Armed(worker)' /\ Closed' /\ HoldWhileUnresolved' /\ Remembered' => IInv'
BY DEF IInv

\* A fault keeps to its bound.
LEMMA FaultType == TypeOK /\ (UNCHANGED faults \/ Fault) => faults' \in 0..MaxFaults
BY FaultAssumption DEF TypeOK, Fault

\* The admission moves nothing else.
LEMMA AdmissionStep ==
  ASSUME IInv, CloseAdmission \/ OpenAdmission PROVE IInv'
<1>1. UNCHANGED <<tx, done, tracked, unsure, worker>> /\ (UNCHANGED faults \/ Fault)
  BY DEF CloseAdmission, OpenAdmission
<1>2. TypeOK'
  BY FaultType DEF IInv, TypeOK, CloseAdmission, OpenAdmission, Admission
<1>3. QED
  BY <1>1, <1>2 DEF IInv, Announced, Armed, Closed, HoldWhileUnresolved, Remembered,
     Quiet, Undone, Running

\* A wake is remembered until the next sweep.
LEMMA WakeStep ==
  ASSUME IInv, Wake PROVE IInv'
<1>1. /\ worker' \in Worker /\ Agree(worker, worker') /\ worker'.hold = worker.hold
      /\ ~worker.stopped => worker'.dirty
      /\ Armed(worker')
      /\ ~worker.stopped /\ worker.phase = "idle" => worker'.timer # "none"
  BY WokenEffect DEF IInv, TypeOK, Wake
<1>2. TypeOK'
  BY <1>1 DEF IInv, TypeOK, Wake
<1>3. Announced'
  BY <1>1 DEF IInv, Wake, Announced
<1>4. Armed(worker)' /\ Closed'
  BY <1>1 DEF IInv, Wake, Armed, Closed, Running, Agree, TypeOK, Worker
<1>5. HoldWhileUnresolved'
  BY <1>1 DEF IInv, Wake, HoldWhileUnresolved, Agree, TypeOK, Worker
<1>6. Remembered'
  BY <1>1 DEF IInv, Wake, Announced, Armed, Remembered, Quiet, Undone, Running, Agree, TypeOK, Worker
<1>7. QED
  BY <1>2, <1>3, <1>4, <1>5, <1>6, Parts

\* An announcement takes the hold before the row is written.
LEMMA AnnounceStep ==
  ASSUME IInv, NEW i \in Items, Announce(i) PROVE IInv'
<1>1. /\ worker' \in Worker /\ Agree(worker, worker') /\ worker'.dirty = worker.dirty
      /\ ~worker.stopped => worker'.hold
      /\ Armed(worker')
      /\ worker.timer # "none" => worker'.timer # "none"
  BY HeldEffect DEF IInv, TypeOK, Announce, Intent
<1>2. TypeOK'
  BY <1>1 DEF IInv, TypeOK, Announce, TxState
<1>3. Announced'
  BY <1>1 DEF IInv, Announce, Announced
<1>4. Armed(worker)' /\ Closed'
  BY <1>1 DEF IInv, Announce, Armed, Closed, Running, Agree, TypeOK, Worker
<1>5. HoldWhileUnresolved'
  BY <1>1 DEF IInv, Announce, HoldWhileUnresolved, Agree, TypeOK, Worker
<1>6. Remembered'
  BY <1>1 DEF IInv, Announce, Announced, Armed, Remembered, Quiet, Undone, Running, Agree, TypeOK, Worker
<1>7. QED
  BY <1>2, <1>3, <1>4, <1>5, <1>6, Parts

\* The outcome of a transaction on the server is not yet known here.
LEMMA ServerSettlesStep ==
  ASSUME IInv, NEW i \in Items, ServerSettles(i) PROVE IInv'
<1>1. TypeOK'
  BY DEF IInv, TypeOK, ServerSettles, TxState
<1>2. Announced'
  BY DEF IInv, ServerSettles, Announced
<1>3. Armed(worker)' /\ Closed'
  BY DEF IInv, ServerSettles, Armed, Closed, Running, Agree, TypeOK, Worker
<1>4. HoldWhileUnresolved'
  BY DEF IInv, ServerSettles, HoldWhileUnresolved, Agree, TypeOK, Worker
<1>5. Remembered'
  BY DEF IInv, ServerSettles, Announced, Armed, Remembered, Quiet, Undone, Running, Agree, TypeOK, Worker
<1>6. QED
  BY <1>1, <1>2, <1>3, <1>4, <1>5, Parts

\* The reply wakes the worker for the row that it no longer tracks.
LEMMA ReplyKnownStep ==
  ASSUME IInv, NEW i \in Items, ReplyKnown(i) PROVE IInv'
<1>1. /\ worker' \in Worker /\ Agree(worker, worker')
      /\ worker.hold => worker'.hold
      /\ ~worker.stopped => worker'.dirty
      /\ Armed(worker')
      /\ ~worker.stopped /\ worker.phase = "idle" => worker'.timer # "none"
  BY SettledEffect DEF IInv, TypeOK, ReplyKnown
<1>2. TypeOK'
  BY <1>1 DEF IInv, TypeOK, ReplyKnown
<1>3. Announced'
  BY <1>1 DEF IInv, ReplyKnown, Announced
<1>4. Armed(worker)' /\ Closed'
  BY <1>1 DEF IInv, ReplyKnown, Armed, Closed, Running, Agree, TypeOK, Worker
<1>5. HoldWhileUnresolved'
  BY <1>1 DEF IInv, ReplyKnown, HoldWhileUnresolved, Agree, TypeOK, Worker
<1>6. Remembered'
  BY <1>1 DEF IInv, ReplyKnown, Announced, Armed, Remembered, Quiet, Undone, Running, Agree, TypeOK, Worker
<1>7. QED
  BY <1>2, <1>3, <1>4, <1>5, <1>6, Parts

\* An error leaves the transaction tracked, and wakes the worker to ask for its outcome.
LEMMA ReplyErrorStep ==
  ASSUME IInv, NEW i \in Items, ReplyError(i) PROVE IInv'
<1>1. /\ worker' \in Worker /\ Agree(worker, worker')
      /\ worker.hold => worker'.hold
      /\ ~worker.stopped => worker'.dirty
      /\ Armed(worker')
      /\ ~worker.stopped /\ worker.phase = "idle" => worker'.timer # "none"
  BY SettledEffect DEF IInv, TypeOK, ReplyError
<1>2. TypeOK'
  BY <1>1, FaultType DEF IInv, TypeOK, ReplyError
<1>3. Announced'
  BY <1>1 DEF IInv, ReplyError, Announced
<1>4. Armed(worker)' /\ Closed'
  BY <1>1 DEF IInv, ReplyError, Armed, Closed, Running, Agree, TypeOK, Worker
<1>5. HoldWhileUnresolved'
  BY <1>1 DEF IInv, ReplyError, HoldWhileUnresolved, Agree, TypeOK, Worker
<1>6. Remembered'
  BY <1>1 DEF IInv, ReplyError, Announced, Armed, Remembered, Quiet, Undone, Running, Agree, TypeOK, Worker
<1>7. QED
  BY <1>2, <1>3, <1>4, <1>5, <1>6, Parts

\* A resolved transaction wakes the worker, whose sweep has not run its task yet.
LEMMA ResolveStep ==
  ASSUME IInv, NEW i \in Items, Resolve(i) PROVE IInv'
<1>1. PICK looked \in Worker : looked = [worker EXCEPT !.todo = @ \ {i}]
  BY DEF IInv, TypeOK, Worker
<1>2. Agree([worker EXCEPT !.todo = looked.todo], looked) /\ looked.hold = worker.hold
      /\ looked.dirty = worker.dirty
      /\ looked.timer = worker.timer /\ looked.scheduledAt = worker.scheduledAt
  BY <1>1 DEF IInv, TypeOK, Worker, Agree
<1>3. Armed(looked)
  BY <1>1, <1>2 DEF IInv, Armed, Agree, TypeOK, Worker
<1>4. worker' = looked \/ worker' = Settled(looked, tracked')
  BY <1>1 DEF Resolve
<1>5. /\ worker' \in Worker /\ Agree(looked, worker') /\ Armed(worker')
      /\ looked.hold => worker'.hold
  BY <1>3, <1>4, SettledEffect DEF Agree
<1>6. /\ worker.phase = "reconcile" /\ worker'.phase = "reconcile"
      /\ worker'.stopped = worker.stopped /\ worker'.closed = worker.closed
      /\ worker.hold => worker'.hold
  BY <1>2, <1>5 DEF Resolve, Agree, IInv, TypeOK, Worker
<1>7. TypeOK'
  BY <1>5 DEF IInv, TypeOK, Resolve
<1>8. Announced' /\ HoldWhileUnresolved'
  BY <1>6 DEF IInv, TypeOK, Resolve, Announced, HoldWhileUnresolved
<1>9. Armed(worker)' /\ Closed' /\ Remembered'
  BY <1>5, <1>6 DEF IInv, Closed, Running, Remembered
<1>10. QED
  BY <1>7, <1>8, <1>9, Parts

\* Once the worker is ready it either sweeps or has a deadline.
LEMMA ReadyStep ==
  ASSUME IInv, Ready PROVE IInv'
<1>1. PICK w \in Worker : w = [worker EXCEPT !.ready = TRUE]
  BY DEF IInv, TypeOK, Worker
<1>2. /\ w.phase = worker.phase /\ w.stopped = worker.stopped /\ w.closed = worker.closed
      /\ w.hold = worker.hold /\ w.timer = worker.timer /\ w.dirty = worker.dirty
      /\ w.scheduledAt = worker.scheduledAt /\ w.answer = worker.answer
  BY <1>1 DEF IInv, TypeOK, Worker
<1>3. worker' = Started(w) /\ tracked \subseteq Items
  BY <1>1 DEF Ready, IInv, TypeOK
<1>4. /\ worker' \in Worker
      /\ worker'.hold = worker.hold /\ worker'.stopped = worker.stopped
      /\ worker'.closed = worker.closed
  BY <1>2, <1>3, StartedEffect
<1>5. CASE worker.stopped \/ worker.phase # "idle"
  <2>1. worker' = w
    BY <1>2, <1>3, <1>5, StartedEffect
  <2>2. QED
    BY <1>2, <1>4, <1>5, <2>1 DEF Ready, IInv, TypeOK, Announced, Armed, Closed, Running,
       HoldWhileUnresolved, Remembered, Quiet, Undone
<1>6. CASE ~worker.stopped /\ worker.phase = "idle"
  <2>1. /\ worker'.timer = worker'.scheduledAt
        /\ \/ worker'.phase = "reconcile" /\ worker'.timer = "none"
           \/ worker'.phase = "idle" /\ worker'.timer = "later"
    BY <1>2, <1>3, <1>6, StartedEffect
  <2>2. QED
    BY <1>4, <1>6, <2>1 DEF Ready, IInv, TypeOK, Announced, Armed, Closed, Running,
       HoldWhileUnresolved, Remembered, Quiet, Undone
<1>7. QED
  BY <1>5, <1>6

\* The deadline that has passed is replaced, or its sweep starts.
LEMMA TimerFiresStep ==
  ASSUME IInv, TimerFires PROVE IInv'
<1>1. PICK w \in Worker : w = [worker EXCEPT !.timer = "none"]
  BY DEF IInv, TypeOK, Worker, Deadlines
<1>2. /\ w.phase = "idle" /\ ~w.stopped /\ w.stopped = worker.stopped
      /\ w.closed = worker.closed /\ w.hold = worker.hold
  BY <1>1 DEF TimerFires, IInv, Armed, TypeOK, Worker
<1>3. worker' = Started(w) /\ tracked \subseteq Items
  BY <1>1 DEF TimerFires, IInv, TypeOK
<1>4. /\ worker' \in Worker
      /\ worker'.hold = worker.hold /\ worker'.stopped = worker.stopped
      /\ worker'.closed = worker.closed
      /\ worker'.timer = worker'.scheduledAt
      /\ \/ worker'.phase = "reconcile" /\ worker'.timer = "none"
         \/ worker'.phase = "idle" /\ worker'.timer = "later"
  BY <1>2, <1>3, StartedEffect
<1>5. QED
  BY <1>2, <1>4 DEF TimerFires, IInv, TypeOK, Announced, Armed, Closed, Running,
     HoldWhileUnresolved, Remembered, Quiet, Undone

\* The task is admitted or skipped.
LEMMA AdmitStep ==
  ASSUME IInv, Admit PROVE IInv'
<1>1. TypeOK'
  BY DEF IInv, TypeOK, Admit, Worker, Phases
<1>2. Announced'
  BY DEF IInv, Admit, Announced
<1>3. Armed(worker)' /\ Closed'
  BY DEF IInv, Admit, Armed, Closed, Running, Agree, TypeOK, Worker
<1>4. HoldWhileUnresolved'
  BY DEF IInv, Admit, HoldWhileUnresolved, Agree, TypeOK, Worker
<1>5. Remembered'
  BY DEF IInv, Admit, Announced, Armed, Remembered, Quiet, Undone, Running, Agree, TypeOK, Worker
<1>6. QED
  BY <1>1, <1>2, <1>3, <1>4, <1>5, Parts

\* The task reads the rows to deliver.
LEMMA ScanStep ==
  ASSUME IInv, Scan PROVE IInv'
<1>1. TypeOK'
  BY DEF IInv, TypeOK, Scan, Worker, Phases, Undone
<1>2. Announced'
  BY DEF IInv, Scan, Announced
<1>3. Armed(worker)' /\ Closed'
  BY DEF IInv, Scan, Armed, Closed, Running, Agree, TypeOK, Worker
<1>4. HoldWhileUnresolved'
  BY DEF IInv, Scan, HoldWhileUnresolved, Agree, TypeOK, Worker
<1>5. Remembered'
  BY DEF IInv, Scan, Announced, Armed, Remembered, Quiet, Undone, Running, Agree, TypeOK, Worker
<1>6. QED
  BY <1>1, <1>2, <1>3, <1>4, <1>5, Parts

\* Delivered rows leave the queue.
LEMMA DeliverStep ==
  ASSUME IInv, Deliver PROVE IInv'
<1>1. worker.batch \subseteq Items
  BY DEF IInv, TypeOK, Worker
<1>2. PICK S \in SUBSET Items : done' = done \cup S /\ (UNCHANGED faults \/ Fault)
  BY <1>1 DEF Deliver
<1>3. worker' \in Worker /\ UNCHANGED <<tx, tracked, unsure, admission>>
  BY DEF IInv, TypeOK, Deliver, Worker, Phases
<1>4. TypeOK'
  BY <1>2, <1>3, FaultType DEF IInv, TypeOK
<1>5. worker.phase = "deliver" /\ worker'.phase = "check"
      /\ worker'.stopped = worker.stopped /\ worker'.closed = worker.closed
      /\ worker'.hold = worker.hold /\ worker'.timer = worker.timer
      /\ worker'.scheduledAt = worker.scheduledAt
  BY DEF IInv, TypeOK, Deliver, Worker
<1>6. QED
  BY <1>3, <1>4, <1>5, Parts DEF IInv, Announced, Armed, Closed, HoldWhileUnresolved,
     Remembered, Running

\* The answer on its way accounts for every row that has committed.
LEMMA AskPendingStep ==
  ASSUME IInv, AskPending PROVE IInv'
<1>1. TypeOK'
  BY DEF IInv, TypeOK, AskPending, Worker, Phases
<1>2. Announced'
  BY DEF IInv, AskPending, Announced
<1>3. Armed(worker)' /\ Closed'
  BY DEF IInv, AskPending, Armed, Closed, Running, Agree, TypeOK, Worker
<1>4. HoldWhileUnresolved'
  BY DEF IInv, AskPending, HoldWhileUnresolved, Agree, TypeOK, Worker
<1>5. Remembered'
  BY DEF IInv, AskPending, Announced, Armed, Remembered, Quiet, Undone, Running, Agree, TypeOK, Worker
<1>6. QED
  BY <1>1, <1>2, <1>3, <1>4, <1>5, Parts

\* The hold is let go when nothing is open; otherwise there is a deadline, or dirty.
LEMMA AnsweredStep ==
  ASSUME IInv, Answered PROVE IInv'
<1> DEFINE pending == worker.answer \/ tracked # {}
<1>1. PICK ended \in Worker : ended = [worker EXCEPT !.phase = "finally",
                                         !.pendingWork = pending, !.answer = FALSE]
  BY DEF IInv, TypeOK, Worker, Phases
<1>2. /\ ended.phase = "finally" /\ ended.stopped = worker.stopped
      /\ ended.closed = worker.closed /\ ended.hold = worker.hold
      /\ ended.dirty = worker.dirty /\ ended.timer = worker.timer
      /\ ended.scheduledAt = worker.scheduledAt
  BY <1>1 DEF IInv, TypeOK, Worker
<1>3. Armed(ended)
  BY <1>2 DEF IInv, Armed
<1>4. PICK kept \in Worker : kept = [ended EXCEPT !.hold = FALSE]
  BY DEF Worker
<1>5. Agree(ended, kept) /\ kept.dirty = ended.dirty /\ kept.timer = ended.timer
      /\ kept.scheduledAt = ended.scheduledAt
  BY <1>4 DEF Worker, Agree
<1>6. PICK next \in Worker : next = IF pending THEN Scheduled(ended, "later") ELSE kept
  BY ScheduledEffect
<1>7. /\ Agree(ended, next) /\ next.dirty = worker.dirty /\ Armed(next)
      /\ pending => next.hold = worker.hold
      /\ pending /\ ~worker.stopped => next.timer # "none"
  BY <1>2, <1>3, <1>5, <1>6, ScheduledEffect DEF Agree, Armed
<1>8. worker' = next \/ worker' = Scheduled(next, "later")
  BY <1>1, <1>4, <1>6 DEF Answered
<1>9. /\ worker' \in Worker /\ Agree(ended, worker') /\ worker'.dirty = worker.dirty
      /\ Armed(worker')
      /\ pending => worker'.hold = worker.hold
      /\ pending /\ ~worker.stopped => worker'.timer # "none"
  <2>1. CASE worker' = next
    BY <1>7, <2>1
  <2>2. CASE worker' = Scheduled(next, "later")
    <3>1. /\ worker' \in Worker /\ Agree(next, worker') /\ worker'.dirty = next.dirty
          /\ worker'.hold = next.hold
          /\ next.stopped => worker' = next
          /\ ~next.stopped => worker'.timer # "none" /\ worker'.timer = worker'.scheduledAt
      BY <1>7, <2>2, ScheduledEffect
    <3>2. Agree(ended, worker') /\ next.stopped = worker.stopped /\ next.phase = "finally"
      BY <1>2, <1>7, <3>1 DEF Agree
    <3>3. QED
      BY <1>7, <3>1, <3>2 DEF Agree, Armed
  <2>3. QED
    BY <1>8, <2>1, <2>2
<1>10. TypeOK'
  BY <1>9 DEF IInv, TypeOK, Answered
<1>11. Announced' /\ Armed(worker)' /\ Closed' /\ HoldWhileUnresolved'
  BY <1>2, <1>9 DEF IInv, Answered, Announced, Agree, Closed, Running, HoldWhileUnresolved
<1>12. Remembered'
  BY <1>2, <1>9 DEF IInv, Answered, Announced, Agree, Remembered, Quiet, Undone
<1>13. QED
  BY <1>10, <1>11, <1>12, Parts

\* A sweep that fails leaves a deadline behind.
LEMMA RejectsStep ==
  ASSUME IInv, Rejects PROVE IInv'
<1>1. PICK ended \in Worker : ended = [worker EXCEPT !.phase = "finally", !.todo = {},
                                         !.batch = {}, !.answer = FALSE]
  BY DEF IInv, TypeOK, Worker, Phases
<1>2. /\ ended.phase = "finally" /\ ended.stopped = worker.stopped
      /\ ended.closed = worker.closed /\ ended.hold = worker.hold
      /\ ended.timer = worker.timer /\ ended.scheduledAt = worker.scheduledAt
  BY <1>1 DEF IInv, TypeOK, Worker
<1>3. Armed(ended)
  BY <1>2 DEF IInv, Armed
<1>4. worker' = Scheduled(ended, "later")
  BY <1>1 DEF Rejects
<1>5. /\ worker' \in Worker /\ Agree(ended, worker') /\ worker'.hold = worker.hold
      /\ Armed(worker')
      /\ ~worker.stopped => worker'.timer # "none"
  BY <1>2, <1>3, <1>4, ScheduledEffect DEF Agree, Armed
<1>6. TypeOK'
  BY <1>5, FaultType DEF IInv, TypeOK, Rejects
<1>7. QED
  BY <1>2, <1>5, <1>6, Parts DEF IInv, Rejects, Announced, Agree, Closed, Running,
     HoldWhileUnresolved, Remembered

\* What arrived during the sweep becomes the next deadline.
LEMMA FinallyStep ==
  ASSUME IInv, Finally PROVE IInv'
<1>1. PICK idle \in Worker : idle = [worker EXCEPT !.phase = "idle"]
  BY DEF IInv, TypeOK, Worker, Phases
<1>2. /\ idle.phase = "idle" /\ idle.stopped = worker.stopped /\ idle.ready = worker.ready
      /\ idle.closed = worker.closed /\ idle.hold = worker.hold
      /\ idle.timer = worker.timer /\ idle.scheduledAt = worker.scheduledAt
  BY <1>1 DEF IInv, TypeOK, Worker
<1>3. Armed(idle)
  BY <1>2 DEF IInv, Armed
<1>4. worker' = IF worker.dirty THEN Scheduled(idle, "now") ELSE idle
  BY <1>1 DEF Finally
<1>5. /\ worker' \in Worker /\ Agree(idle, worker') /\ worker'.hold = worker.hold
      /\ Armed(worker')
      /\ ~worker.stopped => \/ worker'.timer # "none"
                            \/ ~worker.dirty /\ worker.timer = "none"
  <2>1. CASE worker.dirty
    BY <1>2, <1>3, <1>4, <2>1, ScheduledEffect DEF Agree, Armed
  <2>2. CASE ~worker.dirty
    BY <1>2, <1>3, <1>4, <2>2 DEF Agree
  <2>3. QED
    BY <2>1, <2>2
<1>6. TypeOK'
  BY <1>5 DEF IInv, TypeOK, Finally
<1>7. QED
  BY <1>2, <1>5, <1>6, Parts DEF IInv, Finally, Announced, Agree, Closed, Running,
     HoldWhileUnresolved, Remembered, Quiet, Undone

\* Stop cancels the deadline for good.
LEMMA StopStep ==
  ASSUME IInv, Stop PROVE IInv'
<1>1. TypeOK'
  BY DEF IInv, TypeOK, Stop, Worker, Deadlines
<1>2. Announced'
  BY DEF IInv, Stop, Announced
<1>3. Armed(worker)' /\ Closed'
  BY DEF IInv, Stop, Armed, Closed, Running, Agree, TypeOK, Worker
<1>4. HoldWhileUnresolved'
  BY DEF IInv, Stop, HoldWhileUnresolved, Agree, TypeOK, Worker
<1>5. Remembered'
  BY DEF IInv, Stop, Announced, Armed, Remembered, Quiet, Undone, Running, Agree, TypeOK, Worker
<1>6. QED
  BY <1>1, <1>2, <1>3, <1>4, <1>5, Parts

\* Stop returns to an idle worker.
LEMMA StopReturnsStep ==
  ASSUME IInv, StopReturns PROVE IInv'
<1>1. TypeOK'
  BY DEF IInv, TypeOK, StopReturns, Worker
<1>2. Announced'
  BY DEF IInv, StopReturns, Announced
<1>3. Armed(worker)' /\ Closed'
  BY DEF IInv, StopReturns, Armed, Closed, Running, Agree, TypeOK, Worker
<1>4. HoldWhileUnresolved'
  BY DEF IInv, StopReturns, HoldWhileUnresolved, Agree, TypeOK, Worker
<1>5. Remembered'
  BY DEF IInv, StopReturns, Announced, Armed, Remembered, Quiet, Undone, Running, Agree, TypeOK, Worker
<1>6. QED
  BY <1>1, <1>2, <1>3, <1>4, <1>5, Parts

\* Every step keeps the invariant.
LEMMA Step == IInv /\ [Next]_vars => IInv'
<1> SUFFICES ASSUME IInv, [Next]_vars PROVE IInv'
  OBVIOUS
<1>1. CASE \E i \in Items : Announce(i) \/ ServerSettles(i) \/ ReplyKnown(i) \/ ReplyError(i)
  BY <1>1, AnnounceStep, ServerSettlesStep, ReplyKnownStep, ReplyErrorStep
<1>2. CASE Wake \/ CloseAdmission \/ OpenAdmission
  BY <1>2, WakeStep, AdmissionStep
<1>3. CASE Ready \/ TimerFires \/ Rejects
  BY <1>3, ReadyStep, TimerFiresStep, RejectsStep
<1>4. CASE Sweep
  BY <1>4, AdmitStep, ScanStep, DeliverStep, AskPendingStep, AnsweredStep, FinallyStep,
     ResolveStep DEF Sweep
<1>5. CASE Stop \/ StopReturns
  BY <1>5, StopStep, StopReturnsStep
<1>6. CASE UNCHANGED vars
  BY <1>6 DEF vars, IInv, TypeOK, Announced, Armed, Closed, HoldWhileUnresolved, Remembered,
     Quiet, Undone, Running
<1>7. QED
  BY <1>1, <1>2, <1>3, <1>4, <1>5, <1>6 DEF Next

\* The invariant holds in every state the coordinator can reach.
THEOREM Invariance == Spec => []IInv
BY Initially, Step, PTL DEF Spec

------------------------------------------------------------------------------
(* What follows.                                                              *)

\* The transactions, the sets and the worker's record keep their types.
THEOREM TypeCorrect == Spec => []TypeOK
<1>1. IInv => TypeOK
  BY DEF IInv
<1>2. QED
  BY Invariance, <1>1, PTL

\* No wake is lost between two sweeps, for any number of transactions and failures.
THEOREM WakeNotLost == Spec => []WorkIsScheduled
<1>1. IInv => WorkIsScheduled
  BY DEF IInv, TypeOK, Remembered, Quiet, WorkIsScheduled, Running
<1>2. QED
  BY Invariance, <1>1, PTL

\* The worker never believes in a deadline that the scheduler has not.
THEOREM DeadlineIsArmed == Spec => []DeadlineArmed
<1>1. IInv => DeadlineArmed
  BY DEF IInv, Armed, DeadlineArmed
<1>2. QED
  BY Invariance, <1>1, PTL

\* An instance that has announced a write and not learnt its outcome is held awake.
THEOREM HeldWhileUnresolved == Spec => []HoldWhileUnresolved
<1>1. IInv => HoldWhileUnresolved
  BY DEF IInv
<1>2. QED
  BY Invariance, <1>1, PTL

\* Nothing is delivered once stop has returned.
THEOREM StoppedForGood == Spec => NothingAfterStop
<1>1. IInv /\ [Next]_vars => [worker.closed => ~Running /\ done' = done]_vars
  <2> SUFFICES ASSUME IInv, Next, worker.closed PROVE ~Running /\ done' = done
    BY DEF vars
  <2>1. ~Running
    BY DEF IInv, Closed
  <2>2. ~Deliver
    BY <2>1 DEF Deliver, Running
  <2>3. QED
    BY <2>1, <2>2 DEF Next, Announce, ServerSettles, ReplyKnown, ReplyError, Wake,
       CloseAdmission, OpenAdmission, Ready, TimerFires, Sweep, Admit, Scan, AskPending,
       Answered, Finally, Resolve, Rejects, Stop, StopReturns
<1>2. QED
  BY Invariance, <1>1, PTL DEF Spec, NothingAfterStop

\* A stopped worker starts no task.
THEOREM NoTaskOnceStopped == Spec => NoTaskAfterStop
<1>1. IInv /\ [Next]_vars
        => [worker.stopped /\ worker.phase # "run" => worker'.phase # "run"]_vars
  <2> SUFFICES ASSUME IInv, Next, worker.stopped, worker.phase # "run"
               PROVE  worker'.phase # "run"
    BY DEF vars
  <2>1. worker \in Worker
    BY DEF IInv, TypeOK
  <2>2. ASSUME NEW w, w.stopped
        PROVE  /\ Scheduled(w, "now") = w /\ Scheduled(w, "later") = w
               /\ Woken(w) = w /\ Started(w) = w
               /\ \A pending : Settled(w, pending) = w
               /\ Intent(w) = w
    BY <2>2 DEF Scheduled, Woken, Started, Settled, Held, Intent
  <2>3. CASE Wake \/ \E i \in Items : \/ Announce(i) \/ ServerSettles(i)
                                      \/ ReplyKnown(i) \/ ReplyError(i)
    BY <2>2, <2>3 DEF Wake, Announce, ServerSettles, ReplyKnown, ReplyError
  <2>4. CASE Ready
    BY <2>1, <2>2, <2>4 DEF Ready, Worker
  <2>5. CASE TimerFires
    BY <2>5 DEF TimerFires, IInv, Armed
  <2>6. CASE \E i \in Items : Resolve(i)
    <3>1. PICK i \in Items : Resolve(i)
      BY <2>6
    <3>2. PICK looked \in Worker : looked = [worker EXCEPT !.todo = @ \ {i}]
      BY <2>1 DEF Worker
    <3>3. looked.stopped /\ looked.phase # "run"
      BY <2>1, <3>2 DEF Worker
    <3>4. worker' = looked
      BY <2>2, <3>1, <3>2, <3>3 DEF Resolve
    <3>5. QED
      BY <3>3, <3>4
  <2>7. CASE Answered
    <3>1. PICK ended \in Worker : ended = [worker EXCEPT !.phase = "finally",
                    !.pendingWork = worker.answer \/ tracked # {}, !.answer = FALSE]
      BY <2>1 DEF Worker, Phases
    <3>2. ended.phase = "finally" /\ ended.stopped
      BY <2>1, <3>1 DEF Worker
    <3>3. PICK kept \in Worker : kept = [ended EXCEPT !.hold = FALSE]
      BY DEF Worker
    <3>4. kept.phase = "finally" /\ kept.stopped
      BY <3>2, <3>3 DEF Worker
    <3>5. PICK next \in {ended, kept} : worker' = next \/ worker' = Scheduled(next, "later")
      <4>1. CASE worker.answer \/ tracked # {}
        BY <2>2, <2>7, <3>1, <3>2, <4>1 DEF Answered
      <4>2. CASE ~(worker.answer \/ tracked # {})
        BY <2>7, <3>1, <3>3, <4>2 DEF Answered
      <4>3. QED
        BY <4>1, <4>2
    <3>6. QED
      BY <2>2, <3>2, <3>4, <3>5
  <2>8. CASE Rejects
    <3>1. PICK ended \in Worker : ended = [worker EXCEPT !.phase = "finally", !.todo = {},
                                             !.batch = {}, !.answer = FALSE]
      BY <2>1 DEF Worker, Phases
    <3>2. ended.phase = "finally" /\ ended.stopped
      BY <2>1, <3>1 DEF Worker
    <3>3. worker' = ended
      BY <2>2, <2>8, <3>1, <3>2 DEF Rejects
    <3>4. QED
      BY <3>2, <3>3
  <2>9. CASE Finally
    <3>1. PICK idle \in Worker : idle = [worker EXCEPT !.phase = "idle"]
      BY <2>1 DEF Worker, Phases
    <3>2. idle.phase = "idle" /\ idle.stopped
      BY <2>1, <3>1 DEF Worker
    <3>3. worker' = idle
      BY <2>2, <2>9, <3>1, <3>2 DEF Finally
    <3>4. QED
      BY <3>2, <3>3
  <2>10. CASE Admit \/ Scan \/ Deliver \/ AskPending
    BY <2>1, <2>10 DEF Admit, Scan, Deliver, AskPending, Worker
  <2>11. CASE CloseAdmission \/ OpenAdmission \/ Stop \/ StopReturns
    BY <2>1, <2>11 DEF CloseAdmission, OpenAdmission, Stop, StopReturns, Worker
  <2>12. QED
    BY <2>3, <2>4, <2>5, <2>6, <2>7, <2>8, <2>9, <2>10, <2>11 DEF Next, Sweep
<1>2. QED
  BY Invariance, <1>1, PTL DEF Spec, NoTaskAfterStop
==============================================================================
