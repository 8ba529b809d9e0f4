--------------------------- MODULE DeliveryRefinement ---------------------------
(***************************************************************************)
(* DeliveryCoordinator implements DeliveryQueue: where the abstract state    *)
(* of a queue is kept in the worker and on the database server.              *)
(***************************************************************************)
EXTENDS DeliveryCoordinator

\* The stage of each row: of a row that is not delivered yet, that of its transaction.
StageOf == [none |-> "absent", open |-> "announced", committed |-> "queued", aborted |-> "void"]
Stage(i) == IF i \in done THEN "delivered" ELSE StageOf[tx[i]]
Stages == [i \in Items |-> Stage(i)]

Service == IF worker.closed THEN "stopped" ELSE IF worker.stopped THEN "stopping" ELSE "running"

Queue == INSTANCE DeliveryQueue WITH row <- Stages,
           unknown <- tracked, busy <- worker.hold, service <- Service, open <- CanRun

\* Sweeps, timers, lost replies, drains and shutdown keep the promise of the queue: a row
\* is delivered once and only after it committed, an outcome is learned only after it was
\* decided, the instance is busy meanwhile, and the queue, left open, makes progress.
ImplementsQueue == Queue!Spec
===============================================================================
