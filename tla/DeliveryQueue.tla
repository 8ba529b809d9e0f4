----------------------------- MODULE DeliveryQueue -----------------------------
(***************************************************************************)
(* What a durable queue promises to its producers and to the host that may   *)
(* put the instance to sleep, without sweeps, timers, or tracked replies:    *)
(* the abstract specification of DeliveryCoordinator.                        *)
(*                                                                          *)
(* A producer announces a row and its transaction ends; what has committed   *)
(* is delivered, each row once.  The instance counts as busy as long as it   *)
(* does not know how a transaction ended.                                    *)
(***************************************************************************)
EXTENDS Naturals

CONSTANT Items

VARIABLES row,      \* row[i]: how far row i has come
          unknown,  \* announced rows whose outcome this process does not know
          busy,     \* the instance must not be put to sleep
          service,  \* stop has been called, has returned
          open      \* the admission of work is open

qvars == <<row, unknown, busy, service, open>>

Init ==
  /\ row \in [Items -> {"absent", "queued"}]
  /\ unknown = {} /\ busy = FALSE /\ service = "running" /\ open \in BOOLEAN

Announce(i) ==
  /\ row[i] = "absent"
  /\ row' = [row EXCEPT ![i] = "announced"]
  /\ unknown' = unknown \cup {i}
  /\ busy' = (busy \/ service = "running")
  /\ UNCHANGED <<service, open>>

\* The transaction ends, and the process learns of it later.
End(i) ==
  /\ row[i] = "announced"
  /\ \E outcome \in {"queued", "void"} : row' = [row EXCEPT ![i] = outcome]
  /\ UNCHANGED <<unknown, busy, service, open>>

\* Never before the transaction has ended.
Learn(i) ==
  /\ i \in unknown /\ row[i] # "announced"
  /\ unknown' = unknown \ {i}
  /\ UNCHANGED <<row, busy, service, open>>

Deliver(S) ==
  /\ service # "stopped" /\ \A i \in S : row[i] = "queued"
  /\ row' = [i \in Items |-> IF i \in S THEN "delivered" ELSE row[i]]
  /\ UNCHANGED <<unknown, busy, service, open>>

Rest ==
  /\ unknown = {} /\ busy' = FALSE
  /\ UNCHANGED <<row, unknown, service, open>>

Gate == open' = ~open /\ UNCHANGED <<row, unknown, busy, service>>

Stop ==
  /\ service = "running" /\ service' = "stopping"
  /\ UNCHANGED <<row, unknown, busy, open>>
Stopped ==
  /\ service = "stopping" /\ service' = "stopped" /\ busy' = FALSE
  /\ UNCHANGED <<row, unknown, open>>

Next == \/ \E i \in Items : Announce(i) \/ End(i) \/ Learn(i)
        \/ \E S \in SUBSET Items : Deliver(S)
        \/ Rest \/ Gate \/ Stop \/ Stopped

\* While the admission stays open and the queue is not stopped: what is queued is
\* delivered, every outcome is learned, and the instance comes to rest.
Progress ==
  <>[]open => /\ \A i \in Items : /\ (row[i] = "queued") ~> (row[i] = "delivered" \/ service # "running")
                                  /\ (i \in unknown) ~> (i \notin unknown \/ service # "running")
              /\ busy ~> ~busy

SafeSpec == Init /\ [][Next]_qvars
Spec     == SafeSpec /\ Progress
===============================================================================
