---------------------------- MODULE AgentStartProofs ----------------------------
(***************************************************************************)
(* Proofs about AgentStart, for any runs, calls, slots and staleness.  The   *)
(* exclusion rests on the order in which calls register: a call follows the  *)
(* one it waits for, and that one follows everybody older.  The slots rest   *)
(* on the exclusion and on what one call may still claim.                    *)
(***************************************************************************)
EXTENDS AgentStart, FiniteSetTheorems, TLAPS

------------------------------------------------------------------------------
(* The inductive invariants.                                                  *)

Older(c, d)  == <<c, d>> \in before
Admitted(d)  == Inside(d) \/ (pc[d] = "waiting" /\ prev[d] = NoCall)

\* The order relates calls that have the lock before them, or have it.
Ordered ==
  \A c, d \in Calls : Older(c, d) =>
    /\ c # d /\ Active(c) /\ Active(d)
    /\ age[c] >= age[d]

\* A call waits for the one registered just before it.
Chained ==
  \A d \in Calls : pc[d] = "waiting" /\ prev[d] # NoCall =>
    /\ Older(prev[d], d)
    /\ \A c \in Calls : Older(c, d) => c = prev[d] \/ Older(c, prev[d])

\* Whoever need not wait has only stale calls before it.
Fenced ==
  \A d \in Calls : Admitted(d) => \A c \in Calls : Older(c, d) => age[c] = Stale

\* The entry is the call registered last; without one, all calls are stale.
LastIsLock ==
  /\ lock = NoCall => \A c \in Calls : Active(c) => age[c] = Stale
  /\ lock # NoCall => /\ Active(lock)
                      /\ \A c \in Calls : Active(c) /\ c # lock => Older(c, lock)

LockInv == Ordered /\ Chained /\ Fenced /\ LastIsLock

\* What a call has claimed was queued once, and only this call has it.
Claimed ==
  /\ \A c \in Calls : ~Inside(c) => slots[c] = 0 /\ got[c] = {}
  /\ \A c \in Calls : pc[c] \in {"entered", "counted"} => got[c] = {}
  /\ \A c \in Calls : pc[c] = "entered" => slots[c] = 0
  /\ \A c \in Calls : \A r \in got[c] : status[r] \notin {"new", "queued"}
  /\ \A c \in Calls : child[c] # NoCall => pc[c] \in {"nested", "nestedAfter"}
  /\ OneClaimer

\* A call alone under the lock claims no more than is left.
Seated ==
  ~overlapped =>
    /\ Cardinality(Occupied) <= MaxConcurrent
    /\ \A c, d \in Calls : Inside(c) /\ Inside(d) => c = d
    /\ \A c \in Calls : Inside(c) =>
         Cardinality(Occupied) + slots[c] <= MaxConcurrent + Cardinality(got[c])

IInv == TypeOK /\ LockInv /\ Claimed /\ Seated

\* The call c is under the lock, or waits for it, exactly as before.
SameAccess(c) ==
  /\ (pc'[c] = "waiting") <=> (pc[c] = "waiting")
  /\ Inside(c)' <=> Inside(c)

------------------------------------------------------------------------------
(* The lock.                                                                  *)

\* A step that touches neither the lock nor anybody's access.
LEMMA LockKept ==
  ASSUME LockInv, TypeOK, UNCHANGED lockVars, \A c \in Calls : SameAccess(c)
  PROVE  LockInv'
<1>1. \A c \in Calls : Active(c)' <=> Active(c)
  BY DEF SameAccess, Active
<1>2. UNCHANGED <<lock, prev, age, before>>
  BY DEF lockVars
<1>3. Ordered'
  BY <1>1, <1>2 DEF LockInv, Ordered, Older
<1>4. Chained'
  BY <1>2 DEF LockInv, Chained, Older, SameAccess, TypeOK
<1>5. Fenced'
  BY <1>2 DEF LockInv, Fenced, Older, SameAccess, Admitted
<1>6. LastIsLock'
  BY <1>1, <1>2 DEF LockInv, LastIsLock, Older, TypeOK
<1>7. QED
  BY <1>3, <1>4, <1>5, <1>6 DEF LockInv

\* A registration puts the call behind everybody else.
LEMMA RegisterStep ==
  ASSUME LockInv, TypeOK, NEW d \in Calls, Register(d), pc'[d] = "waiting",
         \A c \in Calls \ {d} : SameAccess(c)
  PROVE  LockInv'
<1>1. ~Active(d) /\ Active(d)' /\ ~Inside(d)'
  BY DEF Register, Active, Inside, InsidePcs
<1>2. \A c \in Calls \ {d} : Active(c)' <=> Active(c)
  BY DEF SameAccess, Active
<1>3. /\ lock' = d /\ prev' = [prev EXCEPT ![d] = lock] /\ age' = [age EXCEPT ![d] = 0]
      /\ before' = before \cup {<<e, d>> : e \in {c \in Calls : Active(c)}}
  BY DEF Register
<1>4. age \in [Calls -> 0..Stale] /\ prev \in [Calls -> Calls \cup {NoCall}]
      /\ lock \in Calls \cup {NoCall}
  BY DEF TypeOK
<1>5. \A c, e \in Calls : Older(c, e)' <=> Older(c, e) \/ (e = d /\ Active(c))
  BY <1>3 DEF Older
<1>6. \A c \in Calls : ~Older(c, d) /\ ~Older(d, c)
  BY <1>1 DEF LockInv, Ordered
<1>7. Ordered'
  BY <1>1, <1>2, <1>3, <1>4, <1>5, <1>6, BoundAssumption DEF LockInv, Ordered
<1>8. Chained'
  <2>1. SUFFICES ASSUME NEW e \in Calls, pc'[e] = "waiting", prev'[e] # NoCall
                 PROVE  /\ <<prev'[e], e>> \in before'
                        /\ \A c \in Calls : <<c, e>> \in before' =>
                             c = prev'[e] \/ <<c, prev'[e]>> \in before'
    BY DEF Chained, Older
  <2>2. CASE e = d
    <3>1. prev'[d] = lock /\ lock \in Calls /\ Active(lock) /\ lock # d
      BY <1>1, <1>3, <1>4, <2>1, <2>2 DEF LockInv, LastIsLock
    <3>2. \A c \in Calls : Active(c) => c = lock \/ Older(c, lock)
      BY <3>1, CallsAssumption DEF LockInv, LastIsLock
    <3>3. QED
      BY <1>5, <1>6, <2>2, <3>1, <3>2 DEF Older
  <2>3. CASE e # d
    <3>1. prev'[e] = prev[e] /\ prev[e] \in Calls /\ pc[e] = "waiting"
      BY <1>3, <1>4, <2>1, <2>3 DEF SameAccess
    <3>2. Older(prev[e], e) /\ \A c \in Calls : Older(c, e) => c = prev[e] \/ Older(c, prev[e])
      BY <2>1, <3>1 DEF LockInv, Chained
    <3>3. prev[e] # d
      BY <1>6, <3>2, <2>1
    <3>4. QED
      BY <1>5, <2>1, <2>3, <3>1, <3>2, <3>3 DEF Older
  <2>4. QED
    BY <2>2, <2>3
<1>9. Fenced'
  <2>1. SUFFICES ASSUME NEW e \in Calls, Admitted(e)', NEW c \in Calls, Older(c, e)'
                 PROVE  age'[c] = Stale
    BY DEF Fenced
  <2>2. c # d
    BY <1>1, <1>5, <1>6, <2>1
  <2>3. CASE e = d
    BY <1>1, <1>3, <1>4, <1>5, <1>6, <2>1, <2>2, <2>3 DEF Admitted, LockInv, LastIsLock
  <2>4. CASE e # d
    BY <1>3, <1>4, <1>5, <2>1, <2>2, <2>4 DEF Admitted, SameAccess, LockInv, Fenced
  <2>5. QED
    BY <2>3, <2>4
<1>10. LastIsLock'
  BY <1>1, <1>2, <1>3, <1>5, CallsAssumption DEF LastIsLock
<1>11. QED
  BY <1>7, <1>8, <1>9, <1>10 DEF LockInv

\* Leaving the lock: the calls before the leaving one are stale already.
LEMMA ReleaseStep ==
  ASSUME LockInv, TypeOK, NEW d \in Calls, Inside(d), ReleaseLock(d), ~Active(d)',
         \A c \in Calls \ {d} : SameAccess(c)
  PROVE  LockInv'
<1>1. Active(d)
  BY DEF Active
<1>2. \A c \in Calls : Active(c)' <=> Active(c) /\ c # d
  BY DEF SameAccess, Active
<1>3. /\ lock' = IF lock = d THEN NoCall ELSE lock
      /\ prev' = [c \in Calls |-> IF prev[c] = d THEN NoCall ELSE prev[c]]
      /\ age' = [age EXCEPT ![d] = 0]
  BY DEF ReleaseLock
<1>4. age \in [Calls -> 0..Stale] /\ prev \in [Calls -> Calls \cup {NoCall}]
      /\ lock \in Calls \cup {NoCall}
  BY DEF TypeOK
<1>5. \A c, e \in Calls : Older(c, e)' <=> Older(c, e) /\ c # d /\ e # d
  BY DEF Older, ReleaseLock
<1>6. \A c \in Calls : Older(c, d) => age[c] = Stale
  BY DEF LockInv, Fenced, Admitted
<1>7. Ordered'
  BY <1>2, <1>3, <1>4, <1>5 DEF LockInv, Ordered
<1>8. Chained'
  <2>1. SUFFICES ASSUME NEW e \in Calls, pc'[e] = "waiting", prev'[e] # NoCall
                 PROVE  /\ <<prev'[e], e>> \in before'
                        /\ \A c \in Calls : <<c, e>> \in before' =>
                             c = prev'[e] \/ <<c, prev'[e]>> \in before'
    BY DEF Chained, Older
  <2>2. e # d /\ pc[e] = "waiting"
    BY <2>1 DEF SameAccess, Active
  <2>3. prev'[e] = prev[e] /\ prev[e] # d /\ prev[e] \in Calls
    BY <1>3, <1>4, <2>1
  <2>4. Older(prev[e], e) /\ \A c \in Calls : Older(c, e) => c = prev[e] \/ Older(c, prev[e])
    BY <2>1, <2>2, <2>3 DEF LockInv, Chained
  <2>5. QED
    BY <1>5, <2>2, <2>3, <2>4 DEF Older
<1>9. Fenced'
  <2>1. SUFFICES ASSUME NEW e \in Calls, Admitted(e)', NEW c \in Calls, Older(c, e)'
                 PROVE  age'[c] = Stale
    BY DEF Fenced
  <2>2. c # d /\ e # d /\ Older(c, e) /\ age'[c] = age[c]
    BY <1>3, <1>4, <1>5, <2>1
  <2>3. CASE Admitted(e)
    BY <2>1, <2>2, <2>3 DEF LockInv, Fenced
  <2>4. CASE ~Admitted(e)
    <3>1. pc[e] = "waiting" /\ prev[e] = d
      BY <1>3, <2>1, <2>2, <2>4 DEF Admitted, SameAccess
    <3>2. Older(c, d)
      BY <2>2, <3>1, CallsAssumption DEF LockInv, Chained
    <3>3. QED
      BY <1>6, <2>2, <3>2
  <2>5. QED
    BY <2>3, <2>4
<1>10. LastIsLock'
  BY <1>2, <1>3, <1>4, <1>5, <1>6, CallsAssumption DEF LockInv, LastIsLock
<1>11. QED
  BY <1>7, <1>8, <1>9, <1>10 DEF LockInv

\* Entering: the call waited for is stale, and so is everybody before it.
LEMMA EnterStep ==
  ASSUME LockInv, TypeOK, NEW d \in Calls, Enter(d)
  PROVE  LockInv'
<1>1. /\ pc[d] = "waiting" /\ pc' = [pc EXCEPT ![d] = "entered"]
      /\ prev' = [prev EXCEPT ![d] = NoCall]
      /\ UNCHANGED <<lock, age, before>>
  BY DEF Enter
<1>2. pc \in [Calls -> Pcs] /\ prev \in [Calls -> Calls \cup {NoCall}]
      /\ age \in [Calls -> 0..Stale]
  BY DEF TypeOK
<1>3. Inside(d)' /\ ~Inside(d) /\ \A c \in Calls \ {d} : SameAccess(c) /\ prev'[c] = prev[c]
  BY <1>1, <1>2 DEF Inside, InsidePcs, SameAccess
<1>4. \A c \in Calls : Active(c)' <=> Active(c)
  BY <1>1, <1>3 DEF Active, SameAccess
<1>5. \A c \in Calls : Older(c, d) => age[c] = Stale
  <2>1. CASE prev[d] = NoCall
    BY <1>1, <2>1 DEF LockInv, Fenced, Admitted
  <2>2. CASE prev[d] # NoCall
    <3>1. age[prev[d]] = Stale /\ prev[d] \in Calls
      BY <1>2, <2>2 DEF Enter, MayEnter
    <3>2. \A c \in Calls : Older(c, d) => c = prev[d] \/ Older(c, prev[d])
      BY <1>1, <2>2 DEF LockInv, Chained
    <3>3. \A c \in Calls : Older(c, prev[d]) => age[c] >= Stale
      BY <3>1 DEF LockInv, Ordered
    <3>4. QED
      BY <1>2, <3>1, <3>2, <3>3, BoundAssumption
  <2>3. QED
    BY <2>1, <2>2
<1>6. Ordered'
  BY <1>1, <1>4 DEF LockInv, Ordered, Older
<1>7. Chained'
  BY <1>1, <1>2, <1>3 DEF LockInv, Chained, Older, SameAccess
<1>8. Fenced'
  BY <1>1, <1>3, <1>5 DEF LockInv, Fenced, Older, Admitted, SameAccess
<1>9. LastIsLock'
  BY <1>1, <1>4 DEF LockInv, LastIsLock, Older, TypeOK
<1>10. QED
  BY <1>6, <1>7, <1>8, <1>9 DEF LockInv

\* Ages grow together, up to Stale.
LEMMA TickStep ==
  ASSUME LockInv, TypeOK, Tick
  PROVE  LockInv'
<1>1. /\ \A c \in Calls : age'[c] = IF Active(c) /\ age[c] < Stale THEN age[c] + 1 ELSE age[c]
      /\ UNCHANGED <<pc, lock, prev, before>>
  BY DEF Tick
<1>2. age \in [Calls -> 0..Stale]
  BY DEF TypeOK
<1>3. \A c \in Calls : age[c] = Stale => age'[c] = Stale
  BY <1>1, <1>2, BoundAssumption
<1>4. Ordered'
  BY <1>1, <1>2, BoundAssumption DEF LockInv, Ordered, Older, Active, Inside
<1>5. Chained'
  BY <1>1 DEF LockInv, Chained, Older
<1>6. Fenced'
  BY <1>1, <1>3 DEF LockInv, Fenced, Older, Admitted, Inside
<1>7. LastIsLock'
  BY <1>1, <1>3 DEF LockInv, LastIsLock, Older, Active, Inside
<1>8. QED
  BY <1>4, <1>5, <1>6, <1>7 DEF LockInv

------------------------------------------------------------------------------
(* The slots.                                                                 *)

LEMMA OccupiedFinite ==
  IsFiniteSet(Occupied) /\ Cardinality(Occupied) \in Nat
<1>1. IsFiniteSet(Occupied)
  BY RunsAssumption, FS_Subset DEF Occupied
<1>2. QED
  BY <1>1, FS_CardinalityType

\* What a call has claimed is a finite set of runs.
LEMMA GotFinite ==
  ASSUME TypeOK, NEW c \in Calls
  PROVE  IsFiniteSet(got[c]) /\ Cardinality(got[c]) \in Nat
<1>1. got[c] \subseteq Runs
  BY DEF TypeOK
<1>2. IsFiniteSet(got[c])
  BY <1>1, RunsAssumption, FS_Subset
<1>3. QED
  BY <1>2, FS_CardinalityType

\* A step that claims nothing and lets nobody under the lock.
LEMMA SeatedKept ==
  ASSUME TypeOK, Seated, overlapped' = overlapped,
         Occupied' \subseteq Occupied,
         \A c \in Calls : Inside(c)' => Inside(c) /\ slots'[c] = slots[c] /\ got'[c] = got[c]
  PROVE  Seated'
<1>1. IsFiniteSet(Occupied') /\ Cardinality(Occupied') <= Cardinality(Occupied)
  BY OccupiedFinite, FS_Subset
<1>2. Cardinality(Occupied') \in Nat /\ Cardinality(Occupied) \in Nat
  BY <1>1, OccupiedFinite, FS_CardinalityType
<1>3. \A c \in Calls : slots[c] \in Nat /\ Cardinality(got[c]) \in Nat
  BY GotFinite, BoundAssumption DEF TypeOK
<1>4. QED
  BY <1>1, <1>2, <1>3, BoundAssumption DEF Seated

\* A claim takes a slot that the call still has.
LEMMA SeatedByClaim ==
  ASSUME TypeOK, Claimed, Seated, NEW c \in Calls, NEW r \in Runs, ClaimRun(c, r)
  PROVE  Seated'
<1>1. /\ pc[c] = "claiming" /\ Cardinality(got[c]) < slots[c]
      /\ status[r] = "queued"
      /\ status' = [status EXCEPT ![r] = "claimed"]
      /\ got' = [got EXCEPT ![c] = @ \cup {r}]
      /\ UNCHANGED <<pc, slots, overlapped>>
  BY DEF ClaimRun, Tries
<1>2. Occupied' = Occupied \cup {r} /\ r \notin Occupied
  BY <1>1 DEF Occupied, TypeOK
<1>3. Cardinality(Occupied') = Cardinality(Occupied) + 1
  BY <1>2, OccupiedFinite, FS_AddElement
<1>4. got'[c] = got[c] \cup {r} /\ r \notin got[c] /\ \A d \in Calls \ {c} : got'[d] = got[d]
  BY <1>1 DEF Claimed, TypeOK
<1>5. Cardinality(got'[c]) = Cardinality(got[c]) + 1
  BY <1>4, GotFinite, FS_AddElement
<1>6. Inside(c) /\ \A d \in Calls : Inside(d)' <=> Inside(d)
  BY <1>1 DEF Inside, InsidePcs
<1>7. Cardinality(Occupied) \in Nat /\ Cardinality(got[c]) \in Nat /\ slots[c] \in Nat
  BY OccupiedFinite, GotFinite, BoundAssumption DEF TypeOK
<1>8. SUFFICES ASSUME ~overlapped' PROVE Seated'
  BY DEF Seated
<1>9. /\ Cardinality(Occupied) + slots[c] <= MaxConcurrent + Cardinality(got[c])
      /\ \A d, e \in Calls : Inside(d) /\ Inside(e) => d = e
  BY <1>1, <1>6, <1>8 DEF Seated
<1>10. Cardinality(Occupied') <= MaxConcurrent
  BY <1>1, <1>3, <1>7, <1>9, BoundAssumption
<1>11. \A d, e \in Calls : Inside(d)' /\ Inside(e)' => d = e
  BY <1>6, <1>9
<1>12. \A d \in Calls : Inside(d)' => d = c
  BY <1>6, <1>9
<1>13. Cardinality(Occupied') + slots'[c] <= MaxConcurrent + Cardinality(got'[c])
  BY <1>1, <1>3, <1>5, <1>7, <1>9, BoundAssumption
<1>14. QED
  BY <1>10, <1>11, <1>12, <1>13 DEF Seated

\* A call that counts has claimed nothing yet.
LEMMA SeatedByCount ==
  ASSUME TypeOK, Claimed, Seated, NEW c \in Calls, Count(c)
  PROVE  Seated'
<1>1. /\ pc[c] = "entered" /\ slots' = [slots EXCEPT ![c] = FreeSlots]
      /\ pc' = [pc EXCEPT ![c] = IF FreeSlots = 0 THEN "claiming" ELSE "counted"]
      /\ UNCHANGED <<status, got, overlapped>>
  BY DEF Count
<1>2. Inside(c) /\ \A d \in Calls : Inside(d)' <=> Inside(d)
  BY <1>1 DEF Inside, InsidePcs, TypeOK
<1>3. got[c] = {} /\ Cardinality(got[c]) = 0
  BY <1>1, FS_EmptySet DEF Claimed
<1>4. Occupied' = Occupied
  BY <1>1 DEF Occupied
<1>5. Cardinality(Occupied) \in Nat
  BY OccupiedFinite
<1>6. SUFFICES ASSUME ~overlapped' PROVE Seated'
  BY DEF Seated
<1>7. Cardinality(Occupied) <= MaxConcurrent /\ \A d, e \in Calls : Inside(d) /\ Inside(e) => d = e
  BY <1>1, <1>6 DEF Seated
<1>8. \A d \in Calls : Inside(d)' => d = c
  BY <1>2, <1>7
<1>9. slots'[c] = FreeSlots
  BY <1>1 DEF TypeOK
<1>10. Cardinality(Occupied) + FreeSlots <= MaxConcurrent
  BY <1>5, <1>7, BoundAssumption DEF FreeSlots
<1>11. Cardinality(Occupied') + slots'[c] <= MaxConcurrent + Cardinality(got'[c])
  BY <1>1, <1>3, <1>4, <1>5, <1>9, <1>10, BoundAssumption DEF FreeSlots
<1>12. QED
  BY <1>2, <1>4, <1>7, <1>8, <1>11 DEF Seated

\* Whoever enters alone finds nothing reserved.
LEMMA SeatedByEntry ==
  ASSUME TypeOK, Claimed, Seated, NEW c \in Calls, Enter(c)
  PROVE  Seated'
<1>1. /\ pc[c] = "waiting" /\ pc' = [pc EXCEPT ![c] = "entered"]
      /\ overlapped' = (overlapped \/ \E d \in Calls : Inside(d))
      /\ UNCHANGED <<status, slots, got>>
  BY DEF Enter, workVars
<1>2. ~Inside(c) /\ \A d \in Calls \ {c} : Inside(d)' <=> Inside(d)
  BY <1>1 DEF Inside, InsidePcs, TypeOK
<1>3. slots[c] = 0 /\ got[c] = {} /\ Cardinality(got[c]) = 0
  BY <1>2, FS_EmptySet DEF Claimed
<1>4. Occupied' = Occupied /\ Cardinality(Occupied) \in Nat
  BY <1>1, OccupiedFinite DEF Occupied
<1>5. SUFFICES ASSUME ~overlapped' PROVE Seated'
  BY DEF Seated
<1>6. Cardinality(Occupied) <= MaxConcurrent /\ \A d \in Calls : Inside(d)' => d = c
  BY <1>1, <1>2, <1>5 DEF Seated
<1>7. QED
  BY <1>1, <1>3, <1>4, <1>6, BoundAssumption DEF Seated

------------------------------------------------------------------------------
(* The steps.                                                                 *)

\* A call that registers, whoever makes it.
LEMMA CallerStep ==
  ASSUME IInv, NEW c \in Calls, NEW d \in Calls,
         StartCall(d) \/ (d = Sweep /\ StartSweep) \/ StartNested(c, d)
  PROVE  IInv'
<1>1. /\ Register(d)
      /\ UNCHANGED <<status, gate, workVars, faults, overlapped>>
  BY DEF StartCall, StartSweep, StartNested
<1>2. /\ pc[d] = "idle" /\ pc'[d] = "waiting"
      /\ \/ pc' = [pc EXCEPT ![d] = "waiting"] /\ UNCHANGED child
         \/ /\ pc[c] = "cancelled" /\ child' = [child EXCEPT ![c] = d]
            /\ pc' = [pc EXCEPT ![d] = "waiting", ![c] = "nested"]
         \/ /\ pc[c] = "cancelledAfter" /\ child' = [child EXCEPT ![c] = d]
            /\ pc' = [pc EXCEPT ![d] = "waiting", ![c] = "nestedAfter"]
  BY DEF IInv, TypeOK, StartCall, StartSweep, StartNested, Register
<1>3. \A e \in Calls \ {d} : SameAccess(e)
  BY <1>2 DEF IInv, TypeOK, SameAccess, Inside, InsidePcs
<1>4. ~Inside(d)' /\ ~Inside(d)
  BY <1>2 DEF Inside, InsidePcs
<1>5. TypeOK'
  <2>1. pc' \in [Calls -> Pcs] /\ child' \in [Calls -> Calls \cup {NoCall}]
    BY <1>2 DEF IInv, TypeOK, Pcs, InsidePcs
  <2>2. /\ prev' \in [Calls -> Calls \cup {NoCall}] /\ age' \in [Calls -> 0..Stale]
        /\ lock' \in Calls \cup {NoCall} /\ before' \subseteq Calls \X Calls
        /\ threw' \in [Calls -> BOOLEAN]
    BY <1>1, BoundAssumption DEF IInv, TypeOK, Register
  <2>3. starts' \in Nat
    BY DEF IInv, TypeOK, StartCall, StartSweep, StartNested
  <2>4. QED
    BY <1>1, <2>1, <2>2, <2>3 DEF IInv, TypeOK, workVars
<1>6. LockInv'
  BY <1>1, <1>2, <1>3, RegisterStep DEF IInv
<1>7. Claimed'
  <2>1. UNCHANGED <<status, slots, got>>
    BY <1>1 DEF workVars
  <2>2. \A e \in Calls : Inside(e)' <=> Inside(e)
    BY <1>3, <1>4 DEF SameAccess
  <2>3. \A e \in Calls : pc'[e] \in {"entered", "counted"} => pc'[e] = pc[e]
    BY <1>2 DEF IInv, TypeOK
  <2>4. \A e \in Calls : child'[e] # NoCall => pc'[e] \in {"nested", "nestedAfter"}
    BY <1>2 DEF IInv, TypeOK, Claimed
  <2>5. QED
    BY <2>1, <2>2, <2>3, <2>4 DEF IInv, Claimed, OneClaimer
<1>8. Seated'
  <2>1. Occupied' \subseteq Occupied
    BY <1>1 DEF Occupied
  <2>2. \A e \in Calls : Inside(e)' => Inside(e) /\ slots'[e] = slots[e] /\ got'[e] = got[e]
    BY <1>1, <1>3, <1>4 DEF SameAccess, workVars
  <2>3. QED
    BY <1>1, <2>1, <2>2, SeatedKept DEF IInv
<1>9. QED
  BY <1>5, <1>6, <1>7, <1>8 DEF IInv

\* Entering the lock, and the clock.
LEMMA AccessStep ==
  ASSUME IInv, NEW c \in Calls, Enter(c) \/ Tick
  PROVE  IInv'
<1>1. CASE Enter(c)
  <2>1. TypeOK'
    BY <1>1 DEF IInv, TypeOK, Enter, workVars, Pcs, InsidePcs
  <2>2. Claimed'
    <3>1. UNCHANGED <<status, slots, got, child>> /\ pc' = [pc EXCEPT ![c] = "entered"]
          /\ pc[c] = "waiting"
      BY <1>1 DEF Enter, workVars
    <3>2. ~Inside(c) /\ Inside(c)' /\ \A d \in Calls \ {c} : pc'[d] = pc[d] /\ (Inside(d)' <=> Inside(d))
      BY <3>1 DEF IInv, TypeOK, Inside, InsidePcs
    <3>3. QED
      BY <3>1, <3>2 DEF IInv, Claimed, OneClaimer
  <2>3. QED
    BY <1>1, <2>1, <2>2, EnterStep, SeatedByEntry DEF IInv
<1>2. CASE Tick
  <2>1. age' \in [Calls -> 0..Stale]
    BY <1>2, BoundAssumption DEF IInv, TypeOK, Tick
  <2>2. UNCHANGED <<status, gate, pc, lock, prev, before, slots, todo, got, rejected,
                    child, threw, starts, faults, overlapped>>
    BY <1>2 DEF Tick, workVars
  <2>3. TypeOK'
    BY <2>1, <2>2 DEF IInv, TypeOK
  <2>4. Claimed'
    BY <2>2 DEF IInv, Claimed, OneClaimer, Inside
  <2>5. Seated'
    BY <2>2 DEF IInv, Seated, Occupied, Inside
  <2>6. QED
    BY <1>2, <2>3, <2>4, <2>5, TickStep DEF IInv
<1>3. QED
  BY <1>1, <1>2

\* What a call does with its slots.
LEMMA ClaimStep ==
  ASSUME IInv, NEW c \in Calls, NEW r,
         \/ Count(c) \/ ReadQueue(c) \/ Fault(c)
         \/ /\ r \in Runs
            /\ ClaimRun(c, r) \/ PassOver(c, r) \/ Refuse(c, r) \/ CancelHeld(c, r)
  PROVE  IInv'
<1>1. /\ pc[c] \in {"entered", "counted", "claiming"}
      /\ UNCHANGED <<gate, lockVars, child, threw, starts, overlapped>>
  BY DEF Count, ReadQueue, ClaimRun, PassOver, Refuse, CancelHeld, Fault, Tries, workVars
<1>2. PICK p \in InsidePcs : /\ pc' = [pc EXCEPT ![c] = p]
                             /\ p # "entered" \/ pc' = pc
                             /\ p = "counted" => pc[c] = "entered" /\ Count(c)
  <2>1. CASE Count(c) \/ ReadQueue(c) \/ CancelHeld(c, r) \/ Fault(c)
    BY <2>1 DEF Count, ReadQueue, CancelHeld, Fault, InsidePcs
  <2>2. CASE ClaimRun(c, r) \/ PassOver(c, r) \/ Refuse(c, r)
    <3>1. pc' = [pc EXCEPT ![c] = "claiming"]
      BY <2>2 DEF ClaimRun, PassOver, Refuse, Tries, IInv, TypeOK
    <3>2. QED
      BY <3>1 DEF InsidePcs
  <2>3. QED
    BY <2>1, <2>2
<1>3. \A d \in Calls : SameAccess(d)
  BY <1>1, <1>2 DEF IInv, TypeOK, SameAccess, Inside, InsidePcs
<1>4. /\ ClaimRun(c, r) => r \in Runs
      /\ slots' = slots \/ slots' = [slots EXCEPT ![c] = FreeSlots]
      /\ \/ status' = status
         \/ status' = [status EXCEPT ![r] = "claimed"]
         \/ status' = [status EXCEPT ![r] = "ended"] /\ Live(r)
      /\ got' = got \/ ClaimRun(c, r)
  <2>1. CASE Count(c) \/ ReadQueue(c) \/ Fault(c)
    BY <2>1 DEF Count, ReadQueue, ClaimRun, Fault, Tries, IInv, TypeOK, workVars
  <2>2. CASE /\ r \in Runs
             /\ ClaimRun(c, r) \/ PassOver(c, r) \/ Refuse(c, r) \/ CancelHeld(c, r)
    BY <2>2 DEF ClaimRun, PassOver, Refuse, CancelHeld
  <2>3. QED
    BY <2>1, <2>2
<1>5. TypeOK'
  <2>1. FreeSlots \in 0..MaxConcurrent
    BY OccupiedFinite, BoundAssumption DEF FreeSlots
  <2>2. slots' \in [Calls -> 0..MaxConcurrent]
    BY <1>4, <2>1 DEF IInv, TypeOK
  <2>3. status' \in [Runs -> {"new", "queued", "claimed", "running", "ended"}]
    <3>1. status \in [Runs -> {"new", "queued", "claimed", "running", "ended"}]
      BY DEF IInv, TypeOK
    <3>2. QED
      BY <1>4, <3>1
  <2>4. todo' \in [Calls -> SUBSET Runs] /\ rejected' \in [Calls -> SUBSET Runs]
        /\ got' \in [Calls -> SUBSET Runs] /\ faults' \in Nat
    BY <1>4 DEF IInv, TypeOK, Count, ReadQueue, ClaimRun, PassOver, Refuse, CancelHeld, Fault,
           workVars, QueuedRuns
  <2>5. pc' \in [Calls -> Pcs]
    BY <1>2 DEF IInv, TypeOK, Pcs
  <2>6. QED
    BY <1>1, <2>2, <2>3, <2>4, <2>5 DEF IInv, TypeOK, lockVars
<1>6. LockInv'
  BY <1>1, <1>3, LockKept DEF IInv
<1>7. Claimed'
  <2>1. \A d \in Calls \ {c} : slots'[d] = slots[d] /\ got'[d] = got[d] /\ pc'[d] = pc[d]
    BY <1>2, <1>4 DEF IInv, TypeOK, ClaimRun
  <2>2. Inside(c) /\ Inside(c)' /\ \A d \in Calls \ {c} : Inside(d)' <=> Inside(d)
    BY <1>1, <1>3 DEF Inside, InsidePcs, SameAccess
  <2>3. pc[c] \notin {"nested", "nestedAfter"}
    BY <1>1
  <2>4. \A q \in Runs : status[q] \notin {"new", "queued"} => status'[q] \notin {"new", "queued"}
    BY <1>4 DEF IInv, TypeOK
  <2>5. pc'[c] = p
    BY <1>2 DEF IInv, TypeOK
  <2>6. pc'[c] \in {"entered", "counted"} => got'[c] = {}
    <3>1. CASE pc'[c] = "entered"
      <4>1. pc' = pc
        BY <1>2, <2>5, <3>1
      <4>2. ~ClaimRun(c, r)
        BY <3>1, <4>1 DEF ClaimRun, Tries
      <4>3. QED
        BY <1>4, <3>1, <4>1, <4>2 DEF IInv, Claimed
    <3>2. CASE pc'[c] = "counted"
      BY <1>2, <2>5, <3>2 DEF Count, IInv, Claimed
    <3>3. QED
      BY <3>1, <3>2
  <2>7. pc'[c] = "entered" => slots'[c] = 0
    <3>1. SUFFICES ASSUME pc'[c] = "entered" PROVE slots'[c] = 0
      OBVIOUS
    <3>2. pc' = pc
      BY <1>2, <2>5, <3>1
    <3>3. ~Count(c)
      BY <3>1, <3>2 DEF Count, IInv, TypeOK
    <3>4. slots' = slots
      BY <3>3 DEF ReadQueue, ClaimRun, PassOver, Refuse, CancelHeld, Fault, workVars
    <3>5. QED
      BY <3>1, <3>2, <3>4 DEF IInv, Claimed
  <2>8. CASE got' = got
    <3>1. OneClaimer'
      BY <2>8 DEF IInv, Claimed, OneClaimer
    <3>2. \A d \in Calls : got[d] \subseteq Runs
      BY DEF IInv, TypeOK
    <3>3. \A d \in Calls : \A q \in got'[d] : status'[q] \notin {"new", "queued"}
      BY <2>4, <2>8, <3>2 DEF IInv, Claimed
    <3>4. QED
      BY <1>1, <2>1, <2>2, <2>3, <2>6, <2>7, <3>1, <3>3 DEF IInv, Claimed
  <2>9. CASE ClaimRun(c, r)
    <3>1. got' = [got EXCEPT ![c] = @ \cup {r}] /\ status[r] = "queued"
          /\ status' = [status EXCEPT ![r] = "claimed"]
      BY <2>9 DEF ClaimRun
    <3>2. got'[c] = got[c] \cup {r} /\ \A d \in Calls : r \notin got[d]
      BY <3>1 DEF IInv, TypeOK, Claimed
    <3>3. OneClaimer'
      BY <2>1, <3>2 DEF IInv, Claimed, OneClaimer
    <3>4. \A d \in Calls : got[d] \subseteq Runs
      BY DEF IInv, TypeOK
    <3>5. status'[r] = "claimed"
      BY <1>4, <2>9, <3>1 DEF IInv, TypeOK
    <3>6. \A d \in Calls : \A q \in got'[d] : status'[q] \notin {"new", "queued"}
      BY <2>1, <2>4, <3>2, <3>4, <3>5 DEF IInv, Claimed
    <3>7. QED
      BY <1>1, <2>1, <2>2, <2>3, <2>6, <2>7, <3>3, <3>6 DEF IInv, Claimed
  <2>10. QED
    BY <1>4, <2>8, <2>9
<1>8. Seated'
  <2>1. CASE Count(c)
    BY <2>1, SeatedByCount DEF IInv
  <2>2. CASE ClaimRun(c, r)
    BY <1>4, <2>2, SeatedByClaim DEF IInv
  <2>3. CASE ~Count(c) /\ ~ClaimRun(c, r)
    <3>1. UNCHANGED <<slots, got>> /\ (status' = status \/ status' = [status EXCEPT ![r] = "ended"])
      BY <2>3 DEF ReadQueue, PassOver, Refuse, CancelHeld, Fault, workVars
    <3>2. Occupied' \subseteq Occupied
      BY <3>1 DEF IInv, TypeOK, Occupied
    <3>3. QED
      BY <1>1, <1>3, <3>1, <3>2, SeatedKept DEF IInv, SameAccess
  <2>4. QED
    BY <2>1, <2>2, <2>3
<1>9. QED
  BY <1>5, <1>6, <1>7, <1>8 DEF IInv

\* Leaving the lock, with the claims executed or abandoned.
LEMMA LeaveStep ==
  ASSUME IInv, NEW c \in Calls, Finish(c) \/ Abort(c)
  PROVE  IInv'
<1>1. /\ pc[c] \in {"claiming", "aborting"} /\ pc' = [pc EXCEPT ![c] = "settling"]
      /\ todo' = [todo EXCEPT ![c] = {}] /\ got' = [got EXCEPT ![c] = {}]
      /\ slots' = [slots EXCEPT ![c] = 0]
      /\ ReleaseLock(c)
      /\ UNCHANGED <<gate, rejected, child, starts, faults, overlapped>>
  BY DEF Finish, Abort
<1>2. /\ Inside(c) /\ ~Inside(c)' /\ ~Active(c)'
      /\ \A d \in Calls \ {c} : SameAccess(d) /\ pc'[d] = pc[d] /\ (Inside(d)' <=> Inside(d))
      /\ pc'[c] = "settling"
  BY <1>1 DEF IInv, TypeOK, Inside, InsidePcs, Active, SameAccess
<1>3. \A q \in Runs :
        \/ status'[q] = status[q]
        \/ status[q] = "claimed" /\ status'[q] = "running"
  <2>1. CASE Finish(c)
    BY <2>1 DEF Finish
  <2>2. CASE Abort(c)
    BY <2>2 DEF Abort
  <2>3. QED
    BY <2>1, <2>2
<1>4. TypeOK'
  <2>1. /\ prev' \in [Calls -> Calls \cup {NoCall}] /\ age' \in [Calls -> 0..Stale]
        /\ lock' \in Calls \cup {NoCall} /\ before' \subseteq Calls \X Calls
    BY <1>1, BoundAssumption DEF IInv, TypeOK, ReleaseLock
  <2>2. status' \in [Runs -> {"new", "queued", "claimed", "running", "ended"}]
    BY DEF IInv, TypeOK, Finish, Abort
  <2>3. threw' \in [Calls -> BOOLEAN]
    BY DEF IInv, TypeOK, Finish, Abort
  <2>4. pc' \in [Calls -> Pcs] /\ slots' \in [Calls -> 0..MaxConcurrent]
    BY <1>1, BoundAssumption DEF IInv, TypeOK, Pcs
  <2>5. todo' \in [Calls -> SUBSET Runs] /\ got' \in [Calls -> SUBSET Runs]
    BY <1>1 DEF IInv, TypeOK
  <2>6. QED
    BY <1>1, <2>1, <2>2, <2>3, <2>4, <2>5 DEF IInv, TypeOK
<1>5. LockInv'
  BY <1>1, <1>2, ReleaseStep DEF IInv
<1>6. /\ got'[c] = {} /\ slots'[c] = 0
      /\ \A d \in Calls \ {c} : got'[d] = got[d] /\ slots'[d] = slots[d]
  BY <1>1 DEF IInv, TypeOK
<1>7. Claimed'
  <2>1. OneClaimer'
    BY <1>6 DEF IInv, Claimed, OneClaimer
  <2>2. \A d \in Calls : got[d] \subseteq Runs
    BY DEF IInv, TypeOK
  <2>3. \A d \in Calls : \A q \in got'[d] : status'[q] \notin {"new", "queued"}
    BY <1>3, <1>6, <2>2 DEF IInv, Claimed
  <2>4. QED
    BY <1>1, <1>2, <1>6, <2>1, <2>3 DEF IInv, Claimed
<1>8. Seated'
  <2>1. Occupied' \subseteq Occupied
    BY <1>3 DEF Occupied
  <2>2. QED
    BY <1>1, <1>2, <1>6, <2>1, SeatedKept DEF IInv
<1>9. QED
  BY <1>4, <1>5, <1>7, <1>8 DEF IInv

\* What follows the lock, and whoever awaits it.
LEMMA SettleStep ==
  ASSUME IInv, NEW c \in Calls, Return(c) \/ \E r \in Runs : CancelRejected(c, r)
  PROVE  IInv'
<1>1. UNCHANGED <<gate, lockVars, slots, todo, got, threw, starts, faults, overlapped>>
      /\ pc[c] = "settling"
  BY DEF Return, CancelRejected, workVars
<1>2. /\ pc' \in [Calls -> Pcs]
      /\ \A d \in Calls : SameAccess(d)
      /\ \A d \in Calls : pc'[d] \in {"entered", "counted"} => pc'[d] = pc[d]
      /\ child' \in [Calls -> Calls \cup {NoCall}]
      /\ \A d \in Calls : child'[d] # NoCall => pc'[d] \in {"nested", "nestedAfter"}
  <2>1. CASE Return(c)
    <3>1. /\ pc' = [d \in Calls |->
                      IF d = c THEN "idle"
                      ELSE IF child[d] # c THEN pc[d]
                      ELSE IF pc[d] = "nestedAfter" THEN "settling"
                      ELSE IF threw[c] THEN "aborting" ELSE "claiming"]
          /\ child' = [d \in Calls |-> IF child[d] = c THEN NoCall ELSE child[d]]
      BY <2>1 DEF Return
    <3>2. \A d \in Calls : child[d] # NoCall => pc[d] \in {"nested", "nestedAfter"}
      BY DEF IInv, Claimed
    <3>3. child \in [Calls -> Calls \cup {NoCall}] /\ pc \in [Calls -> Pcs]
      BY DEF IInv, TypeOK
    <3>4. c # NoCall
      BY CallsAssumption
    <3>5. pc' \in [Calls -> Pcs] /\ child' \in [Calls -> Calls \cup {NoCall}]
      BY <3>1, <3>3 DEF Pcs, InsidePcs
    <3>6. ASSUME NEW d \in Calls
          PROVE  /\ SameAccess(d) /\ (pc'[d] \in {"entered", "counted"} => pc'[d] = pc[d])
                 /\ child'[d] # NoCall => pc'[d] \in {"nested", "nestedAfter"}
      BY <1>1, <3>1, <3>2, <3>4 DEF SameAccess, Inside, InsidePcs
    <3>7. QED
      BY <3>5, <3>6
  <2>2. CASE \E r \in Runs : CancelRejected(c, r)
    <3>1. UNCHANGED child /\ (pc' = pc \/ pc' = [pc EXCEPT ![c] = "cancelledAfter"])
      BY <2>2 DEF CancelRejected
    <3>2. QED
      BY <1>1, <3>1 DEF IInv, TypeOK, Claimed, SameAccess, Inside, InsidePcs, Pcs
  <2>3. QED
    BY <2>1, <2>2
<1>3. \A q \in Runs : status'[q] = status[q] \/ status'[q] = "ended"
  BY DEF Return, CancelRejected, IInv, TypeOK
<1>4. TypeOK'
  <2>1. status' \in [Runs -> {"new", "queued", "claimed", "running", "ended"}]
        /\ rejected' \in [Calls -> SUBSET Runs]
    BY DEF Return, CancelRejected, IInv, TypeOK, workVars
  <2>2. QED
    BY <1>1, <1>2, <2>1 DEF IInv, TypeOK, lockVars
<1>5. LockInv'
  BY <1>1, <1>2, LockKept DEF IInv
<1>6. Claimed'
  <2>1. \A d \in Calls : got[d] \subseteq Runs
    BY DEF IInv, TypeOK
  <2>2. \A d \in Calls : \A q \in got'[d] : status'[q] \notin {"new", "queued"}
    BY <1>1, <1>3, <2>1 DEF IInv, Claimed
  <2>3. QED
    BY <1>1, <1>2, <2>2 DEF IInv, Claimed, OneClaimer, SameAccess
<1>7. Seated'
  <2>1. Occupied' \subseteq Occupied
    BY <1>3 DEF Occupied
  <2>2. QED
    BY <1>1, <1>2, <2>1, SeatedKept DEF IInv, SameAccess
<1>8. QED
  BY <1>4, <1>5, <1>6, <1>7 DEF IInv

\* What happens to the runs in the meantime.
LEMMA RunsStep ==
  ASSUME IInv, NEW r \in Runs, Enqueue(r) \/ HoldRun(r) \/ RunStep(r)
  PROVE  IInv'
<1>1. UNCHANGED <<pc, lockVars, slots, todo, got, rejected, child, threw, starts, faults,
                  overlapped>>
  BY DEF Enqueue, HoldRun, RunStep, EndRun, ReapRun, ClearRun, workVars
<1>2. \/ status' = status
      \/ status' = [status EXCEPT ![r] = "ended"]
      \/ status[r] = "new" /\ status' = [status EXCEPT ![r] = "queued"]
  BY DEF Enqueue, HoldRun, RunStep, EndRun, ReapRun, ClearRun
<1>3. TypeOK'
  <2>1. gate' \in [Runs -> GateValues]
    BY DEF IInv, TypeOK, Enqueue, HoldRun, RunStep, EndRun, ReapRun, ClearRun, GateValues
  <2>2. status' \in [Runs -> {"new", "queued", "claimed", "running", "ended"}]
    BY <1>2 DEF IInv, TypeOK
  <2>3. QED
    BY <1>1, <2>1, <2>2 DEF IInv, TypeOK, lockVars
<1>4. \A c \in Calls : SameAccess(c) /\ (Inside(c)' <=> Inside(c))
  BY <1>1 DEF SameAccess, Inside
<1>5. LockInv'
  BY <1>1, <1>4, LockKept DEF IInv
<1>6. Claimed'
  <2>1. \A q \in Runs : status[q] \notin {"new", "queued"} => status'[q] \notin {"new", "queued"}
    BY <1>2 DEF IInv, TypeOK
  <2>2. \A d \in Calls : got[d] \subseteq Runs
    BY DEF IInv, TypeOK
  <2>3. \A d \in Calls : \A q \in got'[d] : status'[q] \notin {"new", "queued"}
    BY <1>1, <2>1, <2>2 DEF IInv, Claimed
  <2>4. QED
    BY <1>1, <1>4, <2>3 DEF IInv, Claimed, OneClaimer
<1>7. Seated'
  <2>1. Occupied' \subseteq Occupied
    BY <1>2 DEF IInv, TypeOK, Occupied
  <2>2. QED
    BY <1>1, <1>4, <2>1, SeatedKept DEF IInv
<1>8. QED
  BY <1>3, <1>5, <1>6, <1>7 DEF IInv

------------------------------------------------------------------------------
(* The theorems.                                                              *)

\* Every behaviour of startNextQueuedRunForAgent keeps the invariant.
THEOREM Invariance == Spec => []IInv
<1>1. Init => IInv
  <2>1. SUFFICES ASSUME Init PROVE IInv
    OBVIOUS
  <2>2. TypeOK
    <3>1. slots \in [Calls -> 0..MaxConcurrent] /\ age \in [Calls -> 0..Stale]
      BY <2>1, BoundAssumption DEF Init
    <3>2. gate \in [Runs -> GateValues] /\ pc \in [Calls -> Pcs]
      BY <2>1 DEF Init, Pcs
    <3>3. QED
      BY <2>1, <3>1, <3>2 DEF Init, TypeOK
  <2>3. LockInv
    BY <2>1 DEF Init, LockInv, Ordered, Chained, Fenced, LastIsLock, Older, Admitted,
                Active, Inside, InsidePcs
  <2>4. \A c \in Calls : ~Inside(c)
    BY <2>1 DEF Init, Inside, InsidePcs
  <2>5. Claimed
    BY <2>1 DEF Init, Claimed, OneClaimer
  <2>6. Occupied = {} /\ Cardinality(Occupied) = 0
    <3>1. Occupied = {}
      BY <2>1 DEF Init, Occupied
    <3>2. QED
      BY <3>1, FS_EmptySet
  <2>7. Seated
    BY <2>4, <2>6, BoundAssumption DEF Seated
  <2>8. QED
    BY <2>2, <2>3, <2>5, <2>7 DEF IInv
<1>2. IInv /\ [Next]_vars => IInv'
  <2>1. SUFFICES ASSUME IInv, [Next]_vars PROVE IInv'
    OBVIOUS
  <2>2. CASE UNCHANGED vars
    <3>1. TypeOK'
      BY <2>1, <2>2 DEF IInv, TypeOK, vars, lockVars, workVars
    <3>2. \A c \in Calls : SameAccess(c) /\ (Inside(c)' <=> Inside(c))
      BY <2>2 DEF vars, SameAccess, Inside
    <3>3. LockInv'
      BY <2>1, <2>2, <3>2, LockKept DEF IInv, vars
    <3>4. Claimed'
      BY <2>1, <2>2, <3>2 DEF IInv, Claimed, OneClaimer, vars, workVars
    <3>5. Seated'
      BY <2>1, <2>2, <3>2 DEF IInv, Seated, Occupied, vars, workVars
    <3>6. QED
      BY <3>1, <3>3, <3>4, <3>5 DEF IInv
  <2>3. ASSUME NEW c \in Calls, StartCall(c) \/ Step(c) \/ Fault(c) PROVE IInv'
    <3>1. CASE StartCall(c) \/ \E d \in Calls : StartNested(c, d)
      BY <2>1, <3>1, CallerStep
    <3>2. CASE Enter(c)
      BY <2>1, <3>2, AccessStep
    <3>3. CASE \E r \in Runs : ClaimRun(c, r) \/ PassOver(c, r) \/ Refuse(c, r) \/ CancelHeld(c, r)
      BY <2>1, <3>3, ClaimStep
    <3>4. CASE Count(c) \/ ReadQueue(c) \/ Fault(c)
      BY <2>1, <3>4, ClaimStep
    <3>5. CASE Finish(c) \/ Abort(c)
      BY <2>1, <3>5, LeaveStep
    <3>6. CASE Return(c) \/ \E r \in Runs : CancelRejected(c, r)
      BY <2>1, <3>6, SettleStep
    <3>7. QED
      BY <2>3, <3>1, <3>2, <3>3, <3>4, <3>5, <3>6 DEF Step
  <2>4. CASE StartSweep
    BY <2>1, <2>4, CallerStep, CallsAssumption
  <2>5. CASE Tick
    BY <2>1, <2>5, AccessStep, CallsAssumption
  <2>6. ASSUME NEW r \in Runs, Enqueue(r) \/ HoldRun(r) \/ RunStep(r) PROVE IInv'
    BY <2>1, <2>6, RunsStep
  <2>7. QED
    BY <2>1, <2>2, <2>3, <2>4, <2>5, <2>6 DEF Next
<1>3. QED
  BY <1>1, <1>2, PTL DEF Spec

\* The types of the declared variables, for any instance.
THEOREM TypeCorrect == Spec => []TypeOK
<1>1. IInv => TypeOK
  BY DEF IInv
<1>2. QED
  BY Invariance, <1>1, PTL

\* The start lock is exclusive for everybody younger than the stale time: for
\* any number of calls, nested or not, whatever hangs or throws.
THEOREM LockExclusive == Spec => []ExclusiveUnlessStale
<1>1. IInv => ExclusiveUnlessStale
  BY DEF IInv, LockInv, Fenced, Admitted, Older, ExclusiveUnlessStale
<1>2. QED
  BY Invariance, <1>1, PTL

\* Without an overlap the claims never exceed maxConcurrentRuns.
THEOREM SlotsKept == Spec => []SlotsRespected
<1>1. IInv => SlotsRespected
  BY DEF IInv, Seated, SlotsRespected
<1>2. QED
  BY Invariance, <1>1, PTL

\* A run is executed by one call only, also when calls overlap.
THEOREM ClaimedOnce == Spec => []OneClaimer
<1>1. IInv => OneClaimer
  BY DEF IInv, Claimed
<1>2. QED
  BY Invariance, <1>1, PTL
================================================================================
